-------------------------- MODULE ComparisonProofs --------------------------
(***************************************************************************)
(* Theorems of ControlledComparison.  The invariants of the review state   *)
(* rest on what a completion in progress knows of its replay: that it is   *)
(* still PENDING, so without an item and without any review event.         *)
(***************************************************************************)
EXTENDS Reporting, FiniteSetTheorems, TLAPS

USE ComparisonAssumption

LEMMA ReplayParts ==
  \A x \in Replays : SourceOf(x) \in Sources /\ ComparisonOf(x) \in Comparisons
BY DEF Replays, SourceOf, ComparisonOf

LEMMA ExecutionParts == /\ Sources \subseteq Executions
                        /\ Replays \subseteq Executions
                        /\ \A x \in Executions : x \in Sources \/ x \in Replays
BY DEF Executions

\* A decision that names a state makes a well-typed event.
LEMMA ReviewStateTyped ==
  ASSUME NEW x \in Executions, NEW s \in {"REQUIRED", "REVIEWED"},
         tracking \in [Executions -> Events], SetReviewState(x, s)
  PROVE  tracking' \in [Executions -> Events]
<1>1. [state |-> s, by |-> "admin"] \in Events
  BY DEF Events
<1>2. QED BY <1>1 DEF SetReviewState

\* An unchanged group of variables keeps its types.
LEMMA TypesKept ==
  /\ ReviewTypes /\ UNCHANGED reviewVars => ReviewTypes'
  /\ BaselineTypes /\ UNCHANGED baselineVars => BaselineTypes'
  /\ ReplayTypes /\ UNCHANGED replayVars => ReplayTypes'
  /\ SemanticTypes /\ UNCHANGED semanticVars => SemanticTypes'
  /\ DecisionTypes /\ UNCHANGED decisions => DecisionTypes'
BY DEF ReviewTypes, reviewVars, BaselineTypes, baselineVars, ReplayTypes, replayVars,
       SemanticTypes, semanticVars, DecisionTypes

-----------------------------------------------------------------------------
(* Type correctness.                                                       *)

\* Every variable keeps its type, for any run, baselines and comparisons.
THEOREM TypeCorrect == Spec => []ComparisonTypeOK
<1>1. Init => ComparisonTypeOK
  <2> SUFFICES ASSUME Init PROVE ComparisonTypeOK
    OBVIOUS
  <2>1. outcome \in [Executions -> TerminalOutcomes \cup {"ABSENT", "PENDING"}]
    BY ExecutionParts DEF Init
  <2>2. ReviewTypes
    BY DEF Init, ReviewTypes, NoEvent, Events
  <2>3. BaselineTypes
    BY DEF Init, BaselineTypes
  <2>4. NoItem \in Items
    BY DEF NoItem, Items
  <2>5. ReplayTypes
    BY <2>4 DEF Init, ReplayTypes, NotCompleting, Completions
  <2>6. SemanticTypes /\ DecisionTypes
    BY DEF Init, SemanticTypes, DecisionTypes
  <2>7. QED BY <2>1, <2>2, <2>3, <2>5, <2>6 DEF ComparisonTypeOK
<1>2. ASSUME ComparisonTypeOK, [Next]_vars
      PROVE  ComparisonTypeOK'
  <2>0. /\ outcome \in [Executions -> TerminalOutcomes \cup {"ABSENT", "PENDING"}]
        /\ ReviewTypes /\ BaselineTypes /\ ReplayTypes /\ SemanticTypes /\ DecisionTypes
    BY <1>2 DEF ComparisonTypeOK
  <2>a. NoItem \in Items /\ NotCompleting \in Completions
    BY DEF NoItem, Items, NotCompleting, Completions
  <2>1. ASSUME NEW b \in Baselines, BeginPromotion(b)
        PROVE  ComparisonTypeOK'
    <3>1. BaselineTypes'
      BY <2>0, <2>1 DEF BaselineTypes, BeginPromotion
    <3>2. QED BY <2>0, <2>1, <3>1, TypesKept DEF BeginPromotion, ComparisonTypeOK
  <2>2. ASSUME NEW b \in Baselines, NEW active \in {"ACTIVE", "INACTIVE"}, CommitPromotion(b, active)
        PROVE  ComparisonTypeOK'
    <3>1. BaselineTypes'
      BY <2>0, <2>2 DEF BaselineTypes, CommitPromotion
    <3>2. QED BY <2>0, <2>2, <3>1, TypesKept DEF CommitPromotion, ComparisonTypeOK
  <2>3. ASSUME NEW b \in Baselines, NEW active \in {"ACTIVE", "INACTIVE"}, SetBaselineActive(b, active)
        PROVE  ComparisonTypeOK'
    <3>1. BaselineTypes'
      BY <2>0, <2>3 DEF BaselineTypes, SetBaselineActive
    <3>2. QED BY <2>0, <2>3, <3>1, TypesKept DEF SetBaselineActive, ComparisonTypeOK
  <2>4. ASSUME NEW c \in Comparisons, NEW b \in Baselines, LaunchControlledComparison(c, b)
        PROVE  ComparisonTypeOK'
    <3>1. outcome' \in [Executions -> TerminalOutcomes \cup {"ABSENT", "PENDING"}]
      BY <2>0, <2>4 DEF LaunchControlledComparison
    <3>2. \A s : PreflightReason(s) \in Reasons \cup {"NONE"}
      BY DEF PreflightReason, Reasons
    <3>3. ReplayTypes'
      BY <2>0, <2>4, <3>2 DEF ReplayTypes, LaunchControlledComparison
    <3>4. QED BY <2>0, <2>4, <3>1, <3>3, TypesKept DEF LaunchControlledComparison, ComparisonTypeOK
  <2>5. ASSUME NEW x \in Replays, NEW o \in TerminalOutcomes, CompareExact(x, o)
        PROVE  ComparisonTypeOK'
    <3>1. NonComparableReason(x, o) \in Reasons \cup {"NONE"}
      BY <2>0 DEF ReplayTypes, NonComparableReason, PreflightReason, Reasons
    <3>2. ASSUME NEW i \in ItemsFor(x, o)
          PROVE  i \in Items
      BY <3>1 DEF ItemsFor, Items
    <3>3. ASSUME NEW i \in ItemsFor(x, o)
          PROVE  [replay |-> x, outcome |-> o, item |-> i] \in Completions
      BY <3>2 DEF Completions
    <3>4. ReplayTypes'
      BY <2>0, <2>5, <3>3 DEF ReplayTypes, CompareExact
    <3>5. QED BY <2>0, <2>5, <3>4, TypesKept DEF CompareExact, ComparisonTypeOK
  <2>6. ASSUME NEW x \in Replays, CloseWithoutComparing(x)
        PROVE  ComparisonTypeOK'
    <3>1. outcome' \in [Executions -> TerminalOutcomes \cup {"ABSENT", "PENDING"}]
      BY <2>0, <2>6 DEF CloseWithoutComparing, TerminalOutcomes
    <3>2. QED BY <2>0, <2>6, <3>1, TypesKept DEF CloseWithoutComparing, ComparisonTypeOK
  <2>7. ASSUME NEW x \in Replays, NEW o \in SemanticOutcomes, ReevaluateSemantic(x, o)
        PROVE  ComparisonTypeOK'
    <3>1. Triage(x, o) \in Events
      BY <2>0, ExecutionParts DEF ReviewTypes, Triage, Events
    <3>2. ReviewTypes'
      BY <2>0, <2>7, <3>1 DEF ReviewTypes, ReevaluateSemantic
    <3>3. SemanticTypes'
      BY <2>0, <2>7 DEF SemanticTypes, ReevaluateSemantic
    <3>4. QED BY <2>0, <2>7, <3>2, <3>3, TypesKept DEF ReevaluateSemantic, ComparisonTypeOK
  <2>8. ASSUME NEW c \in Comparisons, CommitCompletion(c)
        PROVE  ComparisonTypeOK'
    <3> DEFINE x == completing[c].replay
    <3>1. completing[c].item \in Items /\ completing[c].outcome \in TerminalOutcomes \cup {"PENDING"}
      BY <2>0 DEF ReplayTypes, Completions
    <3>2. outcome' = [outcome EXCEPT ![x] = completing[c].outcome]
      BY <2>8 DEF CommitCompletion
    <3>3. outcome' \in [Executions -> TerminalOutcomes \cup {"ABSENT", "PENDING"}]
      BY <2>0, <3>1, <3>2
    <3>4. [state |-> "REQUIRED", by |-> "exact"] \in Events
      BY DEF Events
    <3>5. ReviewTypes'
      BY <2>0, <2>8, <3>4 DEF ReviewTypes, CommitCompletion
    <3>6. ReplayTypes'
      BY <2>0, <2>8, <2>a, <3>1 DEF ReplayTypes, CommitCompletion
    <3>7. SemanticTypes'
      <4>1. \/ UNCHANGED semanticVars
            \/ /\ semantic' = [semantic EXCEPT ![x] = "ERROR"]
               /\ results' = [results EXCEPT ![x] = @ + 1]
        BY <2>8 DEF CommitCompletion
      <4> HIDE DEF x
      <4>2. QED BY <2>0, <4>1, TypesKept DEF SemanticTypes, SemanticOutcomes
    <3>8. QED BY <2>0, <2>8, <3>3, <3>5, <3>6, <3>7, TypesKept DEF CommitCompletion, ComparisonTypeOK
  <2>9. ASSUME NEW c \in Comparisons, RollBackCompletion(c)
        PROVE  ComparisonTypeOK'
    <3>1. ReplayTypes'
      BY <2>0, <2>9, <2>a DEF ReplayTypes, RollBackCompletion
    <3>2. QED BY <2>0, <2>9, <3>1, TypesKept DEF RollBackCompletion, ComparisonTypeOK
  <2>10. ASSUME NEW x \in Executions, MarkReviewRequired(x)
         PROVE  ComparisonTypeOK'
    <3>1. ReviewTypes'
      BY <2>0, <2>10, ReviewStateTyped DEF ReviewTypes, MarkReviewRequired
    <3>2. DecisionTypes'
      BY <2>0, <2>10 DEF DecisionTypes, MarkReviewRequired, Decide
    <3>3. QED BY <2>0, <2>10, <3>1, <3>2, TypesKept DEF MarkReviewRequired, ComparisonTypeOK
  <2>11. ASSUME NEW x \in Executions, MarkReviewedWithoutJudgment(x)
         PROVE  ComparisonTypeOK'
    <3>1. ReviewTypes'
      BY <2>0, <2>11, ReviewStateTyped DEF ReviewTypes, MarkReviewedWithoutJudgment
    <3>2. DecisionTypes'
      BY <2>0, <2>11 DEF DecisionTypes, MarkReviewedWithoutJudgment, Decide
    <3>3. QED BY <2>0, <2>11, <3>1, <3>2, TypesKept DEF MarkReviewedWithoutJudgment, ComparisonTypeOK
  <2>12. ASSUME NEW x \in Executions, NEW j \in {"GOOD", "BAD"}, RecordHumanReview(x, j)
         PROVE  ComparisonTypeOK'
    <3>1. ReviewTypes'
      BY <2>0, <2>12, ReviewStateTyped DEF ReviewTypes, RecordHumanReview
    <3>2. DecisionTypes'
      BY <2>0, <2>12 DEF DecisionTypes, RecordHumanReview, Decide
    <3>3. QED BY <2>0, <2>12, <3>1, <3>2, TypesKept DEF RecordHumanReview, ComparisonTypeOK
  <2>13. ASSUME NEW x \in Executions, NEW v \in {"VALID", "INVALID"}, SetExecutionValidity(x, v)
         PROVE  ComparisonTypeOK'
    <3>1. BaselinesWith(x) \subseteq Baselines /\ (BaselinesWith(x) # {} => x \in Sources)
      BY DEF BaselinesWith, Existing
    <3>2. BaselineTypes'
      BY <2>0, <2>13, <3>1 DEF BaselineTypes, SetExecutionValidity
    <3>3. ReviewTypes'
      BY <2>0, <2>13 DEF ReviewTypes, SetExecutionValidity
    <3>4. DecisionTypes'
      BY <2>0, <2>13 DEF DecisionTypes, SetExecutionValidity, Decide
    <3>5. QED BY <2>0, <2>13, <3>2, <3>3, <3>4, TypesKept DEF SetExecutionValidity, ComparisonTypeOK
  <2>14. CASE UNCHANGED vars
    BY <2>0, <2>14, TypesKept DEF vars, ComparisonTypeOK
  <2>15. QED
    BY <1>2, <2>1, <2>2, <2>3, <2>4, <2>5, <2>6, <2>7, <2>8, <2>9, <2>10, <2>11, <2>12, <2>13, <2>14 DEF Next
<1>3. QED BY <1>1, <1>2, PTL DEF Spec

-----------------------------------------------------------------------------
(* Pairs of a replay and its source: items and completions in progress.    *)

SourcesTerminal == \A s \in Sources : outcome[s] \in TerminalOutcomes

LaunchedReplays ==
  \A x \in Replays : (outcome[x] = "ABSENT") <=> (replayOf[ComparisonOf(x)] = NoBaseline)

OpenReplays == \A x \in Replays : ~Terminal(x) => item[x] = NoItem

\* What ItemTellsWhy says of an item i for x when x ends with outcome o.
Fits(x, o, i) ==
  /\ i.state # "NOT_RUN" /\ frozen[x] # "NONE" => i.reason = frozen[x]
  /\ i.state \in {"UNCHANGED", "CHANGED"} =>
       i.reason = "NONE" /\ o = "SUCCESS" /\ outcome[SourceOf(x)] = "SUCCESS"

CompletionFits(c) ==
  /\ completing[c].replay \in ReplaysIn(c)
  /\ outcome[completing[c].replay] = "PENDING"
  /\ completing[c].outcome \in TerminalOutcomes
  /\ Fits(completing[c].replay, completing[c].outcome, completing[c].item)

CompletionsFit == \A c \in Comparisons : completing[c] # NotCompleting => CompletionFits(c)

PairsInv ==
  SourcesTerminal /\ LaunchedReplays /\ OpenReplays /\ CompletionsFit /\ ItemTellsWhy

LEMMA ItemsFit == ItemTellsWhy <=> \A x \in Replays : Fits(x, outcome[x], item[x])
BY DEF ItemTellsWhy, Fits

LEMMA ItemsFitNext == ItemTellsWhy' <=> \A x \in Replays : Fits(x, outcome[x], item[x])'
BY DEF ItemTellsWhy, Fits

LEMMA NoItemFits == \A x, o : Fits(x, o, NoItem)
BY DEF Fits, NoItem

LEMMA PairsInit == Init => PairsInv
<1> SUFFICES ASSUME Init PROVE PairsInv
  OBVIOUS
<1>1. \A x \in Replays : outcome[x] = "ABSENT" /\ x \notin Sources
  BY ExecutionParts DEF Init
<1>2. SourcesTerminal
  BY ExecutionParts DEF Init, SourcesTerminal
<1>3. LaunchedReplays
  BY <1>1, ReplayParts DEF Init, LaunchedReplays
<1>4. OpenReplays /\ CompletionsFit
  BY DEF Init, OpenReplays, CompletionsFit
<1>5. ItemTellsWhy
  BY NoItemFits, ItemsFit DEF Init
<1>6. QED BY <1>2, <1>3, <1>4, <1>5 DEF PairsInv

\* The outcome of a source never changes, so what was found about a pair stays.
LEMMA FitsStable ==
  ASSUME NEW x \in Replays, NEW o, NEW i, Fits(x, o, i), frozen'[x] = frozen[x],
         outcome'[SourceOf(x)] = outcome[SourceOf(x)]
  PROVE  Fits(x, o, i)'
BY DEF Fits

LEMMA PairsKept ==
  ASSUME PairsInv, UNCHANGED <<outcome, replayVars>>
  PROVE  PairsInv'
<1>1. SourcesTerminal' /\ LaunchedReplays' /\ OpenReplays'
  BY DEF PairsInv, SourcesTerminal, LaunchedReplays, OpenReplays, Terminal, replayVars
<1>2. CompletionsFit'
  BY DEF PairsInv, CompletionsFit, CompletionFits, Fits, replayVars
<1>3. ItemTellsWhy'
  BY DEF PairsInv, ItemTellsWhy, replayVars
<1>4. QED BY <1>1, <1>2, <1>3 DEF PairsInv

\* What CompareExact finds fits the pair.
LEMMA FoundItemFits ==
  ASSUME NEW x \in Replays, NEW o \in TerminalOutcomes, NEW i \in ItemsFor(x, o)
  PROVE  Fits(x, o, i)
BY DEF Fits, ItemsFor, NonComparableReason, PreflightReason

LEMMA PairsStep ==
  ASSUME ComparisonTypeOK, PairsInv, [Next]_vars
  PROVE  PairsInv'
<1>0. /\ outcome \in [Executions -> TerminalOutcomes \cup {"ABSENT", "PENDING"}]
      /\ ReplayTypes
      /\ SourcesTerminal /\ LaunchedReplays /\ OpenReplays /\ CompletionsFit /\ ItemTellsWhy
  BY DEF ComparisonTypeOK, PairsInv
<1>a. \A x \in Replays : x \notin Sources /\ x \in Executions /\ SourceOf(x) \in Sources
  BY ExecutionParts, ReplayParts
<1>1. ASSUME NEW c \in Comparisons, NEW b \in Baselines, LaunchControlledComparison(c, b)
      PROVE  PairsInv'
  <2>1. /\ replayOf[c] = NoBaseline
        /\ replayOf' = [replayOf EXCEPT ![c] = b]
        /\ outcome' = [x \in Executions |-> IF x \in ReplaysIn(c) THEN "PENDING" ELSE outcome[x]]
        /\ \A x \in Replays \ ReplaysIn(c) : frozen'[x] = frozen[x]
        /\ UNCHANGED <<completing, item>>
    BY <1>1 DEF LaunchControlledComparison
  <2>2. \A x \in ReplaysIn(c) : outcome[x] = "ABSENT" /\ item[x] = NoItem
    BY <1>0, <2>1 DEF LaunchedReplays, OpenReplays, Terminal, TerminalOutcomes, ReplaysIn
  <2>3. \A x \in Executions : x \notin ReplaysIn(c) => outcome'[x] = outcome[x]
    BY <2>1
  <2>4. \A s \in Sources : outcome'[s] = outcome[s]
    BY <1>a, <2>3, ExecutionParts DEF ReplaysIn
  <2>5. SourcesTerminal'
    BY <1>0, <2>4 DEF SourcesTerminal
  <2>6. LaunchedReplays'
    BY <1>0, <1>a, <2>1, ReplayParts DEF LaunchedReplays, ReplaysIn, ReplayTypes
  <2>7. OpenReplays'
    BY <1>0, <1>a, <2>1, <2>2, <2>3 DEF OpenReplays, Terminal
  <2>8. CompletionsFit'
    <3> SUFFICES ASSUME NEW d \in Comparisons, completing[d] # NotCompleting
                 PROVE  CompletionFits(d)'
      BY <2>1 DEF CompletionsFit
    <3> DEFINE y == completing[d].replay
    <3>1. CompletionFits(d)
      BY <1>0 DEF CompletionsFit
    <3>2. y \in Replays /\ y \notin ReplaysIn(c) /\ y \in ReplaysIn(d)
      BY <2>2, <3>1 DEF CompletionFits, ReplaysIn
    <3>3. outcome'[y] = outcome[y] /\ frozen'[y] = frozen[y] /\ outcome'[SourceOf(y)] = outcome[SourceOf(y)]
      BY <1>a, <2>1, <2>3, <2>4, <3>2
    <3>4. Fits(y, completing[d].outcome, completing[d].item)'
      BY <2>1, <3>1, <3>2, <3>3 DEF CompletionFits, Fits
    <3>5. QED BY <2>1, <3>1, <3>2, <3>3, <3>4 DEF CompletionFits, ReplaysIn
  <2>9. ItemTellsWhy'
    <3> SUFFICES ASSUME NEW x \in Replays
                 PROVE  Fits(x, outcome[x], item[x])'
      BY ItemsFitNext
    <3>1. CASE x \in ReplaysIn(c)
      BY <2>1, <2>2, <3>1 DEF Fits, NoItem
    <3>2. CASE x \notin ReplaysIn(c)
      <4>1. Fits(x, outcome[x], item[x])
        BY <1>0, ItemsFit
      <4>2. QED BY <1>a, <2>1, <2>3, <2>4, <3>2, <4>1 DEF Fits
    <3>3. QED BY <3>1, <3>2
  <2>10. QED BY <2>5, <2>6, <2>7, <2>8, <2>9 DEF PairsInv
<1>2. ASSUME NEW x \in Replays, NEW o \in TerminalOutcomes, CompareExact(x, o)
      PROVE  PairsInv'
  <2>1. PICK i \in ItemsFor(x, o) :
          completing' = [completing EXCEPT ![ComparisonOf(x)] = [replay |-> x, outcome |-> o, item |-> i]]
    BY <1>2 DEF CompareExact
  <2>2. outcome[x] = "PENDING" /\ UNCHANGED <<outcome, replayOf, frozen, item>>
    BY <1>2 DEF CompareExact
  <2>3. Fits(x, o, i)
    BY FoundItemFits
  <2>4. CompletionsFit'
    <3> SUFFICES ASSUME NEW d \in Comparisons, completing'[d] # NotCompleting
                 PROVE  CompletionFits(d)'
      BY DEF CompletionsFit
    <3>1. CASE d = ComparisonOf(x)
      <4>1. completing'[d] = [replay |-> x, outcome |-> o, item |-> i]
        BY <1>0, <2>1, <3>1 DEF ReplayTypes
      <4>2. QED BY <2>2, <2>3, <3>1, <4>1 DEF CompletionFits, ReplaysIn, Fits
    <3>2. CASE d # ComparisonOf(x)
      <4>1. completing'[d] = completing[d]
        BY <1>0, <2>1, <3>2 DEF ReplayTypes
      <4>2. QED BY <1>0, <2>2, <4>1 DEF CompletionsFit, CompletionFits, Fits
    <3>3. QED BY <3>1, <3>2
  <2>5. QED BY <1>0, <2>2, <2>4
    DEF PairsInv, SourcesTerminal, LaunchedReplays, OpenReplays, Terminal, ItemTellsWhy
<1>3. ASSUME NEW x \in Replays, CloseWithoutComparing(x)
      PROVE  PairsInv'
  <2>1. /\ outcome[x] = "PENDING" /\ outcome' = [outcome EXCEPT ![x] = "ERROR"]
        /\ \A c \in Comparisons : x \in ReplaysIn(c) => completing[c].replay # x
        /\ UNCHANGED replayVars
    BY <1>3 DEF CloseWithoutComparing, ReplaysIn
  <2>2. /\ outcome'[x] = "ERROR" /\ item[x] = NoItem
        /\ \A y \in Executions : y # x => outcome'[y] = outcome[y]
    BY <1>0, <1>a, <2>1 DEF OpenReplays, Terminal, TerminalOutcomes
  <2>3. \A s \in Sources : outcome'[s] = outcome[s]
    BY <1>a, <2>2, ExecutionParts
  <2>4. SourcesTerminal'
    BY <1>0, <2>3 DEF SourcesTerminal
  <2>5. LaunchedReplays'
    BY <1>0, <1>a, <2>1, <2>2 DEF LaunchedReplays, replayVars
  <2>6. OpenReplays'
    BY <1>0, <1>a, <2>1, <2>2 DEF OpenReplays, Terminal, replayVars
  <2>7. CompletionsFit'
    <3> SUFFICES ASSUME NEW d \in Comparisons, completing[d] # NotCompleting
                 PROVE  CompletionFits(d)'
      BY <2>1 DEF CompletionsFit, replayVars
    <3>1. CompletionFits(d)
      BY <1>0 DEF CompletionsFit
    <3>2. completing[d].replay \in Replays /\ completing[d].replay # x
      BY <2>1, <3>1 DEF CompletionFits, ReplaysIn
    <3>3. QED BY <1>a, <2>1, <2>2, <2>3, <3>1, <3>2 DEF CompletionFits, Fits, replayVars
  <2>8. ItemTellsWhy'
    BY <1>0, <1>a, <2>1, <2>2, <2>3 DEF ItemTellsWhy, NoItem, replayVars
  <2>9. QED BY <2>4, <2>5, <2>6, <2>7, <2>8 DEF PairsInv
<1>4. ASSUME NEW c \in Comparisons, CommitCompletion(c)
      PROVE  PairsInv'
  <2> DEFINE x == completing[c].replay
             o == completing[c].outcome
             i == completing[c].item
  <2>1. /\ completing[c] # NotCompleting
        /\ completing' = [completing EXCEPT ![c] = NotCompleting]
        /\ outcome' = [outcome EXCEPT ![x] = o]
        /\ item' = [item EXCEPT ![x] = i]
        /\ UNCHANGED <<replayOf, frozen>>
    BY <1>4 DEF CommitCompletion
  <2>2. x \in ReplaysIn(c) /\ outcome[x] = "PENDING" /\ o \in TerminalOutcomes /\ Fits(x, o, i)
    BY <1>0, <2>1 DEF CompletionsFit, CompletionFits
  <2> HIDE DEF x, o, i
  <2>3. x \in Replays /\ x \in Executions
    BY <1>a, <2>2 DEF ReplaysIn
  <2>4. /\ outcome'[x] = o /\ item'[x] = i
        /\ \A y \in Executions : y # x => outcome'[y] = outcome[y]
        /\ \A y \in Replays : y # x => item'[y] = item[y]
    BY <1>0, <2>1, <2>3 DEF ReplayTypes
  <2>5. \A s \in Sources : outcome'[s] = outcome[s]
    BY <1>a, <2>3, <2>4, ExecutionParts
  <2>6. SourcesTerminal'
    BY <1>0, <2>5 DEF SourcesTerminal
  <2>7. LaunchedReplays'
    BY <1>0, <1>a, <2>1, <2>2, <2>4 DEF LaunchedReplays, TerminalOutcomes
  <2>8. OpenReplays'
    BY <1>0, <1>a, <2>2, <2>4 DEF OpenReplays, Terminal
  <2>9. CompletionsFit'
    <3> SUFFICES ASSUME NEW d \in Comparisons, completing'[d] # NotCompleting
                 PROVE  CompletionFits(d)'
      BY DEF CompletionsFit
    <3>1. d # c /\ completing'[d] = completing[d]
      BY <1>0, <2>1 DEF ReplayTypes
    <3>2. CompletionFits(d)
      BY <1>0, <3>1 DEF CompletionsFit
    <3>3. completing[d].replay \in Replays /\ completing[d].replay # x
      BY <2>2, <3>1, <3>2 DEF CompletionFits, ReplaysIn
    <3>4. QED BY <1>a, <2>1, <2>4, <2>5, <3>1, <3>2, <3>3 DEF CompletionFits, Fits
  <2>10. ItemTellsWhy'
    <3> SUFFICES ASSUME NEW y \in Replays
                 PROVE  Fits(y, outcome[y], item[y])'
      BY ItemsFitNext
    <3>1. Fits(y, outcome'[y], item'[y])
      BY <1>0, <1>a, <2>2, <2>4, ItemsFit
    <3>2. QED BY <1>a, <2>1, <2>5, <3>1 DEF Fits
  <2>11. QED BY <2>6, <2>7, <2>8, <2>9, <2>10 DEF PairsInv
<1>5. ASSUME NEW c \in Comparisons, RollBackCompletion(c)
      PROVE  PairsInv'
  <2>1. /\ completing' = [completing EXCEPT ![c] = NotCompleting]
        /\ UNCHANGED <<outcome, replayOf, frozen, item>>
    BY <1>5 DEF RollBackCompletion
  <2>2. CompletionsFit'
    BY <1>0, <2>1 DEF ReplayTypes, CompletionsFit, CompletionFits, Fits
  <2>3. QED BY <1>0, <2>1, <2>2
    DEF PairsInv, SourcesTerminal, LaunchedReplays, OpenReplays, Terminal, ItemTellsWhy
<1>6. ASSUME NEW x \in Replays, NEW o \in SemanticOutcomes, ReevaluateSemantic(x, o)
      PROVE  PairsInv'
  BY <1>6, PairsKept DEF ReevaluateSemantic
<1>7. ASSUME NEW b \in Baselines, NEW active \in {"ACTIVE", "INACTIVE"},
             BeginPromotion(b) \/ CommitPromotion(b, active) \/ SetBaselineActive(b, active)
      PROVE  PairsInv'
  BY <1>7, PairsKept DEF BeginPromotion, CommitPromotion, SetBaselineActive
<1>8. ASSUME NEW x \in Executions, NEW j \in {"GOOD", "BAD"}, NEW v \in {"VALID", "INVALID"},
             \/ MarkReviewRequired(x) \/ MarkReviewedWithoutJudgment(x)
             \/ RecordHumanReview(x, j) \/ SetExecutionValidity(x, v)
      PROVE  PairsInv'
  BY <1>8, PairsKept
  DEF MarkReviewRequired, MarkReviewedWithoutJudgment, RecordHumanReview, SetExecutionValidity
<1>9. CASE UNCHANGED vars
  BY <1>9, PairsKept DEF vars
<1>10. QED BY <1>1, <1>2, <1>3, <1>4, <1>5, <1>6, <1>7, <1>8, <1>9 DEF Next

\* Every item gives the reason frozen at launch, and compares answers only
\* where both observations have one.
THEOREM ItemsExplained == Spec => []ItemTellsWhy
<1>1. Init => PairsInv
  BY PairsInit
<1>2. ComparisonTypeOK /\ PairsInv /\ [Next]_vars => PairsInv'
  BY PairsStep
<1>3. PairsInv => ItemTellsWhy
  BY DEF PairsInv
<1>4. QED BY <1>1, <1>2, <1>3, TypeCorrect, PTL DEF Spec

-----------------------------------------------------------------------------
(* Review state.                                                           *)

OpenUntouched == \A x \in Executions : ~Terminal(x) => tracking[x] = NoEvent

AdminDecides == \A x \in Executions : tracking[x].by = "admin" => tracking[x].state # "NONE"

ReviewInv == OpenUntouched /\ AdminDecides /\ ChangeIsSeen /\ ReviewedAnswerIsJudged

LEMMA ReviewInit == Init => ReviewInv
BY ExecutionParts
DEF Init, ReviewInv, OpenUntouched, AdminDecides, ChangeIsSeen, ReviewedAnswerIsJudged, NoEvent, NoItem

LEMMA ReviewKept ==
  ASSUME ReviewInv, UNCHANGED <<outcome, tracking, judgment, item, semantic>>
  PROVE  ReviewInv'
BY DEF ReviewInv, OpenUntouched, AdminDecides, ChangeIsSeen, ReviewedAnswerIsJudged, Terminal

\* An administrator's review event on a terminal Execution.
LEMMA DecisionKeepsReview ==
  ASSUME NEW x \in Executions, NEW s \in {"REQUIRED", "REVIEWED"},
         tracking \in [Executions -> Events], ReviewInv, Terminal(x), SetReviewState(x, s),
         UNCHANGED <<outcome, item, semantic>>,
         \A y \in Executions : y # x => judgment'[y] = judgment[y],
         s = "REVIEWED" => outcome[x] # "SUCCESS" \/ judgment'[x] # "NONE"
  PROVE  ReviewInv'
<1>1. /\ tracking'[x].state = s
      /\ tracking'[x].by = "admin" \/ tracking'[x] = tracking[x]
      /\ \A y \in Executions : y # x => tracking'[y] = tracking[y]
  BY DEF SetReviewState
<1>2. OpenUntouched' /\ AdminDecides'
  BY <1>1 DEF ReviewInv, OpenUntouched, AdminDecides, Terminal
<1>3. ChangeIsSeen'
  BY <1>1, ExecutionParts DEF ReviewInv, ChangeIsSeen
<1>4. ReviewedAnswerIsJudged'
  BY <1>1 DEF ReviewInv, ReviewedAnswerIsJudged
<1>5. QED BY <1>2, <1>3, <1>4 DEF ReviewInv

\* What CommitCompletion does to the review state of its replay x.
CompletesReview(x) ==
  /\ tracking[x] = NoEvent
  /\ tracking'[x] = IF item'[x].state = "CHANGED"
                    THEN [state |-> "REQUIRED", by |-> "exact"] ELSE NoEvent
  /\ outcome'[x] \in TerminalOutcomes
  /\ \A y \in Executions : y # x => outcome'[y] = outcome[y] /\ tracking'[y] = tracking[y]
  /\ \A y \in Replays : y # x => item'[y] = item[y] /\ semantic'[y] = semantic[y]

LEMMA CompletionEffect ==
  ASSUME ComparisonTypeOK, PairsInv, ReviewInv, NEW c \in Comparisons, CommitCompletion(c)
  PROVE  \E x \in Replays : CompletesReview(x)
<1> DEFINE x == completing[c].replay
           i == completing[c].item
<1>1. /\ completing[c] # NotCompleting
      /\ outcome' = [outcome EXCEPT ![x] = completing[c].outcome]
      /\ item' = [item EXCEPT ![x] = i]
      /\ tracking' = IF i.state = "CHANGED"
                     THEN [tracking EXCEPT ![x] = [state |-> "REQUIRED", by |-> "exact"]]
                     ELSE tracking
      /\ semantic' = [semantic EXCEPT ![x] = "ERROR"] \/ semantic' = semantic
  BY DEF CommitCompletion, semanticVars
<1>2. x \in ReplaysIn(c) /\ outcome[x] = "PENDING" /\ completing[c].outcome \in TerminalOutcomes
  BY <1>1 DEF PairsInv, CompletionsFit, CompletionFits
<1>3. /\ outcome \in [Executions -> TerminalOutcomes \cup {"ABSENT", "PENDING"}]
      /\ tracking \in [Executions -> Events]
      /\ item \in [Replays -> Items]
      /\ semantic \in [Replays -> SemanticOutcomes \cup {"NOT_RUN"}]
  BY DEF ComparisonTypeOK, ReviewTypes, ReplayTypes, SemanticTypes
<1> HIDE DEF x, i
<1>4. x \in Replays /\ x \in Executions
  BY <1>2, ExecutionParts DEF ReplaysIn
<1>5. tracking[x] = NoEvent
  BY <1>2, <1>4 DEF ReviewInv, OpenUntouched, Terminal, TerminalOutcomes
<1>6. item'[x] = i /\ outcome'[x] \in TerminalOutcomes
  BY <1>1, <1>2, <1>3, <1>4
<1>7. tracking'[x] = IF item'[x].state = "CHANGED"
                    THEN [state |-> "REQUIRED", by |-> "exact"] ELSE NoEvent
  BY <1>1, <1>3, <1>4, <1>5, <1>6
<1>8. \A y \in Executions : y # x => outcome'[y] = outcome[y] /\ tracking'[y] = tracking[y]
  BY <1>1, <1>3, <1>4
<1>9. \A y \in Replays : y # x => item'[y] = item[y] /\ semantic'[y] = semantic[y]
  BY <1>1, <1>3, <1>4
<1>10. CompletesReview(x)
  BY <1>5, <1>6, <1>7, <1>8, <1>9 DEF CompletesReview
<1>11. QED BY <1>4, <1>10

LEMMA ReviewStep ==
  ASSUME ComparisonTypeOK, PairsInv, ReviewInv, [Next]_vars
  PROVE  ReviewInv'
<1>0. /\ outcome \in [Executions -> TerminalOutcomes \cup {"ABSENT", "PENDING"}]
      /\ tracking \in [Executions -> Events]
      /\ judgment \in [Executions -> {"NONE", "GOOD", "BAD"}]
      /\ semantic \in [Replays -> SemanticOutcomes \cup {"NOT_RUN"}]
      /\ OpenUntouched /\ AdminDecides /\ ChangeIsSeen /\ ReviewedAnswerIsJudged
  BY DEF ComparisonTypeOK, ReviewTypes, SemanticTypes, ReviewInv
<1>1. ASSUME NEW c \in Comparisons, NEW b \in Baselines, LaunchControlledComparison(c, b)
      PROVE  ReviewInv'
  <2>1. /\ \A x \in Executions : outcome'[x] = outcome[x] \/ (outcome'[x] = "PENDING" /\ ~Terminal(x))
        /\ UNCHANGED <<tracking, judgment, item, semantic>>
    BY <1>1, ExecutionParts DEF LaunchControlledComparison, PairsInv, LaunchedReplays, ReplaysIn,
       Terminal, TerminalOutcomes, reviewVars, semanticVars
  <2>2. OpenUntouched'
    BY <1>0, <2>1 DEF OpenUntouched, Terminal
  <2>3. ReviewedAnswerIsJudged'
    BY <1>0, <2>1 DEF ReviewedAnswerIsJudged
  <2>4. QED BY <1>0, <2>1, <2>2, <2>3 DEF ReviewInv, AdminDecides, ChangeIsSeen
<1>2. ASSUME NEW x \in Replays, CloseWithoutComparing(x)
      PROVE  ReviewInv'
  <2>1. /\ \A y \in Executions : outcome'[y] = outcome[y] \/ outcome'[y] = "ERROR"
        /\ UNCHANGED <<tracking, judgment, item, semantic>>
    BY <1>0, <1>2 DEF CloseWithoutComparing, reviewVars, replayVars, semanticVars
  <2>2. OpenUntouched'
    BY <1>0, <2>1 DEF OpenUntouched, Terminal, TerminalOutcomes
  <2>3. ReviewedAnswerIsJudged'
    BY <1>0, <2>1 DEF ReviewedAnswerIsJudged
  <2>4. QED BY <1>0, <2>1, <2>2, <2>3 DEF ReviewInv, AdminDecides, ChangeIsSeen
<1>3. ASSUME NEW c \in Comparisons, CommitCompletion(c)
      PROVE  ReviewInv'
  <2>1. PICK x \in Replays : CompletesReview(x)
    BY <1>3, CompletionEffect
  <2>a. /\ \/ tracking'[x] = NoEvent /\ item'[x].state # "CHANGED"
           \/ tracking'[x] = [state |-> "REQUIRED", by |-> "exact"]
        /\ outcome'[x] \in TerminalOutcomes
    BY <2>1 DEF CompletesReview
  <2>b. \A y \in Executions : y # x => outcome'[y] = outcome[y] /\ tracking'[y] = tracking[y]
    BY <2>1 DEF CompletesReview
  <2>c. \A y \in Replays : y # x => item'[y] = item[y] /\ semantic'[y] = semantic[y]
    BY <2>1 DEF CompletesReview
  <2>2. judgment' = judgment
    BY <1>3 DEF CommitCompletion
  <2>d. /\ tracking'[x].state \in {"NONE", "REQUIRED"} /\ tracking'[x].by # "admin"
        /\ tracking'[x].state = "NONE" => item'[x].state # "CHANGED"
    <3>1. CASE tracking'[x] = NoEvent /\ item'[x].state # "CHANGED"
      BY <3>1 DEF NoEvent
    <3>2. CASE tracking'[x] = [state |-> "REQUIRED", by |-> "exact"]
      BY <3>2
    <3>3. QED BY <2>a, <3>1, <3>2
  <2>3. OpenUntouched'
    <3> SUFFICES ASSUME NEW y \in Executions, outcome'[y] \notin TerminalOutcomes
                 PROVE  tracking'[y] = NoEvent
      BY DEF OpenUntouched, Terminal
    <3>1. y # x
      BY <2>a
    <3>2. QED BY <1>0, <2>b, <3>1 DEF OpenUntouched, Terminal
  <2>4. AdminDecides'
    <3> SUFFICES ASSUME NEW y \in Executions, tracking'[y].by = "admin"
                 PROVE  tracking'[y].state # "NONE"
      BY DEF AdminDecides
    <3>1. y # x
      BY <2>d
    <3>2. QED BY <1>0, <2>b, <3>1 DEF AdminDecides
  <2>5. ChangeIsSeen'
    <3> SUFFICES ASSUME NEW y \in Replays, item'[y].state = "CHANGED", tracking'[y].state = "NONE"
                 PROVE  semantic'[y] = "EQUIVALENT"
      BY DEF ChangeIsSeen
    <3>1. y # x /\ y \in Executions
      BY <2>d, ExecutionParts
    <3>2. QED BY <1>0, <2>b, <2>c, <3>1 DEF ChangeIsSeen
  <2>6. ReviewedAnswerIsJudged'
    <3> SUFFICES ASSUME NEW y \in Executions, tracking'[y].state = "REVIEWED", outcome'[y] = "SUCCESS"
                 PROVE  judgment'[y] # "NONE"
      BY DEF ReviewedAnswerIsJudged
    <3>1. y # x
      BY <2>d
    <3>2. QED BY <1>0, <2>2, <2>b, <3>1 DEF ReviewedAnswerIsJudged
  <2>7. QED BY <2>3, <2>4, <2>5, <2>6 DEF ReviewInv
<1>4. ASSUME NEW x \in Replays, NEW o \in SemanticOutcomes, ReevaluateSemantic(x, o)
      PROVE  ReviewInv'
  <2>1. /\ item[x].state = "CHANGED"
        /\ semantic' = [semantic EXCEPT ![x] = o]
        /\ tracking' = [tracking EXCEPT ![x] = Triage(x, o)]
        /\ UNCHANGED <<outcome, judgment, item>>
    BY <1>4 DEF ReevaluateSemantic, Applicable, replayVars
  <2>2. x \in Executions /\ Terminal(x)
    BY <2>1, ExecutionParts DEF PairsInv, OpenReplays, NoItem
  <2>3. OpenUntouched' /\ AdminDecides'
    BY <1>0, <2>1, <2>2 DEF OpenUntouched, AdminDecides, Terminal, Triage
  <2>4. ChangeIsSeen'
    BY <1>0, <2>1, <2>2, ExecutionParts DEF ChangeIsSeen, Triage
  <2>5. ReviewedAnswerIsJudged'
    BY <1>0, <2>1, <2>2 DEF ReviewedAnswerIsJudged, Triage
  <2>6. QED BY <2>3, <2>4, <2>5 DEF ReviewInv
<1>5. ASSUME NEW x \in Executions, MarkReviewRequired(x)
      PROVE  ReviewInv'
  BY <1>0, <1>5, DecisionKeepsReview DEF MarkReviewRequired, Decide, replayVars, semanticVars
<1>6. ASSUME NEW x \in Executions, MarkReviewedWithoutJudgment(x)
      PROVE  ReviewInv'
  BY <1>0, <1>6, DecisionKeepsReview
  DEF MarkReviewedWithoutJudgment, NothingToJudge, Decide, replayVars, semanticVars
<1>7. ASSUME NEW x \in Executions, NEW j \in {"GOOD", "BAD"}, RecordHumanReview(x, j)
      PROVE  ReviewInv'
  BY <1>0, <1>7, DecisionKeepsReview DEF RecordHumanReview, Decide, replayVars, semanticVars
<1>8. ASSUME NEW x \in Executions, NEW v \in {"VALID", "INVALID"}, SetExecutionValidity(x, v)
      PROVE  ReviewInv'
  BY <1>8, ReviewKept DEF SetExecutionValidity, replayVars, semanticVars
<1>9. ASSUME NEW b \in Baselines, NEW active \in {"ACTIVE", "INACTIVE"},
             BeginPromotion(b) \/ CommitPromotion(b, active) \/ SetBaselineActive(b, active)
      PROVE  ReviewInv'
  BY <1>9, ReviewKept
  DEF BeginPromotion, CommitPromotion, SetBaselineActive, reviewVars, replayVars, semanticVars
<1>10. ASSUME NEW x \in Replays, NEW o \in TerminalOutcomes, CompareExact(x, o)
       PROVE  ReviewInv'
  BY <1>10, ReviewKept DEF CompareExact, reviewVars, semanticVars
<1>11. ASSUME NEW c \in Comparisons, RollBackCompletion(c)
       PROVE  ReviewInv'
  BY <1>11, ReviewKept DEF RollBackCompletion, reviewVars, semanticVars
<1>12. CASE UNCHANGED vars
  BY <1>12, ReviewKept DEF vars, reviewVars, replayVars, semanticVars
<1>13. QED
  BY <1>1, <1>2, <1>3, <1>4, <1>5, <1>6, <1>7, <1>8, <1>9, <1>10, <1>11, <1>12 DEF Next

-----------------------------------------------------------------------------
(* The theorems on reviews.                                                *)

ComparisonInv == ComparisonTypeOK /\ PairsInv /\ ReviewInv

THEOREM InvHolds == Spec => []ComparisonInv
<1>1. Init => PairsInv /\ ReviewInv
  BY PairsInit, ReviewInit
<1>2. ComparisonTypeOK /\ PairsInv /\ ReviewInv /\ [Next]_vars => (PairsInv /\ ReviewInv)'
  BY PairsStep, ReviewStep
<1>3. ComparisonTypeOK /\ PairsInv /\ ReviewInv => ComparisonInv
  BY DEF ComparisonInv
<1>4. QED BY <1>1, <1>2, <1>3, TypeCorrect, PTL DEF Spec

\* A changed answer leaves the review queue only by an EQUIVALENT verdict
\* that is still the latest one, or by an administrator.
THEOREM ChangesSeen == Spec => []ChangeIsSeen
<1>1. ComparisonInv => ChangeIsSeen
  BY DEF ComparisonInv, ReviewInv
<1>2. QED BY <1>1, InvHolds, PTL

\* An Execution with an answer is REVIEWED only with a human judgment.
THEOREM ReviewsJudged == Spec => []ReviewedAnswerIsJudged
<1>1. ComparisonInv => ReviewedAnswerIsJudged
  BY DEF ComparisonInv, ReviewInv
<1>2. QED BY <1>1, InvHolds, PTL

LEMMA AdminStep ==
  ASSUME ComparisonInv, [Next]_vars, NEW x \in Executions, tracking[x].by = "admin"
  PROVE  tracking'[x].by = "admin"
<1>0. /\ tracking \in [Executions -> Events]
      /\ ComparisonTypeOK /\ PairsInv /\ ReviewInv
  BY DEF ComparisonInv, ComparisonTypeOK, ReviewTypes
<1>1. tracking[x].state # "NONE" /\ tracking[x] # NoEvent
  BY <1>0 DEF ReviewInv, AdminDecides, NoEvent
<1>2. ASSUME NEW c \in Comparisons, CommitCompletion(c)
      PROVE  tracking'[x].by = "admin"
  <2>1. PICK y \in Replays : CompletesReview(y)
    BY <1>0, <1>2, CompletionEffect
  <2>2. x # y
    BY <1>1, <2>1 DEF CompletesReview
  <2>3. QED BY <2>1, <2>2 DEF CompletesReview
<1>3. ASSUME NEW y \in Replays, NEW o \in SemanticOutcomes, ReevaluateSemantic(y, o)
      PROVE  tracking'[x].by = "admin"
  <2>1. tracking' = [tracking EXCEPT ![y] = Triage(y, o)]
    BY <1>3 DEF ReevaluateSemantic
  <2>2. Triage(x, o) = tracking[x]
    BY <1>1 DEF Triage, ExactChangeOnly
  <2>3. QED BY <1>0, <2>1, <2>2
<1>4. ASSUME NEW y \in Executions, NEW s \in {"REQUIRED", "REVIEWED"}, SetReviewState(y, s)
      PROVE  tracking'[x].by = "admin"
  BY <1>0, <1>4 DEF SetReviewState
<1>5. ASSUME \E y \in Executions :
               \/ MarkReviewRequired(y) \/ MarkReviewedWithoutJudgment(y)
               \/ \E j \in {"GOOD", "BAD"} : RecordHumanReview(y, j)
               \/ \E v \in {"VALID", "INVALID"} : SetExecutionValidity(y, v)
      PROVE  tracking'[x].by = "admin"
  BY <1>4, <1>5
  DEF MarkReviewRequired, MarkReviewedWithoutJudgment, RecordHumanReview, SetExecutionValidity
<1>6. ASSUME \/ \E b \in Baselines :
                  \/ BeginPromotion(b)
                  \/ \E active \in {"ACTIVE", "INACTIVE"} :
                       CommitPromotion(b, active) \/ SetBaselineActive(b, active)
                  \/ \E c \in Comparisons : LaunchControlledComparison(c, b)
             \/ \E c \in Comparisons : RollBackCompletion(c)
      PROVE  tracking'[x].by = "admin"
  BY <1>6 DEF BeginPromotion, CommitPromotion, SetBaselineActive, LaunchControlledComparison,
              RollBackCompletion, reviewVars
<1>7. ASSUME \E y \in Replays :
               CloseWithoutComparing(y) \/ \E o \in TerminalOutcomes : CompareExact(y, o)
      PROVE  tracking'[x].by = "admin"
  BY <1>7 DEF CompareExact, CloseWithoutComparing, reviewVars
<1>8. CASE UNCHANGED vars
  BY <1>8 DEF vars, reviewVars
<1>9. QED BY <1>2, <1>3, <1>5, <1>6, <1>7, <1>8 DEF Next

\* The system appends no review event after an administrator's: a review that
\* was done or asked for by hand is only replaced by hand.
THEOREM AdminEventsStand == Spec => AdminEventStands
<1>1. ComparisonInv /\ [Next]_vars
        => [\A x \in Executions : tracking[x].by = "admin" => tracking'[x].by = "admin"]_vars
  BY AdminStep
<1>2. QED BY <1>1, InvHolds, PTL DEF Spec, AdminEventStands

LEMMA SemanticStep ==
  ASSUME ComparisonInv, [Next]_vars, NEW x \in Replays, results'[x] # results[x]
  PROVE  /\ validity'[x] = "VALID" /\ validity'[SourceOf(x)] = "VALID"
         /\ outcome'[x] = "SUCCESS" /\ outcome'[SourceOf(x)] = "SUCCESS"
<1>0. /\ results \in [Replays -> Nat]
      /\ outcome \in [Executions -> TerminalOutcomes \cup {"ABSENT", "PENDING"}]
      /\ PairsInv
  BY DEF ComparisonInv, ComparisonTypeOK, SemanticTypes
<1>1. ASSUME NEW c \in Comparisons, CommitCompletion(c)
      PROVE  /\ validity'[x] = "VALID" /\ validity'[SourceOf(x)] = "VALID"
             /\ outcome'[x] = "SUCCESS" /\ outcome'[SourceOf(x)] = "SUCCESS"
  <2>1. /\ completing[c] # NotCompleting
        /\ \/ UNCHANGED semanticVars
           \/ /\ results' = [results EXCEPT ![completing[c].replay] = @ + 1]
              /\ Applicable(completing[c].replay, completing[c].item)
        /\ outcome' = [outcome EXCEPT ![completing[c].replay] = completing[c].outcome]
        /\ validity' = validity
    BY <1>1 DEF CommitCompletion
  <2>2. x = completing[c].replay /\ Applicable(x, completing[c].item)
    BY <1>0, <2>1 DEF semanticVars
  <2>3. Fits(x, completing[c].outcome, completing[c].item)
    BY <1>0, <2>1, <2>2 DEF PairsInv, CompletionsFit, CompletionFits
  <2>4. completing[c].outcome = "SUCCESS" /\ outcome[SourceOf(x)] = "SUCCESS"
    BY <2>2, <2>3 DEF Fits, Applicable
  <2>5. x \in Executions /\ SourceOf(x) # x
    BY ExecutionParts, ReplayParts
  <2>6. outcome'[x] = "SUCCESS" /\ outcome'[SourceOf(x)] = "SUCCESS"
    BY <1>0, <2>1, <2>2, <2>4, <2>5, ReplayParts, ExecutionParts
  <2>7. QED BY <2>1, <2>2, <2>6 DEF Applicable
<1>2. ASSUME NEW y \in Replays, NEW o \in SemanticOutcomes, ReevaluateSemantic(y, o)
      PROVE  /\ validity'[x] = "VALID" /\ validity'[SourceOf(x)] = "VALID"
             /\ outcome'[x] = "SUCCESS" /\ outcome'[SourceOf(x)] = "SUCCESS"
  <2>1. Applicable(x, item[x]) /\ UNCHANGED <<validity, outcome>>
    BY <1>0, <1>2 DEF ReevaluateSemantic
  <2>2. QED BY <1>0, <2>1 DEF PairsInv, ItemTellsWhy, Applicable
<1>3. ASSUME \E y \in Executions :
               \/ MarkReviewRequired(y) \/ MarkReviewedWithoutJudgment(y)
               \/ \E j \in {"GOOD", "BAD"} : RecordHumanReview(y, j)
               \/ \E v \in {"VALID", "INVALID"} : SetExecutionValidity(y, v)
      PROVE  FALSE
  BY <1>3 DEF MarkReviewRequired, MarkReviewedWithoutJudgment, RecordHumanReview,
              SetExecutionValidity, semanticVars
<1>4. ASSUME \/ \E b \in Baselines :
                  \/ BeginPromotion(b)
                  \/ \E active \in {"ACTIVE", "INACTIVE"} :
                       CommitPromotion(b, active) \/ SetBaselineActive(b, active)
                  \/ \E c \in Comparisons : LaunchControlledComparison(c, b)
             \/ \E c \in Comparisons : RollBackCompletion(c)
      PROVE  FALSE
  BY <1>4 DEF BeginPromotion, CommitPromotion, SetBaselineActive, LaunchControlledComparison,
              RollBackCompletion, semanticVars
<1>5. ASSUME \E y \in Replays :
               CloseWithoutComparing(y) \/ \E o \in TerminalOutcomes : CompareExact(y, o)
      PROVE  FALSE
  BY <1>5 DEF CompareExact, CloseWithoutComparing, semanticVars
<1>6. CASE UNCHANGED vars
  BY <1>6 DEF vars, semanticVars
<1>7. QED BY <1>1, <1>2, <1>3, <1>4, <1>5, <1>6 DEF Next

\* A semantic verdict is only ever given on two answers that are VALID when
\* it is appended, also by the completion that read the source before.
THEOREM VerdictsOfValidPairs == Spec => SemanticOfValidPairs
<1>1. ComparisonInv /\ [Next]_vars
        => [\A x \in Replays :
              results'[x] # results[x] =>
                /\ validity'[x] = "VALID" /\ validity'[SourceOf(x)] = "VALID"
                /\ outcome'[x] = "SUCCESS" /\ outcome'[SourceOf(x)] = "SUCCESS"]_vars
  BY SemanticStep
<1>2. QED BY <1>1, InvHolds, PTL DEF Spec, SemanticOfValidPairs

-----------------------------------------------------------------------------
(* Baselines.                                                              *)

\* An invalidation after the promotion raises the attention of each Baseline
\* of the run, and nothing clears it.
THEOREM InvalidationsFlagged == Spec => []InvalidatedMemberFlagged
<1>1. Init => InvalidatedMemberFlagged
  BY DEF Init, InvalidatedMemberFlagged, Existing
<1>2. ASSUME ComparisonTypeOK, InvalidatedMemberFlagged, [Next]_vars
      PROVE  InvalidatedMemberFlagged'
  <2>0. BaselineTypes /\ validity \in [Executions -> {"VALID", "INVALID"}]
    BY <1>2 DEF ComparisonTypeOK, ReviewTypes
  <2>1. ASSUME UNCHANGED <<validity, baseline, onceValid, attention, flagged>>
        PROVE  InvalidatedMemberFlagged'
    BY <1>2, <2>1 DEF InvalidatedMemberFlagged, Existing
  <2>2. ASSUME NEW b \in Baselines, NEW active \in {"ACTIVE", "INACTIVE"}, CommitPromotion(b, active)
        PROVE  InvalidatedMemberFlagged'
    BY <1>2, <2>0, <2>2
    DEF CommitPromotion, InvalidatedMemberFlagged, Existing, BaselineTypes, reviewVars
  <2>3. ASSUME NEW b \in Baselines, NEW active \in {"ACTIVE", "INACTIVE"}, SetBaselineActive(b, active)
        PROVE  InvalidatedMemberFlagged'
    BY <1>2, <2>0, <2>3
    DEF SetBaselineActive, InvalidatedMemberFlagged, Existing, BaselineTypes, reviewVars
  <2>4. ASSUME NEW x \in Executions, NEW v \in {"VALID", "INVALID"}, SetExecutionValidity(x, v)
        PROVE  InvalidatedMemberFlagged'
    <3> SUFFICES ASSUME NEW b \in Existing, NEW s \in onceValid[b], validity'[s] = "INVALID"
                 PROVE  s \in attention'[b] /\ b \in flagged'
      BY <2>4 DEF SetExecutionValidity, InvalidatedMemberFlagged, Existing
    <3>1. b \in Baselines /\ s \in Sources /\ s \in Executions
      BY <2>0, ExecutionParts DEF Existing, BaselineTypes
    <3>2. attention[b] \subseteq attention'[b] /\ flagged \subseteq flagged'
      BY <2>4, <3>1 DEF SetExecutionValidity
    <3>3. CASE validity[s] = "INVALID"
      BY <1>2, <3>2, <3>3 DEF InvalidatedMemberFlagged
    <3>4. CASE validity[s] # "INVALID"
      <4>1. s = x /\ v = "INVALID"
        BY <2>0, <2>4, <3>1, <3>4 DEF SetExecutionValidity
      <4>2. b \in BaselinesWith(x)
        BY <3>1, <4>1 DEF BaselinesWith
      <4>3. QED BY <2>4, <3>1, <4>1, <4>2 DEF SetExecutionValidity
    <3>5. QED BY <3>3, <3>4
  <2>5. ASSUME NEW b \in Baselines,
               BeginPromotion(b) \/ \E c \in Comparisons : LaunchControlledComparison(c, b)
        PROVE  InvalidatedMemberFlagged'
    BY <2>1, <2>5 DEF BeginPromotion, LaunchControlledComparison, reviewVars, baselineVars
  <2>6. ASSUME NEW c \in Comparisons, CommitCompletion(c) \/ RollBackCompletion(c)
        PROVE  InvalidatedMemberFlagged'
    BY <2>1, <2>6 DEF CommitCompletion, RollBackCompletion, reviewVars, baselineVars
  <2>7. ASSUME NEW x \in Replays,
               CloseWithoutComparing(x) \/ \E o \in TerminalOutcomes : CompareExact(x, o)
        PROVE  InvalidatedMemberFlagged'
    BY <2>1, <2>7 DEF CompareExact, CloseWithoutComparing, reviewVars, baselineVars
  <2>8. ASSUME NEW x \in Replays, NEW o \in SemanticOutcomes, ReevaluateSemantic(x, o)
        PROVE  InvalidatedMemberFlagged'
    BY <2>1, <2>8 DEF ReevaluateSemantic, baselineVars
  <2>9. ASSUME NEW x \in Executions,
               \/ MarkReviewRequired(x) \/ MarkReviewedWithoutJudgment(x)
               \/ \E j \in {"GOOD", "BAD"} : RecordHumanReview(x, j)
        PROVE  InvalidatedMemberFlagged'
    BY <2>1, <2>9
    DEF MarkReviewRequired, MarkReviewedWithoutJudgment, RecordHumanReview, baselineVars
  <2>10. CASE UNCHANGED vars
    BY <2>1, <2>10 DEF vars, reviewVars, baselineVars
  <2>11. QED
    BY <1>2, <2>2, <2>3, <2>4, <2>5, <2>6, <2>7, <2>8, <2>9, <2>10 DEF Next
<1>3. QED BY <1>1, <1>2, TypeCorrect, PTL DEF Spec

-----------------------------------------------------------------------------
(* The reports of the same rows agree.                                     *)

\* Every answer has an item, and only changed pairs have semantic results.
AnswersItemized == \A x \in Replays : outcome[x] = "SUCCESS" => item[x].state # "NOT_RUN"
SemanticOnChanged == \A x \in Replays : semantic[x] # "NOT_RUN" => item[x].state = "CHANGED"
ResultsCounted == \A x \in Replays : semantic[x] = "NOT_RUN" => results[x] = 0
CompletionsItemized ==
  \A c \in Comparisons : completing[c] # NotCompleting => completing[c].item.state # "NOT_RUN"

ReportInv == AnswersItemized /\ SemanticOnChanged /\ ResultsCounted /\ CompletionsItemized

LEMMA ReportInit == Init => ReportInv
BY ExecutionParts
DEF Init, ReportInv, AnswersItemized, SemanticOnChanged, ResultsCounted, CompletionsItemized, TerminalOutcomes

LEMMA ReportKept ==
  ASSUME ReportInv, UNCHANGED <<outcome, completing, item, semantic, results>>
  PROVE  ReportInv'
BY DEF ReportInv, AnswersItemized, SemanticOnChanged, ResultsCounted, CompletionsItemized

LEMMA ReportStep ==
  ASSUME ComparisonTypeOK, PairsInv, ReportInv, [Next]_vars
  PROVE  ReportInv'
<1>0. /\ outcome \in [Executions -> TerminalOutcomes \cup {"ABSENT", "PENDING"}]
      /\ ReplayTypes /\ SemanticTypes /\ OpenReplays /\ CompletionsFit
      /\ AnswersItemized /\ SemanticOnChanged /\ ResultsCounted /\ CompletionsItemized
  BY DEF ComparisonTypeOK, PairsInv, ReportInv
<1>a. \A x \in Replays : x \in Executions
  BY ExecutionParts
<1>1. ASSUME NEW c \in Comparisons, NEW b \in Baselines, LaunchControlledComparison(c, b)
      PROVE  ReportInv'
  <2>1. AnswersItemized'
    BY <1>0, <1>a, <1>1 DEF LaunchControlledComparison, AnswersItemized
  <2>2. QED
    BY <1>1, <2>1
    DEF LaunchControlledComparison, semanticVars, ReportInv, SemanticOnChanged, ResultsCounted, CompletionsItemized
<1>2. ASSUME NEW x \in Replays, NEW o \in TerminalOutcomes, CompareExact(x, o)
      PROVE  ReportInv'
  <2>1. PICK i \in ItemsFor(x, o) :
          completing' = [completing EXCEPT ![ComparisonOf(x)] = [replay |-> x, outcome |-> o, item |-> i]]
    BY <1>2 DEF CompareExact
  <2>2. i.state # "NOT_RUN"
    BY DEF ItemsFor
  <2>3. CompletionsItemized'
    BY <1>0, <2>1, <2>2 DEF CompletionsItemized, ReplayTypes
  <2>4. QED
    BY <1>2, <2>3
    DEF CompareExact, semanticVars, ReportInv, AnswersItemized, SemanticOnChanged, ResultsCounted
<1>3. ASSUME NEW x \in Replays, CloseWithoutComparing(x)
      PROVE  ReportInv'
  <2>1. AnswersItemized'
    BY <1>0, <1>3 DEF CloseWithoutComparing, replayVars, AnswersItemized
  <2>2. QED
    BY <1>3, <2>1
    DEF CloseWithoutComparing, replayVars, semanticVars, ReportInv, SemanticOnChanged, ResultsCounted,
        CompletionsItemized
<1>4. ASSUME NEW c \in Comparisons, CommitCompletion(c)
      PROVE  ReportInv'
  <2> DEFINE x == completing[c].replay
             o == completing[c].outcome
             i == completing[c].item
  <2>1. /\ completing[c] # NotCompleting
        /\ completing' = [completing EXCEPT ![c] = NotCompleting]
        /\ outcome' = [outcome EXCEPT ![x] = o]
        /\ item' = [item EXCEPT ![x] = i]
        /\ \/ /\ i.state = "CHANGED"
              /\ semantic' = [semantic EXCEPT ![x] = "ERROR"]
              /\ results' = [results EXCEPT ![x] = @ + 1]
           \/ UNCHANGED <<semantic, results>>
    BY <1>4 DEF CommitCompletion, Applicable, semanticVars
  <2>2. x \in ReplaysIn(c) /\ outcome[x] = "PENDING" /\ i.state # "NOT_RUN"
    BY <1>0, <2>1 DEF CompletionsFit, CompletionFits, CompletionsItemized
  <2> HIDE DEF x, o, i
  <2>3. x \in Replays /\ item[x].state = "NOT_RUN"
    BY <1>0, <2>2 DEF ReplaysIn, OpenReplays, Terminal, TerminalOutcomes, NoItem
  <2>4. semantic[x] = "NOT_RUN"
    BY <1>0, <2>3 DEF SemanticOnChanged
  <2>5. /\ item'[x] = i
        /\ \A y \in Replays : y # x => /\ outcome'[y] = outcome[y] /\ item'[y] = item[y]
                                       /\ semantic'[y] = semantic[y] /\ results'[y] = results[y]
    BY <1>0, <1>a, <2>1, <2>3 DEF ReplayTypes, SemanticTypes
  <2>6. AnswersItemized'
    BY <1>0, <2>2, <2>5 DEF AnswersItemized
  <2>7. SemanticOnChanged' /\ ResultsCounted'
    BY <1>0, <2>1, <2>3, <2>4, <2>5 DEF SemanticOnChanged, ResultsCounted, SemanticTypes
  <2>8. CompletionsItemized'
    BY <1>0, <2>1 DEF CompletionsItemized, ReplayTypes
  <2>9. QED
    BY <2>6, <2>7, <2>8 DEF ReportInv
<1>5. ASSUME NEW c \in Comparisons, RollBackCompletion(c)
      PROVE  ReportInv'
  <2>1. CompletionsItemized'
    BY <1>0, <1>5 DEF RollBackCompletion, CompletionsItemized, ReplayTypes
  <2>2. QED
    BY <1>5, <2>1
    DEF RollBackCompletion, semanticVars, ReportInv, AnswersItemized, SemanticOnChanged, ResultsCounted
<1>6. ASSUME NEW x \in Replays, NEW o \in SemanticOutcomes, ReevaluateSemantic(x, o)
      PROVE  ReportInv'
  <2>1. /\ item[x].state = "CHANGED" /\ o # "NOT_RUN"
        /\ semantic' = [semantic EXCEPT ![x] = o] /\ results' = [results EXCEPT ![x] = @ + 1]
        /\ UNCHANGED <<outcome, completing, item>>
    BY <1>6 DEF ReevaluateSemantic, Applicable, SemanticOutcomes, replayVars
  <2>2. SemanticOnChanged' /\ ResultsCounted'
    BY <1>0, <2>1 DEF SemanticOnChanged, ResultsCounted, SemanticTypes
  <2>3. QED
    BY <1>0, <2>1, <2>2 DEF ReportInv, AnswersItemized, CompletionsItemized
<1>7. ASSUME NEW b \in Baselines, NEW active \in {"ACTIVE", "INACTIVE"},
             BeginPromotion(b) \/ CommitPromotion(b, active) \/ SetBaselineActive(b, active)
      PROVE  ReportInv'
  BY <1>7, ReportKept DEF BeginPromotion, CommitPromotion, SetBaselineActive, replayVars, semanticVars
<1>8. ASSUME NEW x \in Executions, NEW j \in {"GOOD", "BAD"}, NEW v \in {"VALID", "INVALID"},
             \/ MarkReviewRequired(x) \/ MarkReviewedWithoutJudgment(x)
             \/ RecordHumanReview(x, j) \/ SetExecutionValidity(x, v)
      PROVE  ReportInv'
  BY <1>8, ReportKept
  DEF MarkReviewRequired, MarkReviewedWithoutJudgment, RecordHumanReview, SetExecutionValidity,
      replayVars, semanticVars
<1>9. CASE UNCHANGED vars
  BY <1>9, ReportKept DEF vars, replayVars, semanticVars
<1>10. QED BY <1>1, <1>2, <1>3, <1>4, <1>5, <1>6, <1>7, <1>8, <1>9 DEF Next

\* S in two, three or five parts that share nothing.
TwoParts(S, A, B) == S = A \cup B /\ A \cap B = {}

ThreeParts(S, A, B, C) == S = A \cup (B \cup C) /\ A \cap (B \cup C) = {} /\ B \cap C = {}

FiveParts(S, A, B, C, D, E) ==
    /\ S = A \cup (B \cup (C \cup (D \cup E)))
    /\ A \cap (B \cup (C \cup (D \cup E))) = {}
    /\ B \cap (C \cup (D \cup E)) = {} /\ C \cap (D \cup E) = {} /\ D \cap E = {}

\* The size of a set in two parts is the sum of theirs.
LEMMA CountParts ==
  ASSUME NEW S, IsFiniteSet(S), NEW A, NEW B, TwoParts(S, A, B)
  PROVE  /\ Count(S) = Count(A) + Count(B)
         /\ IsFiniteSet(A) /\ IsFiniteSet(B)
         /\ Count(S) \in Nat /\ Count(A) \in Nat /\ Count(B) \in Nat
<1>1. A \in SUBSET S /\ B \in SUBSET S /\ S = A \cup B /\ A \cap B = {}
  BY DEF TwoParts
<1>2. IsFiniteSet(A) /\ IsFiniteSet(B)
  BY <1>1, FS_Subset
<1>3. /\ Cardinality(S) = Cardinality(A) + Cardinality(B) - Cardinality({})
      /\ Cardinality({}) = 0
  BY <1>1, <1>2, FS_Union, FS_EmptySet
<1>4. Cardinality(A) \in Nat /\ Cardinality(B) \in Nat
  BY <1>2, FS_CardinalityType
<1>5. QED
  BY <1>2, <1>3, <1>4 DEF Count

LEMMA CountPart ==
  ASSUME NEW S, IsFiniteSet(S), NEW A \in SUBSET S
  PROVE  Count(A) <= Count(S) /\ Count(A) \in Nat /\ Count(S) \in Nat /\ IsFiniteSet(A)
BY FS_Subset, FS_CardinalityType DEF Count

\* The judgments of a finite set of Executions partition it.
LEMMA JudgmentsAddUp ==
  ASSUME ReviewTypes, NEW X \in SUBSET Executions, IsFiniteSet(X)
  PROVE  /\ Count(Judged(X, "GOOD")) + Count(Judged(X, "BAD")) = Count({x \in X : judgment[x] # "NONE"})
         /\ Count({x \in X : judgment[x] # "NONE"}) + Count(Judged(X, "NONE")) = Count(X)
         /\ Count(Judged(X, "GOOD")) \in Nat /\ Count(Judged(X, "BAD")) \in Nat
         /\ Count(Judged(X, "NONE")) \in Nat /\ Count(X) \in Nat
         /\ Count({x \in X : judgment[x] # "NONE"}) \in Nat
<1> DEFINE R == {x \in X : judgment[x] # "NONE"}
<1>1. TwoParts(X, R, Judged(X, "NONE")) /\ TwoParts(R, Judged(X, "GOOD"), Judged(X, "BAD"))
  BY DEF Judged, ReviewTypes, TwoParts
<1> HIDE DEF R
<1>2. IsFiniteSet(R) /\ Count(X) = Count(R) + Count(Judged(X, "NONE"))
  BY <1>1, CountParts
<1>3. QED
  BY <1>1, <1>2, CountParts DEF R

\* A Run, its trend and its Baseline report the same judgments.
LEMMA MetricsReconcile ==
  ASSUME ReviewTypes, NEW X \in SUBSET Executions, IsFiniteSet(X)
  PROVE  MetricsAgree(RunReviewMetrics(X), BaselineCompleteness(X), RunTrendRow(X))
<1>1. Valid(X) \in SUBSET X /\ X \ Valid(X) \in SUBSET X /\ Valid(X) \in SUBSET Executions
  BY DEF Valid
<1>2. IsFiniteSet(Valid(X)) /\ IsFiniteSet(X \ Valid(X))
  BY <1>1, FS_Subset
<1> DEFINE A == {x \in X : judgment[x] # "NONE"}
           B == {x \in Valid(X) : judgment[x] # "NONE"}
           C == {x \in X \ Valid(X) : judgment[x] # "NONE"}
<1>3. /\ Count(Judged(X, "GOOD")) + Count(Judged(X, "BAD")) = Count(A)
      /\ Count(A) + Count(Judged(X, "NONE")) = Count(X) /\ Count(A) \in Nat /\ Count(X) \in Nat
      /\ Count(Judged(X, "NONE")) \in Nat
  BY JudgmentsAddUp
<1>4. /\ Count(Judged(Valid(X), "GOOD")) + Count(Judged(Valid(X), "BAD")) = Count(B)
      /\ Count(B) + Count(Judged(Valid(X), "NONE")) = Count(Valid(X)) /\ Count(B) \in Nat
      /\ Count(Judged(Valid(X), "NONE")) \in Nat /\ Count(Valid(X)) \in Nat
      /\ Count(Judged(Valid(X), "GOOD")) \in Nat /\ Count(Judged(Valid(X), "BAD")) \in Nat
  BY <1>1, <1>2, JudgmentsAddUp
<1>5. A \in SUBSET X /\ TwoParts(A, B, C) /\ C \in SUBSET (X \ Valid(X))
  BY <1>1 DEF TwoParts
<1> HIDE DEF A, B, C
<1>6. Count(A) = Count(B) + Count(C) /\ Count(C) \in Nat
  BY <1>5, FS_Subset, CountParts
<1>7. Count(C) <= Count(X \ Valid(X)) /\ Count(X \ Valid(X)) \in Nat
  BY <1>2, <1>5, CountPart
<1> DEFINE m == RunReviewMetrics(X)
           b == BaselineCompleteness(X)
           t == RunTrendRow(X)
<1>8. /\ m.good = Count(Judged(Valid(X), "GOOD")) /\ m.bad = Count(Judged(Valid(X), "BAD"))
      /\ m.unreviewed = Count(Judged(Valid(X), "NONE")) /\ m.valid = Count(Valid(X))
      /\ m.invalid = Count(X \ Valid(X)) /\ m.reviewed = Count(B)
      /\ t.good = m.good /\ t.bad = m.bad /\ t.required = m.required
  BY DEF RunReviewMetrics, RunTrendRow, B
<1>9. /\ b.good = Count(Judged(X, "GOOD")) /\ b.bad = Count(Judged(X, "BAD"))
      /\ b.unreviewed = Count(X) - Count(A) /\ b.total = Count(X) /\ b.reviewed = Count(A)
  BY DEF BaselineCompleteness, A
<1> HIDE DEF m, b, t
<1>10. /\ m.good + m.bad + m.unreviewed = m.valid
       /\ b.good + b.bad + b.unreviewed = b.total
       /\ b.reviewed - m.reviewed <= m.invalid
  <2>1. m.good + m.bad + m.unreviewed = m.valid
    BY <1>4, <1>8
  <2>2. b.good + b.bad = Count(A)
    BY <1>3, <1>9
  <2>3. b.good + b.bad + b.unreviewed = b.total
    BY <1>3, <1>9, <2>2
  <2>4. b.reviewed - m.reviewed <= m.invalid
    BY <1>3, <1>4, <1>6, <1>7, <1>8, <1>9
  <2>5. QED
    BY <2>1, <2>3, <2>4
<1>11. MetricsAgree(m, b, t)
  BY <1>8, <1>10 DEF MetricsAgree
<1>12. QED
  BY <1>11 DEF m, b, t

LEMMA ReplaysFinite ==
  ASSUME NEW c \in Comparisons
  PROVE  IsFiniteSet(ReplaysIn(c)) /\ ReplaysIn(c) \in SUBSET Replays
<1>1. IsFiniteSet({c} \X Sources)
  BY FS_Singleton, FS_Product, FiniteRun
<1>2. ReplaysIn(c) \in SUBSET ({c} \X Sources)
  BY DEF ReplaysIn, Replays, ComparisonOf
<1>3. QED
  BY <1>1, <1>2, FS_Subset DEF ReplaysIn

\* Three parts, and five.
LEMMA CountThree ==
  ASSUME NEW S, IsFiniteSet(S), NEW A, NEW B, NEW C, ThreeParts(S, A, B, C)
  PROVE  /\ Count(S) = Count(A) + Count(B) + Count(C)
         /\ Count(A) \in Nat /\ Count(B) \in Nat /\ Count(C) \in Nat
<1>1. PICK D : D = B \cup C
  OBVIOUS
<1>2. TwoParts(S, A, D) /\ TwoParts(D, B, C)
  BY <1>1 DEF ThreeParts, TwoParts
<1>3. IsFiniteSet(D) /\ Count(S) = Count(A) + Count(D) /\ Count(A) \in Nat
  BY <1>2, CountParts
<1>4. Count(D) = Count(B) + Count(C) /\ Count(B) \in Nat /\ Count(C) \in Nat
  BY <1>2, <1>3, CountParts
<1>5. QED
  BY <1>3, <1>4

LEMMA CountFive ==
  ASSUME NEW S, IsFiniteSet(S), NEW A, NEW B, NEW C, NEW D, NEW E,
         FiveParts(S, A, B, C, D, E)
  PROVE  Count(S) = Count(A) + Count(B) + Count(C) + Count(D) + Count(E)
<1>1. PICK F : F = C \cup (D \cup E)
  OBVIOUS
<1>2. ThreeParts(S, A, B, F) /\ ThreeParts(F, C, D, E) /\ F \in SUBSET S
  BY <1>1 DEF FiveParts, ThreeParts
<1>3. /\ Count(S) = Count(A) + Count(B) + Count(F)
      /\ Count(A) \in Nat /\ Count(B) \in Nat /\ Count(F) \in Nat
  BY <1>2, CountThree
<1>4. IsFiniteSet(F)
  BY <1>2, FS_Subset
<1>5. /\ Count(F) = Count(C) + Count(D) + Count(E)
      /\ Count(C) \in Nat /\ Count(D) \in Nat /\ Count(E) \in Nat
  BY <1>2, <1>4, CountThree
<1>6. QED
  BY <1>3, <1>5

\* The summary of a comparison adds up and leaves out errors only.
LEMMA SummaryReconciles ==
  ASSUME ComparisonTypeOK, OpenReplays, ReportInv, NEW c \in Comparisons
  PROVE  /\ SummaryAddsUp(ComparisonSummary(c))
         /\ OnlyErrorsLeftOut(RunProgress(ReplaysIn(c)), ComparisonSummary(c))
         /\ ComparisonSummary(c).pendingReview <= RunReviewMetrics(ReplaysIn(c)).required
<1> DEFINE R == ReplaysIn(c)
           I == ItemsOf(c)
           s == ComparisonSummary(c)
           p == RunProgress(R)
<1>1. /\ outcome \in [Executions -> TerminalOutcomes \cup {"ABSENT", "PENDING"}]
      /\ item \in [Replays -> Items] /\ semantic \in [Replays -> SemanticOutcomes \cup {"NOT_RUN"}]
      /\ AnswersItemized /\ SemanticOnChanged
  BY DEF ComparisonTypeOK, ReplayTypes, SemanticTypes, ReportInv
<1>2. IsFiniteSet(R) /\ R \in SUBSET Replays /\ R \in SUBSET Executions
  BY ReplaysFinite, ExecutionParts
<1>3. I \in SUBSET R /\ IsFiniteSet(I)
  BY <1>2, FS_Subset DEF ItemsOf
<1>4. s.total = s.unchanged + s.changed + s.nonComparable
  <2>1. ThreeParts(I, InState(c, "UNCHANGED"), InState(c, "CHANGED"), InState(c, "NON_COMPARABLE"))
    BY <1>1, <1>2, <1>3 DEF ItemsOf, InState, Items, ThreeParts
  <2>2. s.total = Count(I) /\ s.unchanged = Count(InState(c, "UNCHANGED"))
        /\ s.changed = Count(InState(c, "CHANGED")) /\ s.nonComparable = Count(InState(c, "NON_COMPARABLE"))
    BY DEF ComparisonSummary
  <2>3. IsFiniteSet(I)
    BY <1>3
  <2> HIDE DEF I, s
  <2>4. Count(I) = Count(InState(c, "UNCHANGED")) + Count(InState(c, "CHANGED"))
                   + Count(InState(c, "NON_COMPARABLE"))
    BY <2>1, <2>3, CountThree
  <2>5. QED
    BY <2>2, <2>4
<1>5. s.changed = s.equivalent + s.material + s.uncertain + s.semanticError + s.notRun
  <2> DEFINE Q(o) == CurrentSemantic(c, o)
             N == SemanticNotRun(c)
             D == InState(c, "CHANGED")
  <2>1. FiveParts(D, Q("EQUIVALENT"), Q("MATERIAL_CHANGE"), Q("UNCERTAIN"), Q("ERROR"), N)
    <3>1. \A x \in I : semantic[x] \in SemanticOutcomes \cup {"NOT_RUN"}
                       /\ (semantic[x] # "NOT_RUN" => item[x].state = "CHANGED")
      BY <1>1, <1>2, <1>3 DEF SemanticOnChanged
    <3>2. QED
      BY <3>1 DEF CurrentSemantic, SemanticNotRun, InState, SemanticOutcomes, FiveParts
  <2>2. IsFiniteSet(D)
    BY <1>3, FS_Subset DEF InState
  <2>3. /\ s.changed = Count(D) /\ s.equivalent = Count(Q("EQUIVALENT"))
        /\ s.material = Count(Q("MATERIAL_CHANGE")) /\ s.uncertain = Count(Q("UNCERTAIN"))
        /\ s.semanticError = Count(Q("ERROR")) /\ s.notRun = Count(N)
    BY DEF ComparisonSummary
  <2> HIDE DEF Q, N, D, s
  <2>4. Count(D) = Count(Q("EQUIVALENT")) + Count(Q("MATERIAL_CHANGE")) + Count(Q("UNCERTAIN"))
                   + Count(Q("ERROR")) + Count(N)
    BY <2>1, <2>2, CountFive
  <2>5. QED
    BY <2>3, <2>4
<1>6. p.completed - s.total = p.error - s.error
  <2> DEFINE S == WithOutcome(R, "SUCCESS")
             E == WithOutcome(R, "ERROR")
             F == WithOutcome(I, "ERROR")
  <2>1. S \in SUBSET R /\ E \in SUBSET R /\ TwoParts(I, S, F)
    <3>1. \A x \in R : /\ outcome[x] = "SUCCESS" => x \in I
                       /\ x \in I => outcome[x] \in {"SUCCESS", "ERROR"}
      BY <1>1, <1>2 DEF AnswersItemized, OpenReplays, Terminal, TerminalOutcomes, ItemsOf, NoItem
    <3>2. QED
      BY <1>3, <3>1 DEF WithOutcome, TwoParts
  <2>2. /\ p.completed = Count(S) + Count(E) /\ p.error = Count(E)
        /\ s.total = Count(I) /\ s.error = Count(F)
    BY DEF RunProgress, ComparisonSummary
  <2>3. IsFiniteSet(I)
    BY <1>3
  <2> HIDE DEF S, E, F, I, p, s
  <2>4. Count(I) = Count(S) + Count(F) /\ Count(S) \in Nat /\ Count(F) \in Nat
    BY <2>1, <2>3, CountParts
  <2>5. Count(E) \in Nat
    BY <1>2, <2>1, CountPart
  <2>6. QED
    BY <2>2, <2>4, <2>5
<1>7. s.pendingReview <= RunReviewMetrics(R).required
  <2>1. {x \in I : tracking[x].state = "REQUIRED"} \in SUBSET {x \in R : tracking[x].state = "REQUIRED"}
    BY <1>3
  <2>2. IsFiniteSet({x \in R : tracking[x].state = "REQUIRED"})
    BY <1>2, FS_Subset
  <2>3. QED
    BY <2>1, <2>2, CountPart DEF ComparisonSummary, RunReviewMetrics
<1>8. QED
  BY <1>4, <1>5, <1>6, <1>7 DEF SummaryAddsUp, OnlyErrorsLeftOut

\* The reports of the same rows agree in every state: the summary of a
\* comparison adds up and leaves out no answer, and a Run, its trend and its
\* Baseline count the same judgments.
THEOREM ReportsAgree == Spec => []ReportsReconcile
<1>1. Init => ReportInv
  BY ReportInit
<1>2. ComparisonInv /\ ReportInv /\ [Next]_vars => ReportInv'
  BY ReportStep DEF ComparisonInv
<1>3. ASSUME ComparisonInv, ReportInv
      PROVE  ReportsReconcile
  <2>1. ComparisonTypeOK /\ OpenReplays /\ ReviewTypes
    BY <1>3 DEF ComparisonInv, PairsInv, ComparisonTypeOK
  <2>2. MetricsAgree(RunReviewMetrics(Sources), BaselineCompleteness(Sources), RunTrendRow(Sources))
    BY <2>1, MetricsReconcile, FiniteRun, ExecutionParts
  <2>3. \A c \in Comparisons : \A x \in FilterSemantic(c, "NOT_RUN") : results[x] = 0
    BY <1>3
    DEF ReportInv, ResultsCounted, FilterSemantic, SemanticNotRun, InState, ItemsOf, ReplaysIn
  <2>4. QED
    BY <1>3, <2>1, <2>2, <2>3, SummaryReconciles DEF ReportsReconcile
<1>4. QED
  BY <1>1, <1>2, <1>3, InvHolds, PTL DEF Spec

=============================================================================
