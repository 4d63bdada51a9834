------------------------ MODULE ControlledComparison ------------------------
(***************************************************************************)
(* Baselines, controlled comparisons and the review state of Executions.   *)
(* A terminal Run is promoted to a Baseline, an active Baseline is         *)
(* replayed, the transaction that completes a replay compares its answer   *)
(* with the one it replays, and semantic triage and administrators then    *)
(* decide whether the change needs a review.                               *)
(*                                                                         *)
(* Sources are the Executions of one terminal Run, the members of every    *)
(* Baseline of it.  The replay of s in comparison c is <<c, s>>.  Promotion*)
(* and completion take two steps, because they read rows that they do not  *)
(* lock; every other operation is one transaction on locked rows.          *)
(***************************************************************************)
EXTENDS Naturals, FiniteSets

CONSTANTS
  Sources,       \* Executions of the promoted Run
  Baselines,     \* Baseline rows that may be created
  Comparisons,   \* Comparison rows, one per controlled Run
  NoBaseline,    \* the null Baseline
  NoReplay,      \* no Execution
  MaxDecisions,  \* bound: administrators' reviews and validity decisions
  MaxResults     \* bound: semantic results per item

Replays == Comparisons \X Sources
Executions == Sources \cup Replays

ASSUME ComparisonAssumption ==
  /\ NoBaseline \notin Baselines
  /\ NoReplay \notin Executions
  /\ Sources \cap Replays = {}
  /\ MaxDecisions \in Nat /\ MaxResults \in Nat

\* A Run has finitely many Executions.
ASSUME FiniteRun == IsFiniteSet(Sources)

VARIABLES
  outcome,     \* Execution.outcome, ERROR also standing for TIMEOUT
  validity,    \* Execution.validity
  tracking,    \* the latest ReviewTracking event, whose state is review_state
  judgment,    \* the judgment of current_human_review
  baseline,    \* Baseline.is_active, "ABSENT" before its creation commits
  promoting,   \* the Baseline being created, under the source Run's lock
  attention,   \* the members with a BaselineAttentionEvent
  flagged,     \* Baselines with requires_attention
  replayOf,    \* Comparison.baseline
  frozen,      \* comparison_non_comparable_reason, fixed at launch
  completing,  \* per Comparison: the replay being completed and its item
  item,        \* ComparisonItem of a replay
  semantic,    \* the outcome of the current SemanticComparisonResult
  results,     \* number of results of an item
  onceValid,   \* history: members VALID when their Baseline was committed
  decisions    \* the bound used so far

reviewVars == <<validity, tracking, judgment>>
baselineVars == <<baseline, promoting, attention, flagged, onceValid>>
replayVars == <<replayOf, frozen, completing, item>>
semanticVars == <<semantic, results>>
vars == <<outcome, reviewVars, baselineVars, replayVars, semanticVars, decisions>>

TerminalOutcomes == {"SUCCESS", "ERROR"}
SemanticOutcomes == {"EQUIVALENT", "MATERIAL_CHANGE", "UNCERTAIN", "ERROR"}
Reasons == {"BASELINE_INVALID", "BASELINE_NO_ANSWER", "CURRENT_NO_ANSWER"}
Items == [state : {"NOT_RUN", "UNCHANGED", "CHANGED", "NON_COMPARABLE"}, reason : Reasons \cup {"NONE"}]

NoEvent == [state |-> "NONE", by |-> "nobody"]
NoItem == [state |-> "NOT_RUN", reason |-> "NONE"]
NotCompleting == [replay |-> NoReplay, outcome |-> "PENDING", item |-> NoItem]

SourceOf(x) == x[2]
ComparisonOf(x) == x[1]
ReplaysIn(c) == {x \in Replays : ComparisonOf(x) = c}
Terminal(x) == outcome[x] \in TerminalOutcomes
Usable(s) == outcome[s] = "SUCCESS" /\ validity[s] = "VALID"
Existing == {b \in Baselines : baseline[b] # "ABSENT"}

Init ==
  /\ \E o \in [Sources -> TerminalOutcomes] :
       outcome = [x \in Executions |-> IF x \in Sources THEN o[x] ELSE "ABSENT"]
  /\ validity = [x \in Executions |-> "VALID"]
  /\ tracking = [x \in Executions |-> NoEvent]
  /\ judgment = [x \in Executions |-> "NONE"]
  /\ baseline = [b \in Baselines |-> "ABSENT"]
  /\ promoting = NoBaseline
  /\ attention = [b \in Baselines |-> {}]
  /\ flagged = {}
  /\ replayOf = [c \in Comparisons |-> NoBaseline]
  /\ frozen = [x \in Replays |-> "NONE"]
  /\ completing = [c \in Comparisons |-> NotCompleting]
  /\ item = [x \in Replays |-> NoItem]
  /\ semantic = [x \in Replays |-> "NOT_RUN"]
  /\ results = [x \in Replays |-> 0]
  /\ onceValid = [b \in Baselines |-> {}]
  /\ decisions = 0

-----------------------------------------------------------------------------
(* Baselines.                                                              *)

\* create_baseline locks the Run and reads its Executions, which it does not
\* lock.
BeginPromotion(b) ==
  /\ promoting = NoBaseline
  /\ baseline[b] = "ABSENT"
  /\ \E s \in Sources : Usable(s)
  /\ promoting' = b
  /\ UNCHANGED <<outcome, reviewVars, baseline, attention, flagged, onceValid,
                 replayVars, semanticVars, decisions>>

\* Every Execution of the Run becomes a member, whatever its validity.
CommitPromotion(b, active) ==
  /\ promoting = b
  /\ promoting' = NoBaseline
  /\ baseline' = [baseline EXCEPT ![b] = active]
  /\ onceValid' = [onceValid EXCEPT ![b] = {s \in Sources : validity[s] = "VALID"}]
  /\ UNCHANGED <<outcome, reviewVars, attention, flagged, replayVars, semanticVars, decisions>>

SetBaselineActive(b, active) ==
  /\ b \in Existing
  /\ baseline[b] # active
  /\ baseline' = [baseline EXCEPT ![b] = active]
  /\ UNCHANGED <<outcome, reviewVars, promoting, attention, flagged, onceValid,
                 replayVars, semanticVars, decisions>>

-----------------------------------------------------------------------------
(* Launching and completing replays.                                       *)

\* Why the observation s cannot be replayed.  One whose own preflight failed
\* has no answer.
PreflightReason(s) ==
  IF validity[s] = "INVALID" THEN "BASELINE_INVALID"
  ELSE IF outcome[s] # "SUCCESS" THEN "BASELINE_NO_ANSWER" ELSE "NONE"

\* The reasons are frozen in the new Executions, of which nobody knows before
\* the launch commits.
LaunchControlledComparison(c, b) ==
  /\ baseline[b] = "ACTIVE"
  /\ replayOf[c] = NoBaseline
  /\ replayOf' = [replayOf EXCEPT ![c] = b]
  /\ outcome' = [x \in Executions |-> IF x \in ReplaysIn(c) THEN "PENDING" ELSE outcome[x]]
  /\ frozen' = [x \in Replays |->
       IF x \in ReplaysIn(c) THEN PreflightReason(SourceOf(x)) ELSE frozen[x]]
  /\ UNCHANGED <<reviewVars, baselineVars, completing, item, semanticVars, decisions>>

\* Variant: only the present state of the pair is asked.
ReasonNow(x, o) ==
  IF PreflightReason(SourceOf(x)) # "NONE" THEN PreflightReason(SourceOf(x))
  ELSE IF o # "SUCCESS" THEN "CURRENT_NO_ANSWER" ELSE "NONE"

\* The frozen reason first, then the source, then the replay's own outcome o.
NonComparableReason(x, o) ==
  IF frozen[x] # "NONE" THEN frozen[x]
  ELSE IF PreflightReason(SourceOf(x)) # "NONE" THEN PreflightReason(SourceOf(x))
  ELSE IF o # "SUCCESS" THEN "CURRENT_NO_ANSWER" ELSE "NONE"

\* Variant: an answer that did not change gets no item.
ChangesOnly(x, o) ==
  LET reason == NonComparableReason(x, o)
  IN  IF reason # "NONE" THEN {[state |-> "NON_COMPARABLE", reason |-> reason]}
      ELSE {NoItem, [state |-> "CHANGED", reason |-> "NONE"]}

ItemsFor(x, o) ==
  LET reason == NonComparableReason(x, o)
  IN  IF reason # "NONE" THEN {[state |-> "NON_COMPARABLE", reason |-> reason]}
      ELSE {[state |-> s, reason |-> "NONE"] : s \in {"UNCHANGED", "CHANGED"}}

\* _complete_execution holds the replay and the Comparison, and reads the
\* source unlocked.  A replay with a frozen reason is never submitted.
CompareExact(x, o) ==
  /\ outcome[x] = "PENDING"
  /\ completing[ComparisonOf(x)] = NotCompleting
  /\ frozen[x] # "NONE" => o = "ERROR"
  /\ \E i \in ItemsFor(x, o) :
       completing' = [completing EXCEPT ![ComparisonOf(x)] = [replay |-> x, outcome |-> o, item |-> i]]
  /\ UNCHANGED <<outcome, reviewVars, baselineVars, replayOf, frozen, item, semanticVars, decisions>>

\* The worker dies or its transaction fails: all of it is rolled back.
RollBackCompletion(c) ==
  /\ completing[c] # NotCompleting
  /\ completing' = [completing EXCEPT ![c] = NotCompleting]
  /\ UNCHANGED <<outcome, reviewVars, baselineVars, replayOf, frozen, item, semanticVars, decisions>>

\* reconcile_stale_claims closes a replay that was sent, and a broken
\* conversation any that is queued; neither compares it.
CloseWithoutComparing(x) ==
  /\ outcome[x] = "PENDING"
  /\ completing[ComparisonOf(x)].replay # x
  /\ outcome' = [outcome EXCEPT ![x] = "ERROR"]
  /\ UNCHANGED <<reviewVars, baselineVars, replayVars, semanticVars, decisions>>

\* Variant: the validity of the pair is not asked again.
ChangedPair(x, i) == i.state = "CHANGED"

\* Semantic triage looks at a changed pair, both VALID while they are locked.
Applicable(x, i) ==
  /\ i.state = "CHANGED"
  /\ validity[x] = "VALID" /\ validity[SourceOf(x)] = "VALID"

\* The rest of the completion, with the source locked: the change asks for a
\* review, and the default comparator, unconfigured, answers ERROR, which
\* leaves the review state as it is.
CommitCompletion(c) ==
  LET x == completing[c].replay
      i == completing[c].item
  IN  /\ completing[c] # NotCompleting
      /\ completing' = [completing EXCEPT ![c] = NotCompleting]
      /\ outcome' = [outcome EXCEPT ![x] = completing[c].outcome]
      /\ item' = [item EXCEPT ![x] = i]
      /\ tracking' = IF i.state = "CHANGED"
                     THEN [tracking EXCEPT ![x] = [state |-> "REQUIRED", by |-> "exact"]]
                     ELSE tracking
      /\ IF Applicable(x, i)
         THEN /\ semantic' = [semantic EXCEPT ![x] = "ERROR"]
              /\ results' = [results EXCEPT ![x] = @ + 1]
         ELSE UNCHANGED semanticVars
      /\ UNCHANGED <<validity, judgment, baselineVars, replayOf, frozen, decisions>>

-----------------------------------------------------------------------------
(* Semantic triage of a stored pair.                                       *)

\* Variant: any outstanding review is taken for the system's.
AnyRequirement(x) == tracking[x].state = "REQUIRED"

\* _is_exact_change_only_requirement
ExactChangeOnly(x) == tracking[x] = [state |-> "REQUIRED", by |-> "exact"]

\* Variant: a material change found later leaves a released review as it is.
TriageOnce(x, o) ==
  IF o = "EQUIVALENT" /\ ExactChangeOnly(x) THEN [state |-> "NONE", by |-> "semantic"]
  ELSE tracking[x]

\* The event that a result with outcome o leaves as the latest one of x.
Triage(x, o) ==
  IF o = "EQUIVALENT" /\ ExactChangeOnly(x) THEN [state |-> "NONE", by |-> "semantic"]
  ELSE IF o # "EQUIVALENT" /\ tracking[x].state = "NONE" THEN [state |-> "REQUIRED", by |-> "semantic"]
  ELSE tracking[x]

\* The service takes any comparator; the item, the Comparison and the two
\* Executions are locked while it runs.
ReevaluateSemantic(x, o) ==
  /\ completing[ComparisonOf(x)] = NotCompleting
  /\ Applicable(x, item[x])
  /\ results[x] < MaxResults
  /\ semantic' = [semantic EXCEPT ![x] = o]
  /\ results' = [results EXCEPT ![x] = @ + 1]
  /\ tracking' = [tracking EXCEPT ![x] = Triage(x, o)]
  /\ UNCHANGED <<outcome, validity, judgment, baselineVars, replayVars, decisions>>

-----------------------------------------------------------------------------
(* Administrators.                                                         *)

\* A decision on a terminal Execution, under its lock.
Decide(x) ==
  /\ Terminal(x)
  /\ decisions < MaxDecisions
  /\ decisions' = decisions + 1

\* set_review_state: no event when the state is already the one asked for.
SetReviewState(x, s) ==
  tracking' = IF tracking[x].state = s THEN tracking
              ELSE [tracking EXCEPT ![x] = [state |-> s, by |-> "admin"]]

MarkReviewRequired(x) ==
  /\ Decide(x)
  /\ SetReviewState(x, "REQUIRED")
  /\ UNCHANGED <<outcome, validity, judgment, baselineVars, replayVars, semanticVars>>

\* Variant: any terminal Execution may be triaged without a judgment.
AnyOutcome(x) == Terminal(x)

NothingToJudge(x) == outcome[x] = "ERROR"

MarkReviewedWithoutJudgment(x) ==
  /\ NothingToJudge(x)
  /\ Decide(x)
  /\ SetReviewState(x, "REVIEWED")
  /\ UNCHANGED <<outcome, validity, judgment, baselineVars, replayVars, semanticVars>>

RecordHumanReview(x, j) ==
  /\ Decide(x)
  /\ judgment' = [judgment EXCEPT ![x] = j]
  /\ SetReviewState(x, "REVIEWED")
  /\ UNCHANGED <<outcome, validity, baselineVars, replayVars, semanticVars>>

\* Variant: inactive Baselines are passed over.
ActiveWith(x) == {b \in Baselines : x \in Sources /\ baseline[b] = "ACTIVE"}

\* Variant: every Baseline, without asking who its members are.
AnyBaseline(x) == Existing

\* The Baselines with a committed membership of x.
BaselinesWith(x) == {b \in Existing : x \in Sources}

SetExecutionValidity(x, v) ==
  LET hit == IF v = "INVALID" THEN BaselinesWith(x) ELSE {}
  IN  /\ Decide(x)
      /\ validity[x] # v
      /\ validity' = [validity EXCEPT ![x] = v]
      /\ attention' = [b \in Baselines |-> IF b \in hit THEN attention[b] \cup {x} ELSE attention[b]]
      /\ flagged' = flagged \cup hit
      /\ UNCHANGED <<outcome, tracking, judgment, baseline, promoting, onceValid,
                     replayVars, semanticVars>>

-----------------------------------------------------------------------------

Next ==
  \/ \E b \in Baselines :
       \/ BeginPromotion(b)
       \/ \E active \in {"ACTIVE", "INACTIVE"} : CommitPromotion(b, active) \/ SetBaselineActive(b, active)
  \/ \E c \in Comparisons, b \in Baselines : LaunchControlledComparison(c, b)
  \/ \E x \in Replays :
       \/ \E o \in TerminalOutcomes : CompareExact(x, o)
       \/ CloseWithoutComparing(x)
       \/ \E o \in SemanticOutcomes : ReevaluateSemantic(x, o)
  \/ \E c \in Comparisons : CommitCompletion(c) \/ RollBackCompletion(c)
  \/ \E x \in Executions :
       \/ MarkReviewRequired(x) \/ MarkReviewedWithoutJudgment(x)
       \/ \E j \in {"GOOD", "BAD"} : RecordHumanReview(x, j)
       \/ \E v \in {"VALID", "INVALID"} : SetExecutionValidity(x, v)

Spec == Init /\ [][Next]_vars

-----------------------------------------------------------------------------
(* Properties.                                                             *)

Events == [state : {"NONE", "REQUIRED", "REVIEWED"},
           by : {"nobody", "exact", "semantic", "admin"}]
Completions == [replay : Replays \cup {NoReplay},
                outcome : TerminalOutcomes \cup {"PENDING"}, item : Items]

ReviewTypes ==
  /\ validity \in [Executions -> {"VALID", "INVALID"}]
  /\ tracking \in [Executions -> Events]
  /\ judgment \in [Executions -> {"NONE", "GOOD", "BAD"}]

BaselineTypes ==
  /\ baseline \in [Baselines -> {"ABSENT", "ACTIVE", "INACTIVE"}]
  /\ promoting \in Baselines \cup {NoBaseline}
  /\ attention \in [Baselines -> SUBSET Sources]
  /\ flagged \subseteq Baselines
  /\ onceValid \in [Baselines -> SUBSET Sources]

ReplayTypes ==
  /\ replayOf \in [Comparisons -> Baselines \cup {NoBaseline}]
  /\ frozen \in [Replays -> Reasons \cup {"NONE"}]
  /\ completing \in [Comparisons -> Completions]
  /\ item \in [Replays -> Items]

SemanticTypes ==
  /\ semantic \in [Replays -> SemanticOutcomes \cup {"NOT_RUN"}]
  /\ results \in [Replays -> Nat]

DecisionTypes == decisions \in Nat

\* Every variable keeps its type.
ComparisonTypeOK ==
  /\ outcome \in [Executions -> TerminalOutcomes \cup {"ABSENT", "PENDING"}]
  /\ ReviewTypes
  /\ BaselineTypes
  /\ ReplayTypes
  /\ SemanticTypes
  /\ DecisionTypes

\* An answer that changed is out of the review queue only if the latest
\* semantic verdict calls it EQUIVALENT or an administrator dealt with it,
\* however often it is evaluated again.
ChangeIsSeen ==
  \A x \in Replays :
    item[x].state = "CHANGED" /\ tracking[x].state = "NONE" => semantic[x] = "EQUIVALENT"

\* After an administrator's review event the system appends no other one.
AdminEventStands ==
  [][\A x \in Executions : tracking[x].by = "admin" => tracking'[x].by = "admin"]_vars

\* An Execution with an answer counts as REVIEWED only with a GOOD or BAD.
ReviewedAnswerIsJudged ==
  \A x \in Executions :
    tracking[x].state = "REVIEWED" /\ outcome[x] = "SUCCESS" => judgment[x] # "NONE"

\* A semantic result is appended only for a pair that is VALID at that moment,
\* also by the completion that read the source before.
SemanticOfValidPairs ==
  [][\A x \in Replays :
       results'[x] # results[x] =>
         /\ validity'[x] = "VALID" /\ validity'[SourceOf(x)] = "VALID"
         /\ outcome'[x] = "SUCCESS" /\ outcome'[SourceOf(x)] = "SUCCESS"]_vars

\* An item tells why it is not comparable: a reason frozen at launch stands
\* although the source is VALID again when the replay completes, and answers
\* are compared only where both exist.
ItemTellsWhy ==
  \A x \in Replays :
    /\ item[x].state # "NOT_RUN" /\ frozen[x] # "NONE" => item[x].reason = frozen[x]
    /\ item[x].state \in {"UNCHANGED", "CHANGED"} =>
         item[x].reason = "NONE" /\ outcome[x] = "SUCCESS" /\ outcome[SourceOf(x)] = "SUCCESS"

\* A member that was VALID when its Baseline came to be and is INVALID now has
\* raised the Baseline's attention, active or not.
InvalidatedMemberFlagged ==
  \A b \in Existing : \A s \in onceValid[b] :
    validity[s] = "INVALID" => s \in attention[b] /\ b \in flagged

\* A Baseline without a usable VALID SUCCESS member asks for attention:
\* creation refuses it, and later invalidation flags it.
UsableOrFlagged ==
  \A b \in Existing : b \in flagged \/ \E s \in Sources : Usable(s)

=============================================================================
