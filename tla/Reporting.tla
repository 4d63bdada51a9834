------------------------------ MODULE Reporting ------------------------------
(***************************************************************************)
(* The reports of Runs, Baselines and Comparisons: counts that the service *)
(* and the views derive from the rows each time they are shown, never from *)
(* counters of their own.  They are state functions of the comparison      *)
(* model; what is worth asking of them is whether two reports of the same  *)
(* rows agree, in every state that launches, completions, recoveries,      *)
(* re-evaluations, reviews and validity decisions can lead to.             *)
(***************************************************************************)
EXTENDS ControlledComparison

Count(S) == Cardinality(S)

Valid(X) == {x \in X : validity[x] = "VALID"}
Judged(X, j) == {x \in X : judgment[x] = j}
WithOutcome(X, o) == {x \in X : outcome[x] = o}

\* run_progress of the Run with the members X.
RunProgress(X) ==
  LET success == Count(WithOutcome(X, "SUCCESS"))
      error == Count(WithOutcome(X, "ERROR"))
  IN  [total |-> Count(X), open |-> Count(WithOutcome(X, "PENDING")),
       success |-> success, error |-> error, completed |-> success + error]

\* run_review_metrics: quality is counted over the VALID members only.
RunReviewMetrics(X) ==
  [total |-> Count(X), valid |-> Count(Valid(X)), invalid |-> Count(X \ Valid(X)),
   reviewed |-> Count({x \in Valid(X) : judgment[x] # "NONE"}),
   unreviewed |-> Count(Judged(Valid(X), "NONE")),
   good |-> Count(Judged(Valid(X), "GOOD")), bad |-> Count(Judged(Valid(X), "BAD")),
   required |-> Count({x \in X : tracking[x].state = "REQUIRED"})]

\* baseline_completeness: quality is counted over all members.
BaselineCompleteness(X) ==
  LET reviewed == Count({x \in X : judgment[x] # "NONE"})
  IN  [total |-> Count(X), valid |-> Count(Valid(X)), invalid |-> Count(X \ Valid(X)),
       reviewed |-> reviewed, unreviewed |-> Count(X) - reviewed,
       good |-> Count(Judged(X, "GOOD")), bad |-> Count(Judged(X, "BAD"))]

\* One row of run_trend_rows.
RunTrendRow(X) ==
  [good |-> Count(Judged(Valid(X), "GOOD")), bad |-> Count(Judged(Valid(X), "BAD")),
   unreviewed |-> Count(Judged(Valid(X), "NONE")),
   required |-> Count({x \in X : tracking[x].state = "REQUIRED"})]

ItemsOf(c) == {x \in ReplaysIn(c) : item[x].state # "NOT_RUN"}
InState(c, s) == {x \in ItemsOf(c) : item[x].state = s}

\* Items whose current, not superseded, semantic result is o.
CurrentSemantic(c, o) == {x \in ItemsOf(c) : semantic[x] = o}
SemanticNotRun(c) == {x \in InState(c, "CHANGED") : semantic[x] = "NOT_RUN"}

\* comparison_human_transition, as the summary counts it: the judgments of
\* now, whether the two observations are VALID or not.
Transition(c, from, to) ==
  {x \in ItemsOf(c) : judgment[SourceOf(x)] = from /\ judgment[x] = to}

ComparisonSummary(c) ==
  [total |-> Count(ItemsOf(c)),
   unchanged |-> Count(InState(c, "UNCHANGED")),
   changed |-> Count(InState(c, "CHANGED")),
   nonComparable |-> Count(InState(c, "NON_COMPARABLE")),
   equivalent |-> Count(CurrentSemantic(c, "EQUIVALENT")),
   material |-> Count(CurrentSemantic(c, "MATERIAL_CHANGE")),
   uncertain |-> Count(CurrentSemantic(c, "UNCERTAIN")),
   semanticError |-> Count(CurrentSemantic(c, "ERROR")),
   notRun |-> Count(SemanticNotRun(c)),
   error |-> Count(WithOutcome(ItemsOf(c), "ERROR")),
   pendingReview |-> Count({x \in ItemsOf(c) : tracking[x].state = "REQUIRED"}),
   goodToBad |-> Count(Transition(c, "GOOD", "BAD")),
   badToGood |-> Count(Transition(c, "BAD", "GOOD"))]

\* filter_comparison_items by semantic outcome, as the link behind a count.
FilterSemantic(c, o) == IF o = "NOT_RUN" THEN SemanticNotRun(c) ELSE CurrentSemantic(c, o)

-----------------------------------------------------------------------------
(* Properties.                                                             *)

\* The change states partition the items, and the semantic counts the changed
\* ones: no current result belongs to an item that is not CHANGED.
SummaryAddsUp(s) ==
  /\ s.total = s.unchanged + s.changed + s.nonComparable
  /\ s.changed = s.equivalent + s.material + s.uncertain + s.semanticError + s.notRun

\* When the replay Run is finished, its summary leaves out exactly as many
\* Executions as it leaves out errors: no answer is missing from it.
OnlyErrorsLeftOut(p, s) == p.open = 0 => p.completed - s.total = p.error - s.error

\* The Run and the Baseline of the same members differ by the INVALID ones.
MetricsAgree(m, b, t) ==
  /\ m.good + m.bad + m.unreviewed = m.valid
  /\ m.good = t.good /\ m.bad = t.bad /\ m.required = t.required
  /\ b.good + b.bad + b.unreviewed = b.total
  /\ b.reviewed - m.reviewed <= m.invalid

\* The reports of the same rows agree: the summary of a comparison adds up, a
\* finished replay is missing from it only for want of an answer (recovery and
\* broken conversations close it without an item), it reviews no more than its
\* Run does, and Run, trend and Baseline count the same judgments.
ReportsReconcile ==
  /\ \A c \in Comparisons :
       LET s == ComparisonSummary(c)
       IN  replayOf[c] # NoBaseline =>
             /\ SummaryAddsUp(s)
             /\ OnlyErrorsLeftOut(RunProgress(ReplaysIn(c)), s)
             /\ s.pendingReview <= RunReviewMetrics(ReplaysIn(c)).required
             /\ \A x \in FilterSemantic(c, "NOT_RUN") : results[x] = 0
  /\ MetricsAgree(RunReviewMetrics(Sources), BaselineCompleteness(Sources), RunTrendRow(Sources))

=============================================================================
