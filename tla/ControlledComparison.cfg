SPECIFICATION Spec
CHECK_DEADLOCK FALSE
SYMMETRY Symmetry
CONSTANTS
  Sources = {s1, s2}
  Baselines = {b1, b2}
  Comparisons = {c1}
  NoBaseline = NoBaseline
  NoReplay = NoReplay
  MaxDecisions = 2
  MaxResults = 2
INVARIANTS
  ComparisonTypeOK
  ChangeIsSeen
  ReviewedAnswerIsJudged
  ItemTellsWhy
  InvalidatedMemberFlagged
  ReportsReconcile
PROPERTIES
  AdminEventStands
  SemanticOfValidPairs
