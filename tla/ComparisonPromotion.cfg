SPECIFICATION Spec
CHECK_DEADLOCK FALSE
SYMMETRY Symmetry
CONSTANTS
  Sources = {s1, s2}
  Baselines = {b1, b2}
  Comparisons = {c1}
  NoBaseline = NoBaseline
  NoReplay = NoReplay
  MaxDecisions = 3
  MaxResults = 2
INVARIANT
  UsableOrFlagged
