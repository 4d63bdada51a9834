SPECIFICATION Spec
CHECK_DEADLOCK FALSE
SYMMETRY Symmetry
CONSTANTS
  Questions = {q1, q2}
  Scenarios = {s1}
  Targets = {t1}
  Importers = {i1, i2}
  Corpus = {q1}
  Requests = {r1, r2}
  RunIds = {n1, n2, n3}
  Pages = {p1, p2}
  NoPage = NoPage
  NoKey = NoKey
  NoRun = NoRun
  MaxChanges = 2
INVARIANT
  DeliberateRetryIsNew
