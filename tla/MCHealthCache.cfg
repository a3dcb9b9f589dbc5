SPECIFICATION Spec
CONSTANTS
  Summaries = {s1, s2}
  Checks = {n1, n2}
  Reports = {r1, r2}
  Clusters = {c1, c2}
  SummaryInputs = {i1, i2}
  ReportInputs = {j1}
  Callers = {w1, w2}
  None = None
  NotEnabled = NotEnabled
  Evaluate <- EvaluateByInputs
INVARIANTS
  TypeOK
  IndexExact
  ChecksInverse
  StatusFresh
PROPERTIES
  ImplementsView
