SPECIFICATION FairSpec
CONSTANTS
  s1 = s1
  s2 = s2
  c1 = c1
  c2 = c2
  i1 = i1
  Summaries = {s1, s2}
  Callers = {s1, s2}
  Checks = {n1, n2}
  Reports = {r1}
  Clusters = {c1, c2}
  SummaryInputs = {i1}
  ReportInputs = {j1}
  None = None
  NotEnabled = NotEnabled
  NotGenerated = NotGenerated
  Evaluate <- EvaluateByInputs
  Home <- MCHome
  FeatureSets <- MCFeatureSets
  ChartSets <- MCChartSets
  SummaryContents <- MCContents
  ReportClusters = {c1, c2}
  MaxEdits = 4
INVARIANTS
  TypeOK
  QuietAgrees
  NoPhantomChecks
PROPERTIES
  Converges
CHECK_DEADLOCK FALSE
