SPECIFICATION ListSpec
CONSTANTS
  s1 = s1
  s2 = s2
  c1 = c1
  i1 = i1
  Summaries = {s1, s2}
  Callers = {s1, s2}
  Checks = {}
  Reports = {}
  Clusters = {c1}
  SummaryInputs = {i1}
  ReportInputs = {j1}
  None = None
  NotEnabled = NotEnabled
  NotGenerated = NotGenerated
  Evaluate <- EvaluateByInputs
  Home <- MCHome
  FeatureSets <- MCFeatureSets
  ChartSets <- MCChartSets
  SummaryContents <- MCContents
  ReportClusters = {c1}
  MaxEdits = 4
INVARIANTS
  RowTypeOK
  UndisturbedRow
