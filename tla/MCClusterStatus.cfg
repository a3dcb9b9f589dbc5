SPECIFICATION Spec
CONSTANTS
  s1 = s1
  s2 = s2
  s3 = s3
  c1 = c1
  c2 = c2
  Summaries = {s1, s2, s3}
  Clusters = {c1, c2}
  Home <- MCHomeFixed
  FeatureSets <- MCFeatureSets
  ChartSets <- MCChartSets
  None = None
INVARIANTS
  TypeOK
  BadgesMatchRows
  SetsExact
