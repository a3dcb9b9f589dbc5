SPECIFICATION FairSpec
CONSTANTS
  v = v
  NoValue = NoValue
  Values = {v, NoValue}
  SveltosClusters = {v1}
  CAPIClusters = {p1}
  Objects <- MCObjects
  None = None
  Idle = Idle
  MaxEdits = 4
  MaxFailures = 1
INVARIANTS
  TypeOK
  ListsAgree
  ReadyClustersShown
PROPERTIES
  ClustersListed
CHECK_DEADLOCK FALSE
