SPECIFICATION Spec
CONSTANTS
  v = v
  NoValue = NoValue
  Values = {v, NoValue}
  SveltosClusters = {v1}
  CAPIClusters = {p1}
  Objects <- MCObjects
  None = None
  Idle = Idle
  MaxEdits = 3
  MaxFailures = 1
INVARIANTS
  ShownReadyIsReady
CHECK_DEADLOCK FALSE
