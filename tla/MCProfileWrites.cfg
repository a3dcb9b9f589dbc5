SPECIFICATION Spec
CONSTANTS
  a = a
  b = b
  m = m
  n = n
  Requests = {q1, q2, q3}
  Ids = {a, b}
  Contents = {m, n}
  ContentOf <- MCContentOf
  RefSets <- MCRefSets
  Operations = {"create", "update", "delete"}
  RemoveFlags = {TRUE, FALSE}
  FaultKinds = {"refused", "lost"}
  MaxFaults = 2
  None = None
  User = User
  Made = {n}
INVARIANTS
  TypeOK
  FailedCreateLeavesNothing
  CreatedKeepsContent
  ContentGoesLast
PROPERTIES
  ImplementsStore
SYMMETRY MCSymmetry
CHECK_DEADLOCK FALSE
