SPECIFICATION Spec
CONSTANTS
  MaxInt = 21
  maxItems = 2
  KindOf <- MCKindOf
  Objects <- MCObjects
  Rank <- MCRank
  Users <- MCUsers
  Filters <- MCFilters
  Starts <- MCStarts
  Targets <- MCTargets
  Bounds <- MCBounds
  MaxBad = 1
  MaxChanges <- MCMaxChanges
  MaxSessions = 2
INVARIANTS
  TypeOK
  ShownWasAllowed
  ListIsComplete
  MalformedIs400
  OneAnswer
  UnavailableIsSaid
  SessionsAccounted
  WindowRight
  PagesMakeTheList
\* A request ends with its answer.
CHECK_DEADLOCK FALSE
