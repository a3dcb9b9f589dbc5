SPECIFICATION FairSpec
CONSTANTS
  a = a
  b = b
  Names = {a, b}
  Namespaces = {NoNamespace}
  NoNamespace = NoNamespace
  Selections <- MCSelections
  None = None
  Idle = Idle
  MaxEdits = 4
INVARIANTS
  TypeOK
  DependentsDepend
  NothingLost
PROPERTIES
  Converges
CHECK_DEADLOCK FALSE
