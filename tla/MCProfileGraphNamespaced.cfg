SPECIFICATION Spec
CONSTANTS
  a = a
  b = b
  Names = {a, b}
  Namespaces = {ns}
  NoNamespace = NoNamespace
  Selections <- MCOneDependency
  None = None
  Idle = Idle
  MaxEdits = 2
INVARIANTS
  DependentsDepend
CHECK_DEADLOCK FALSE
