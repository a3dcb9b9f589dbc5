SPECIFICATION Spec
CONSTANTS
  a = a
  b = b
  Names = {a, b}
  Namespaces = {NoNamespace}
  NoNamespace = NoNamespace
  Selections <- MCSelections
  None = None
  Idle = Idle
  MaxEdits = 3
INVARIANTS
  CopyUnaffected
CHECK_DEADLOCK FALSE
