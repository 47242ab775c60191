SPECIFICATION Spec
CONSTANTS
  Clients = {c1}
  Pks = {1, 2}
  Vals = {a, b, t}
  a = a
  b = b
  t = t
  NULL = NULL
  NoRow = NoRow
  None = None
  Unique = FALSE
  Valid <- AnyRow
  Statements <- AloneStatements
  Controls = {"begin", "commit", "rollback", "crash"}
  MaxLog = 2
PROPERTY
  ImplementsTransaction
