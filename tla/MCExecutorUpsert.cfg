SPECIFICATION Spec
CONSTANTS
  Clients = {c1}
  Pks = {1, 2}
  Vals = {a, b}
  a = a
  b = b
  t = t
  NULL = NULL
  NoRow = NoRow
  None = None
  Unique = FALSE
  Valid <- AnyRow
  Statements <- UpsertStatements
  Controls = {"begin", "commit", "rollback"}
  MaxLog = 2
INVARIANT
  IndexExact
