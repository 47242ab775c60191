SPECIFICATION Spec
CONSTANTS
  Clients = {c1, c2}
  Pks = {1, 2}
  Vals = {a, b}
  a = a
  b = b
  t = t
  NULL = NULL
  NoRow = NoRow
  None = None
  Unique = FALSE
  Valid <- AnyRow
  Statements <- SharedStatements
  Controls = {"begin", "commit", "rollback", "drop"}
  MaxLog = 1
INVARIANT
  LastDropRollsBack
