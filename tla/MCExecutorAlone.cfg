\* One client, no ON CONFLICT DO UPDATE, no crash.
SPECIFICATION FairSpec
CONSTANTS
  Clients = {c1}
  Pks = {1, 2, 3}
  Vals = {a, b, t}
  a = a
  b = b
  t = t
  NULL = NULL
  NoRow = NoRow
  None = None
  Unique = TRUE
  Valid <- WellTyped
  Statements <- AloneStatements
  Controls = {"begin", "commit", "rollback", "drop"}
  MaxLog = 3
INVARIANTS
  TypeOK
  RollbackRestores
  UndoChain
  IndexExact
  ConstraintsHold
  LastDropRollsBack
PROPERTIES
  ImplementsTransaction
  CallEnds
