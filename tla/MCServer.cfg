\* Two worker threads, the watcher and one file.
SPECIFICATION Spec
CONSTANTS
  Clients = {c1, c2}
  c1 = c1
  c2 = c2
  a = a
  Stems = {a}
  None = None
  Names <- BothNames
  Loaded <- OnlyA
  Inodes = {i1, i2, i3}
SYMMETRY Perms
CONSTANTS
  MaxRows = 1
  MaxDetached = 1
  MaxEvents = 1
  Requests <- RequestsOf
  Exposed = {a}
INVARIANTS
  TypeOK
  ServedIsNamed
  OneNameEach
  StaleEntryExplained
  SomebodyMoves
PROPERTIES
  RevivalExplained
  StableUnderGuard
