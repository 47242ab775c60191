\* Two clients, one table, one index name.
SPECIFICATION Spec
CONSTANTS
  Clients = {c1, c2}
  c1 = c1
  c2 = c2
  Tables = {t1}
  Names = {n1}
  Pk = id
  u = u
  Columns = {u}
  Vals = {a}
  NULL = NULL
  None = None
  NewColumns <- IdAndU
  MaxId = 1
  Ops <- OpsOf
INVARIANTS
  TypeOK
  IndexComplete
  CreatedOnce
  PanicNeedsAlter
PROPERTIES
  CreatedEmpty
  ColumnsVanish
