\* An import and a query while the watcher handles an event.
SPECIFICATION FairSpec
CONSTANTS
  Clients = {c1, c2}
  c1 = c1
  c2 = c2
  a = a
  Stems = {a}
  None = None
  Names <- BothNames
  Loaded <- OnlyA
  Inodes = {i1}
  MaxRows = 1
  MaxDetached = 0
  MaxEvents = 1
  Requests <- ImportAndQuery
  Exposed = {a}
PROPERTIES
  QueriesReturn
\* The deadlock is what the property is about.
CHECK_DEADLOCK FALSE
