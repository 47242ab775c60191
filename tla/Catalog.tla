------------------------------ MODULE Catalog ------------------------------
(***************************************************************************)
(* The table and index catalogue of RustMinidb: the DDL statements of the  *)
(* executor (src/src/sql/executor.rs), the catalogue tables of the redb    *)
(* engine (src/src/storage/redb_engine.rs), and the statements that read   *)
(* or write rows by what they found in the catalogue: INSERT with          *)
(* AUTO_INCREMENT, DELETE, the import and comment handlers.                *)
(*                                                                         *)
(* Every statement is a sequence of engine calls; each call is one redb    *)
(* transaction and one step here (insert_row and create_index are more     *)
(* than one), and the other clients run between them.  The primary key is  *)
(* the first column, an INTEGER with AUTO_INCREMENT; every other column    *)
(* accepts NULL and the same values.                                       *)
(***************************************************************************)
EXTENDS Integers, Sequences, FiniteSets

CONSTANTS
  Clients,    \* threads of the server or of an embedding program
  Tables,     \* table names
  Names,      \* index names
  Pk,         \* the primary-key column
  Columns,    \* the other columns
  Vals,       \* the values a statement may store in them
  NULL,       \* Value::Null
  None,       \* no table, no row, no index under this name
  NewColumns, \* the column list of CREATE TABLE
  MaxId,      \* i64::MAX
  Ops         \* the statements each client runs

Ids     == {-MaxId - 1} \cup 1..MaxId
Value   == Ids \cup Vals \cup {NULL}
Row     == {r \in Seq(Value) : r # <<>> /\ r[1] \in Ids}
ColSeqs == {s \in Seq(Columns \cup {Pk}) : s # <<>> /\ s[1] = Pk}
Schema  == [cols : ColSeqs, comment : BOOLEAN]

ASSUME MaxIdAssumption    == MaxId \in Nat \ {0}
ASSUME ColumnsAssumption  == NewColumns \in ColSeqs /\ Pk \notin Columns
ASSUME SentinelAssumption == None \notin Schema \cup Row \cup Columns

VARIABLES
  schemas,  \* redb table __schema__: table -> TableSchema
  data,     \* redb tables __data__{table}: key -> row
  indexes,  \* redb table __indexes__: "table:name" -> the indexed column
  entries,  \* redb tables __idx__{table}__{name}: composite keys <<value, key>>
  run,      \* the statement each client executes and where it is in it
  made,     \* auxiliary: CREATE TABLE statements that created the table, less drops
  altered,  \* auxiliary: tables whose columns have ever been changed
  imported, \* auxiliary: rows written without index maintenance, <<table, key>>
  late,     \* auxiliary: tables a row was written to when they were dropped
  panicked  \* auxiliary: a statement read past the end of a row

store == <<schemas, data, indexes, entries>>
ghost == <<made, altered, imported, late, panicked>>
vars  == <<schemas, data, indexes, entries, run, made, altered, imported, late, panicked>>

-----------------------------------------------------------------------------
NoStmt == [op |-> "none"]
Stmt ==
       [op : {"create", "drop", "comment"}, table : Tables]
  \cup [op : {"insert", "import"}, table : Tables, id : Ids \cup {NULL}, val : Vals]
  \cup [op : {"delete"}, table : Tables, id : Ids]
  \cup [op : {"addcol", "dropcol"}, table : Tables, col : Columns]
  \cup [op : {"cindex"}, table : Tables, name : Names, col : Columns]
  \cup [op : {"dindex"}, name : Names]

(* The frame of a client: at, the next engine call; seen, the schema the   *)
(* statement read; row, the row in hand; todo, rows or tables still to     *)
(* handle; defs, index definitions still to handle.                        *)
Idle == [at |-> "idle", stmt |-> NoStmt, seen |-> None, row |-> None,
         todo |-> {}, defs |-> {}]

Labels == {"idle", "create", "drop", "scanids", "nextid", "locate", "probe", "write",
           "indexes", "entry", "scan", "row", "unentry", "deleterow", "checkindex",
           "putindex", "backfill", "fill", "findindex", "dropindex", "putschema"}

Frame == [at : Labels, stmt : Stmt \cup {NoStmt}, seen : Schema \cup {None},
          row : Row \cup {None}, todo : SUBSET (Row \cup Tables),
          defs : SUBSET (Tables \X Names \X Columns)]

NoTables == [t \in Tables |-> None]
Init ==
  /\ schemas = NoTables
  /\ data = [t \in Tables |-> [k \in Ids |-> None]]
  /\ indexes = [t \in Tables |-> [n \in Names |-> None]]
  /\ entries = [t \in Tables |-> [n \in Names |-> {}]]
  /\ run = [c \in Clients |-> Idle]
  /\ made = [t \in Tables |-> 0]
  /\ altered = {} /\ imported = {} /\ late = {} /\ panicked = FALSE

At(c, label) == run[c].at = label
Op(c)  == run[c].stmt.op
Tab(c) == run[c].stmt.table
End(c) == run' = [run EXCEPT ![c] = Idle]
Goto(c, label) == run' = [run EXCEPT ![c].at = label]

Cols(s)   == {s.cols[i] : i \in DOMAIN s.cols}
Pos(s, x) == CHOOSE i \in DOMAIN s.cols : s.cols[i] = x
RowsIn(t) == {data[t][k] : k \in {j \in Ids : data[t][j] # None}}
Defs(t)   == {<<t, n, indexes[t][n]>> : n \in {m \in Names : indexes[t][m] # None}}

(* A statement starts with its first call: get_schema (None is an error),  *)
(* list_tables for DROP INDEX.                                             *)
Begin(c, s, label) ==
  /\ At(c, "idle") /\ s.op \in Ops[c]
  /\ run' = [run EXCEPT ![c] = [Idle EXCEPT !.at = label, !.stmt = s, !.seen = schemas[s.table]]]
  /\ UNCHANGED <<store, ghost>>

-----------------------------------------------------------------------------
(* CREATE TABLE and DROP TABLE look for the table in one transaction and   *)
(* act in another; create_table looks again in the one that writes.        *)

StartCreate(c) == \E t \in Tables :
  schemas[t] = None /\ Begin(c, [op |-> "create", table |-> t], "create")

(* Variant: create_table trusts the caller's table_exists.                 *)
CreateTableUnchecked(c) ==
  /\ At(c, "create")
  /\ schemas' = [schemas EXCEPT ![Tab(c)] = [cols |-> NewColumns, comment |-> FALSE]]
  /\ made' = [made EXCEPT ![Tab(c)] = @ + 1]
  /\ End(c) /\ UNCHANGED <<data, indexes, entries, altered, imported, late, panicked>>

CreateTable(c) ==
  /\ At(c, "create")
  /\ \/ schemas[Tab(c)] # None /\ End(c) /\ UNCHANGED <<store, ghost>>
     \/ /\ schemas[Tab(c)] = None
        /\ schemas' = [schemas EXCEPT ![Tab(c)] = [cols |-> NewColumns, comment |-> FALSE]]
        /\ made' = [made EXCEPT ![Tab(c)] = @ + 1]
        /\ End(c) /\ UNCHANGED <<data, indexes, entries, altered, imported, late, panicked>>

StartDrop(c) == \E t \in Tables :
  schemas[t] # None /\ Begin(c, [op |-> "drop", table |-> t], "drop")

(* Variant: the data table keeps its rows.                                 *)
KeepRows(t) == UNCHANGED data
EmptyRows(t) == data' = [data EXCEPT ![t] = [k \in Ids |-> None]]

(* One transaction removes the schema and empties the data table; index    *)
(* metadata and entries stay.                                              *)
DropTable(c) ==
  /\ At(c, "drop")
  /\ schemas' = [schemas EXCEPT ![Tab(c)] = None]
  /\ EmptyRows(Tab(c))
  /\ made' = [made EXCEPT ![Tab(c)] = 0]
  /\ late' = late \ {Tab(c)}
  /\ imported' = {p \in imported : p[1] # Tab(c)}
  /\ End(c) /\ UNCHANGED <<indexes, entries, altered, panicked>>

-----------------------------------------------------------------------------
(* INSERT with a column list, and the import handler, which calls          *)
(* insert_row itself and maintains no index.                               *)

(* row_from_map: NULL where the list names no value.                       *)
RowFor(s, id, val) ==
  [i \in DOMAIN s.cols |-> IF s.cols[i] = Pk THEN id
                           ELSE IF s.cols[i] = NewColumns[2] THEN val ELSE NULL]

StartInsert(c) == \E t \in Tables, id \in (1..MaxId) \cup {NULL}, v \in Vals, op \in {"insert", "import"} :
  /\ schemas[t] # None /\ op \in Ops[c] /\ (op = "import" => id # NULL)
  /\ At(c, "idle")
  /\ run' = [run EXCEPT ![c] =
       [Idle EXCEPT !.at = IF id = NULL THEN "scanids" ELSE "locate",
                    !.stmt = [op |-> op, table |-> t, id |-> id, val |-> v],
                    !.seen = schemas[t], !.row = IF id = NULL THEN None
                                                 ELSE RowFor(schemas[t], id, v)]]
  /\ UNCHANGED <<store, ghost>>

(* get_next_auto_increment_id scans the rows, then reads the schema to     *)
(* find the column; without a schema it counts from 0.  At i64::MAX the    *)
(* addition panics in a build with overflow checks and wraps without.      *)
ScanIds(c) ==
  /\ At(c, "scanids")
  /\ run' = [run EXCEPT ![c].at = "nextid", ![c].todo = RowsIn(Tab(c))]
  /\ UNCHANGED <<store, ghost>>

MaxOf(rows) == CHOOSE m \in {0} \cup 1..MaxId :
  /\ m = 0 \/ \E r \in rows : r[1] = m
  /\ \A r \in rows : r[1] <= m

NextId(c) ==
  /\ At(c, "nextid")
  /\ LET m == IF schemas[Tab(c)] = None THEN 0 ELSE MaxOf(run[c].todo) IN
     \/ m = MaxId /\ End(c)
     \/ run' = [run EXCEPT ![c].at = "locate", ![c].todo = {},
             ![c].row = RowFor(run[c].seen, IF m = MaxId THEN -MaxId - 1 ELSE m + 1,
                               run[c].stmt.val)]
  /\ UNCHANGED <<store, ghost>>

(* insert_row: get_schema, a read transaction that looks for the key, a    *)
(* write transaction that inserts, whatever happened in between.           *)
Locate(c) ==
  /\ At(c, "locate")
  /\ IF schemas[Tab(c)] = None THEN End(c) ELSE Goto(c, "probe")
  /\ UNCHANGED <<store, ghost>>

Probe(c) ==
  /\ At(c, "probe")
  /\ IF data[Tab(c)][run[c].row[1]] # None THEN End(c) ELSE Goto(c, "write")
  /\ UNCHANGED <<store, ghost>>

WriteRow(c) ==
  /\ At(c, "write")
  /\ LET t == Tab(c)  k == run[c].row[1] IN
     /\ data' = [data EXCEPT ![t][k] = run[c].row]
     /\ late' = IF schemas[t] = None THEN late \cup {t} ELSE late
     /\ \/ /\ Op(c) = "insert" /\ Goto(c, "indexes")
           /\ imported' = imported \ {<<t, k>>}
        \/ /\ Op(c) = "import" /\ End(c)
           /\ imported' = imported \cup {<<t, k>>}
  /\ UNCHANGED <<schemas, indexes, entries, made, altered, panicked>>

(* update_indexes_for_insert: list_indexes, then one entry per index whose *)
(* column the schema has.  CREATE INDEX calls it for each row it scanned.  *)
AfterRow(c) == IF Op(c) = "cindex" THEN run' = [run EXCEPT ![c].at = "fill", ![c].row = None,
                                                           ![c].defs = {}]
               ELSE End(c)

ListIndexes(c) ==
  /\ At(c, "indexes")
  /\ LET ds == {d \in Defs(Tab(c)) : d[3] \in Cols(run[c].seen)} IN
     IF ds = {} THEN AfterRow(c)
     ELSE run' = [run EXCEPT ![c].at = "entry", ![c].defs = ds]
  /\ UNCHANGED <<store, ghost>>

(* The entry of a row in an index; a row with fewer values than the schema *)
(* has columns is read past its end, which panics.                         *)
(* Variants: the column counted from one; the parts of the key swapped.    *)
TooShortByOne(r, s, x) == Pos(s, x) + 1 > Len(r)
KeySwapped(r, s, x) == <<r[1], r[Pos(s, x)]>>
TooShort(r, s, x) == Pos(s, x) > Len(r)
KeyIn(r, s, x) == <<r[Pos(s, x)], r[1]>>

Panic(c) == panicked' = TRUE /\ End(c)
            /\ UNCHANGED <<store, made, altered, imported, late>>

AddEntry(c) ==
  /\ At(c, "entry")
  /\ \E d \in run[c].defs :
     \/ TooShort(run[c].row, run[c].seen, d[3]) /\ Panic(c)
     \/ /\ ~TooShort(run[c].row, run[c].seen, d[3])
        /\ entries' = [entries EXCEPT ![d[1]][d[2]] = @ \cup {KeyIn(run[c].row, run[c].seen, d[3])}]
        /\ IF run[c].defs = {d} THEN AfterRow(c)
           ELSE run' = [run EXCEPT ![c].defs = @ \ {d}]
        /\ UNCHANGED <<schemas, data, indexes, ghost>>

-----------------------------------------------------------------------------
(* DELETE by key: scan, then for each row that matches its index entries   *)
(* go, then the row.                                                       *)

StartDelete(c) == \E t \in Tables, id \in 1..MaxId :
  schemas[t] # None /\ Begin(c, [op |-> "delete", table |-> t, id |-> id], "scan")

ScanRows(c) ==
  /\ At(c, "scan")
  /\ LET r == data[Tab(c)][run[c].stmt.id] IN
     IF r = None THEN End(c) ELSE run' = [run EXCEPT ![c].at = "row", ![c].row = r]
  /\ UNCHANGED <<store, ghost>>

ListToRemove(c) ==
  /\ At(c, "row")
  /\ LET ds == {d \in Defs(Tab(c)) : d[3] \in Cols(run[c].seen)} IN
     run' = [run EXCEPT ![c].at = IF ds = {} THEN "deleterow" ELSE "unentry", ![c].defs = ds]
  /\ UNCHANGED <<store, ghost>>

RemoveEntry(c) ==
  /\ At(c, "unentry")
  /\ \E d \in run[c].defs :
     \/ TooShort(run[c].row, run[c].seen, d[3]) /\ Panic(c)
     \/ /\ ~TooShort(run[c].row, run[c].seen, d[3])
        /\ entries' = [entries EXCEPT ![d[1]][d[2]] = @ \ {KeyIn(run[c].row, run[c].seen, d[3])}]
        /\ run' = [run EXCEPT ![c].defs = @ \ {d},
                              ![c].at = IF run[c].defs = {d} THEN "deleterow" ELSE "unentry"]
        /\ UNCHANGED <<schemas, data, indexes, ghost>>

DeleteRow(c) ==
  /\ At(c, "deleterow")
  /\ data' = [data EXCEPT ![Tab(c)][run[c].row[1]] = None]
  /\ imported' = imported \ {<<Tab(c), run[c].row[1]>>}
  /\ End(c) /\ UNCHANGED <<schemas, indexes, entries, made, altered, late, panicked>>

-----------------------------------------------------------------------------
(* CREATE INDEX: the metadata first, then the entries of every row a scan  *)
(* made afterwards finds.  create_index checks in one transaction and      *)
(* writes in another.                                                      *)

StartIndex(c) == \E t \in Tables, n \in Names, x \in Columns :
  /\ schemas[t] # None /\ x \in Cols(schemas[t])
  /\ Begin(c, [op |-> "cindex", table |-> t, name |-> n, col |-> x], "checkindex")

CheckIndex(c) ==
  /\ At(c, "checkindex")
  /\ IF indexes[Tab(c)][run[c].stmt.name] # None THEN End(c) ELSE Goto(c, "putindex")
  /\ UNCHANGED <<store, ghost>>

(* Variant: the rows already stored get no entry.                          *)
BackfillEarly(c) ==
  /\ At(c, "backfill") /\ Goto(c, "fill") /\ UNCHANGED <<store, ghost>>

PutIndex(c) ==
  /\ At(c, "putindex")
  /\ indexes' = [indexes EXCEPT ![Tab(c)][run[c].stmt.name] = run[c].stmt.col]
  /\ Goto(c, "backfill") /\ UNCHANGED <<schemas, data, entries, ghost>>

Backfill(c) ==
  /\ At(c, "backfill")
  /\ run' = [run EXCEPT ![c].at = "fill", ![c].todo = RowsIn(Tab(c))]
  /\ UNCHANGED <<store, ghost>>

FillRow(c) ==
  /\ At(c, "fill")
  /\ \/ run[c].todo = {} /\ End(c)
     \/ \E r \in run[c].todo :
          /\ \A q \in run[c].todo : r[1] <= q[1]
          /\ run' = [run EXCEPT ![c].at = "indexes", ![c].row = r, ![c].todo = @ \ {r}]
  /\ UNCHANGED <<store, ghost>>

(* DROP INDEX never comes with a table: the parser leaves it empty, and    *)
(* the first table that has an index of the name loses it.                 *)
StartDropIndex(c) == \E n \in Names :
  /\ At(c, "idle") /\ "dindex" \in Ops[c]
  /\ run' = [run EXCEPT ![c] = [Idle EXCEPT !.at = "findindex", !.stmt = [op |-> "dindex", name |-> n],
                                            !.todo = {t \in Tables : schemas[t] # None}]]
  /\ UNCHANGED <<store, ghost>>

FindIndex(c) ==
  /\ At(c, "findindex")
  /\ \/ run[c].todo = {} /\ End(c)
     \/ \E t \in run[c].todo :
          run' = [run EXCEPT
            ![c].todo = IF indexes[t][run[c].stmt.name] # None THEN {t} ELSE @ \ {t},
            ![c].at = IF indexes[t][run[c].stmt.name] # None THEN "dropindex" ELSE "findindex"]
  /\ UNCHANGED <<store, ghost>>

DropIndex(c) ==
  /\ At(c, "dropindex")
  /\ \E t \in run[c].todo :
       /\ indexes' = [indexes EXCEPT ![t][run[c].stmt.name] = None]
       /\ entries' = [entries EXCEPT ![t][run[c].stmt.name] = {}]
  /\ End(c) /\ UNCHANGED <<schemas, data, ghost>>

-----------------------------------------------------------------------------
(* ALTER TABLE and set_comment read the schema, change their copy and      *)
(* write all of it; stored rows stay as they are.                          *)

StartAlter(c) == \E t \in Tables, x \in Columns, op \in {"addcol", "dropcol"} :
  /\ schemas[t] # None /\ (x \in Cols(schemas[t]) <=> op = "dropcol")
  /\ Begin(c, [op |-> op, table |-> t, col |-> x], "putschema")

StartComment(c) == \E t \in Tables :
  schemas[t] # None /\ Begin(c, [op |-> "comment", table |-> t], "putschema")

(* Variant: the column before goes.                                        *)
WithoutLast(cols, i) == SubSeq(cols, 1, i - 2) \o SubSeq(cols, i, Len(cols))
Without(cols, i) == SubSeq(cols, 1, i - 1) \o SubSeq(cols, i + 1, Len(cols))

Edited(s, q) ==
  CASE q.op = "addcol"  -> [s EXCEPT !.cols = Append(@, q.col)]
    [] q.op = "dropcol" -> [s EXCEPT !.cols = Without(@, Pos(s, q.col))]
    [] q.op = "comment" -> [s EXCEPT !.comment = ~@]

(* update_schema writes only over a schema that is there.                  *)
PutSchema(c) ==
  /\ At(c, "putschema")
  /\ LET t == Tab(c) IN
     \/ schemas[t] = None /\ UNCHANGED <<schemas, altered>>
     \/ /\ schemas[t] # None
        /\ schemas' = [schemas EXCEPT ![t] = Edited(run[c].seen, run[c].stmt)]
        /\ altered' = IF schemas'[t].cols # NewColumns THEN altered \cup {t} ELSE altered
  /\ End(c) /\ UNCHANGED <<data, indexes, entries, made, imported, late, panicked>>

-----------------------------------------------------------------------------
Start(c) == \/ StartCreate(c) \/ StartDrop(c) \/ StartInsert(c) \/ StartDelete(c)
            \/ StartIndex(c) \/ StartDropIndex(c) \/ StartAlter(c) \/ StartComment(c)

Continue(c) ==
  \/ CreateTable(c) \/ DropTable(c)
  \/ ScanIds(c) \/ NextId(c) \/ Locate(c) \/ Probe(c) \/ WriteRow(c)
  \/ ListIndexes(c) \/ AddEntry(c)
  \/ ScanRows(c) \/ ListToRemove(c) \/ RemoveEntry(c) \/ DeleteRow(c)
  \/ CheckIndex(c) \/ PutIndex(c) \/ Backfill(c) \/ FillRow(c)
  \/ FindIndex(c) \/ DropIndex(c) \/ PutSchema(c)

Next == \E c \in Clients : Start(c) \/ Continue(c)

Spec == Init /\ [][Next]_vars

-----------------------------------------------------------------------------
(* Every variable has its type, and the frame of a client fits its step.   *)
TypeOK ==
  /\ schemas \in [Tables -> Schema \cup {None}]
  /\ data \in [Tables -> [Ids -> Row \cup {None}]]
  /\ \A t \in Tables, k \in Ids : data[t][k] # None => data[t][k][1] = k
  /\ indexes \in [Tables -> [Names -> Columns \cup {None}]]
  /\ entries \in [Tables -> [Names -> SUBSET (Value \X Ids)]]
  /\ run \in [Clients -> Frame]
  /\ made \in [Tables -> Nat] /\ altered \subseteq Tables /\ late \subseteq Tables
  /\ imported \subseteq Tables \X Ids /\ panicked \in BOOLEAN

(* CREATE INDEX publishes the metadata and then scans, INSERT writes the   *)
(* row and then reads the metadata: whichever order two of them run in,    *)
(* one sees the other.  When nobody is at work on a table, each of its     *)
(* rows has its entry in each of its indexes, so that an IndexScan misses  *)
(* none; the exceptions are rows the import handler wrote and tables whose *)
(* columns ALTER TABLE has changed.                                        *)
Busy(t) == \E c \in Clients : run[c].at # "idle" /\ (Op(c) = "dindex" \/ Tab(c) = t)
IndexComplete ==
  \A t \in Tables, n \in Names :
    schemas[t] # None /\ indexes[t][n] # None /\ t \notin altered /\ ~Busy(t) =>
      \A k \in Ids : data[t][k] # None /\ <<t, k>> \notin imported =>
        KeyIn(data[t][k], schemas[t], indexes[t][n]) \in entries[t][n]

(* The executor's table_exists says nothing of what create_table finds: of *)
(* the CREATE TABLE statements that race for a name, between two DROPs,    *)
(* exactly one creates the table.                                          *)
CreatedOnce == \A t \in Tables : made[t] = IF schemas[t] = None THEN 0 ELSE 1

(* The redb table of a dropped table stays and is opened again by the next *)
(* CREATE TABLE of the name: the new table is empty all the same, unless   *)
(* an INSERT that had found the old table wrote after the DROP.            *)
CreatedEmpty ==
  [][\A t \in Tables : schemas[t] = None /\ schemas'[t] # None /\ t \notin late
       => RowsIn(t) = {}]_vars

(* ALTER TABLE and set_comment write back a whole schema they read before: *)
(* a column goes away only by DROP COLUMN of that column, by DROP TABLE,   *)
(* or because the writer had read a schema that is no longer the stored    *)
(* one.                                                                    *)
ColumnsVanish ==
  [][\A t \in Tables, x \in Columns \cup {Pk} :
       schemas[t] # None /\ schemas'[t] # None
         /\ x \in Cols(schemas[t]) /\ x \notin Cols(schemas'[t]) =>
       \E c \in Clients : /\ At(c, "putschema") /\ Tab(c) = t
                          /\ \/ run[c].stmt = [op |-> "dropcol", table |-> t, col |-> x]
                             \/ run[c].seen # schemas[t]]_vars

(* Index maintenance reads the columns of the schema the statement has     *)
(* read out of rows other statements wrote: it runs past the end of a row  *)
(* only after some ALTER TABLE changed columns without the rows.           *)
PanicNeedsAlter == panicked => altered # {}
=============================================================================
