--------------------------- MODULE CatalogProofs ---------------------------
(***************************************************************************)
(* Theorems about Catalog, for any number of clients, tables, indexes,     *)
(* columns and values, whatever statements the clients run.                *)
(***************************************************************************)
EXTENDS Catalog, FiniteSetTheorems, SequenceTheorems, NaturalsInduction,
        WellFoundedInduction, TLAPS

-----------------------------------------------------------------------------
(* The operators the steps are built from.                                 *)

LEMMA StmtFields ==
  ASSUME NEW s \in Stmt
  PROVE  /\ s.op # "dindex" => s.table \in Tables
         /\ s.op \in {"insert", "import"} => s.id \in Ids \cup {NULL} /\ s.val \in Vals
         /\ s.op = "delete" => s.id \in Ids
         /\ s.op \in {"cindex", "addcol", "dropcol"} => s.col \in Columns
         /\ s.op \in {"cindex", "dindex"} => s.name \in Names
         /\ s.op # "none"
BY DEF Stmt

LEMMA SchemaCols ==
  ASSUME NEW s \in Schema
  PROVE  /\ s.cols \in ColSeqs /\ Len(s.cols) \in Nat \ {0} /\ DOMAIN s.cols = 1..Len(s.cols)
         /\ s.cols[1] = Pk /\ \A i \in 1..Len(s.cols) : s.cols[i] \in Columns \cup {Pk}
         /\ s \in [cols : ColSeqs, comment : BOOLEAN] /\ s # None
<1>1. s.cols \in Seq(Columns \cup {Pk}) /\ s.cols # <<>> /\ s.cols[1] = Pk
  BY DEF Schema, ColSeqs
<1> QED
  BY <1>1, SentinelAssumption DEF Schema

(* The position of a column is one of the schema's, the first if it is Pk. *)
LEMMA PosIn ==
  ASSUME NEW s \in Schema, NEW x \in Cols(s)
  PROVE  Pos(s, x) \in 1..Len(s.cols) /\ s.cols[Pos(s, x)] = x
BY SchemaCols DEF Pos, Cols

LEMMA RowFields ==
  ASSUME NEW r \in Row
  PROVE  /\ Len(r) \in Nat \ {0} /\ DOMAIN r = 1..Len(r) /\ r[1] \in Ids /\ r # None
         /\ \A i \in 1..Len(r) : r[i] \in Value
BY SentinelAssumption DEF Row

LEMMA RowForRow ==
  ASSUME NEW s \in Schema, NEW id \in Ids, NEW v \in Vals
  PROVE  RowFor(s, id, v) \in Row /\ RowFor(s, id, v)[1] = id /\ Len(RowFor(s, id, v)) = Len(s.cols)
<1> DEFINE n == Len(s.cols)
           r == [i \in 1..n |-> IF s.cols[i] = Pk THEN id
                                ELSE IF s.cols[i] = NewColumns[2] THEN v ELSE NULL]
<1>1. r = RowFor(s, id, v) /\ n \in Nat \ {0} /\ s.cols[1] = Pk
  BY SchemaCols DEF RowFor
<1>2. r \in [1..n -> Value]
  BY DEF Value
<1>3. r \in Seq(Value) /\ Len(r) = n
  <2> HIDE DEF r, n
  <2> QED
    BY <1>1, <1>2
<1>4. r[1] = id
  BY <1>1
<1> QED
  BY <1>1, <1>3, <1>4 DEF Row

LEMMA KeyInType ==
  ASSUME NEW r \in Row, NEW s \in Schema, NEW x \in Cols(s), ~TooShort(r, s, x)
  PROVE  KeyIn(r, s, x) \in Value \X Ids
BY RowFields, PosIn, SchemaCols DEF KeyIn, TooShort

(* The rows a scan returns.                                                *)
LEMMA RowsInRows ==
  ASSUME TypeOK, NEW t \in Tables
  PROVE  RowsIn(t) \subseteq Row /\ \A r \in RowsIn(t) : \E k \in Ids : data[t][k] = r /\ r # None
BY DEF RowsIn, TypeOK

LEMMA LessThanWellFounded == IsWellFoundedOn({p \in Nat \X Nat : p[1] < p[2]}, Nat)
BY NatLessThanWellFounded DEF OpToRel

(* get_next_auto_increment_id finds the largest key, 0 if none is above.   *)
LEMMA MaxOfType ==
  ASSUME NEW R \in SUBSET Row
  PROVE  MaxOf(R) \in {0} \cup 1..MaxId
<1> DEFINE P(m) == (m = 0 \/ \E r \in R : r[1] = m) /\ \A r \in R : r[1] <= m
           U == {m \in Nat : \A r \in R : r[1] <= m}
<1>1. \A r \in R : r[1] \in Int /\ r[1] <= MaxId
  BY RowFields, MaxIdAssumption DEF Ids
<1>2. MaxId \in U /\ U \subseteq Nat
  BY <1>1, MaxIdAssumption
<1>3. PICK m \in U : \A j \in U : <<j, m>> \notin {p \in Nat \X Nat : p[1] < p[2]}
  <2> HIDE DEF U
  <2> QED
    BY <1>2, LessThanWellFounded, WFMin
<1>4. m \in Nat /\ \A j \in U : m <= j
  <2>1. \A j \in Nat : <<j, m>> \in Nat \X Nat /\ <<j, m>>[1] = j /\ <<j, m>>[2] = m
    OBVIOUS
  <2>2. \A j \in U : j \in Nat /\ ~(j < m)
    <3> HIDE DEF U
    <3> QED
      BY <1>2, <1>3, <2>1
  <2> QED
    BY <1>2, <2>2
<1>5. m = 0 \/ \E r \in R : r[1] = m
  <2> SUFFICES ASSUME m # 0, \A r \in R : r[1] # m PROVE FALSE
    OBVIOUS
  <2>1. m - 1 \in U
    BY <1>1, <1>3, <1>4
  <2> QED
    BY <1>4, <2>1
<1>6. \E j \in {0} \cup 1..MaxId : P(j)
  BY <1>2, <1>4, <1>5, MaxIdAssumption
<1> QED
  BY <1>6 DEF MaxOf

-----------------------------------------------------------------------------
(* The inductive invariant.                                                *)

RowLabels == {"locate", "probe", "write", "indexes", "entry", "row", "unentry", "deleterow"}
TodoRows  == {"nextid", "locate", "probe", "write", "fill", "indexes", "entry"}
Readers   == {"insert", "import", "delete", "cindex", "addcol", "dropcol", "comment"}

(* A frame holds what its next call needs.                                 *)
FrameOK(f) ==
  /\ f.at # "idle" => f.stmt \in Stmt
  /\ f.at = "create" => f.stmt.op = "create"
  /\ f.at = "drop" => f.stmt.op = "drop"
  /\ f.at \in {"scanids", "nextid", "locate", "probe", "write"} => f.stmt.op \in {"insert", "import"}
  /\ f.at \in {"indexes", "entry"} => f.stmt.op \in {"insert", "cindex"}
  /\ f.at \in {"scan", "row", "unentry", "deleterow"} => f.stmt.op = "delete"
  /\ f.at \in {"checkindex", "putindex", "backfill", "fill"} => f.stmt.op = "cindex"
  /\ f.at \in {"findindex", "dropindex"} => f.stmt.op = "dindex"
  /\ f.at = "putschema" => f.stmt.op \in {"addcol", "dropcol", "comment"}
  /\ f.stmt.op \in Readers => f.seen \in Schema
  /\ f.stmt.op \in {"cindex", "dropcol"} => f.stmt.col \in Cols(f.seen)
  /\ f.at \in RowLabels => f.row \in Row
  /\ f.at \in TodoRows => f.todo \subseteq Row
  /\ f.at \in {"findindex", "dropindex"} => f.todo \subseteq Tables
  /\ f.at \in {"entry", "unentry"} =>
       \A d \in f.defs : d[1] = f.stmt.table /\ d[2] \in Names /\ d[3] \in Cols(f.seen)

(* Until an ALTER TABLE changes its columns, everything of a table has the *)
(* shape CREATE TABLE gave it, in the catalogue and in the frames.         *)
New == [cols |-> NewColumns, comment |-> FALSE]

FrameNew(f) ==
  f.stmt.op \in Readers /\ f.stmt.table \notin altered =>
    /\ f.seen.cols = NewColumns
    /\ f.at \in RowLabels => Len(f.row) = Len(NewColumns)
    /\ f.at \in TodoRows => \A r \in f.todo : Len(r) = Len(NewColumns)

TableNew(t) ==
  t \notin altered =>
    /\ schemas[t] # None => schemas[t].cols = NewColumns
    /\ \A k \in Ids : data[t][k] # None => Len(data[t][k]) = Len(NewColumns)
    /\ \A n \in Names : indexes[t][n] # None => indexes[t][n] \in Cols(New)

(* The statement in frame f is going to put the entry of row k into index  *)
(* n of table t, or is deleting the row.                                   *)
Covers(f, t, n, k) ==
  /\ f.stmt.op \in {"insert", "cindex", "delete"} /\ f.stmt.table = t
  /\ \/ /\ f.row = data[t][k]
        /\ f.at = "indexes" \/ (f.at = "entry" /\ <<t, n, indexes[t][n]>> \in f.defs)
     \/ /\ f.stmt.op = "cindex"
        /\ f.at = "backfill" \/ (f.at \in {"fill", "indexes", "entry"} /\ data[t][k] \in f.todo)
     \/ f.at \in {"unentry", "deleterow"} /\ f.row[1] = k

(* An entry that is missing is one some statement is responsible for.      *)
Covered ==
  \A t \in Tables \ altered, n \in Names, k \in Ids :
    indexes[t][n] # None /\ data[t][k] # None /\ <<t, k>> \notin imported =>
      \/ KeyIn(data[t][k], New, indexes[t][n]) \in entries[t][n]
      \/ \E c \in Clients : Covers(run[c], t, n, k)

FramesOK  == \A c \in Clients : FrameOK(run[c]) /\ FrameNew(run[c])
TablesNew == \A t \in Tables : TableNew(t)
NoLateRow == \A t \in Tables \ late, k \in Ids : schemas[t] = None => data[t][k] = None

IInv == /\ TypeOK /\ FramesOK /\ TablesNew /\ Covered
        /\ NoLateRow /\ CreatedOnce /\ PanicNeedsAlter

-----------------------------------------------------------------------------
(* Steps that write nothing: the client moves to frame f.                  *)

Moves(c, f) == /\ f \in Frame /\ FrameOK(f) /\ FrameNew(f)
               /\ run' = [run EXCEPT ![c] = f]

(* What the client was going to do it is still going to do.                *)
Keeps(f, g) ==
  \A t \in Tables \ altered, n \in Names, k \in Ids :
    indexes[t][n] # None /\ data[t][k] # None /\ Covers(f, t, n, k) => Covers(g, t, n, k)

LEMMA IdleOK ==
  /\ Idle \in Frame /\ FrameOK(Idle) /\ FrameNew(Idle)
  /\ \A t \in Tables, n \in Names, k \in Ids : ~Covers(Idle, t, n, k)
BY DEF Idle, NoStmt, Frame, Labels, FrameOK, FrameNew, Covers, Readers, RowLabels, TodoRows

(* The frame of a client, unfolded.                                        *)
LEMMA FrameFields ==
  ASSUME NEW f \in Frame
  PROVE  /\ f.at \in Labels /\ f.stmt \in Stmt \cup {NoStmt} /\ f.seen \in Schema \cup {None}
         /\ f.row \in Row \cup {None} /\ f.todo \in SUBSET (Row \cup Tables)
         /\ f.defs \in SUBSET (Tables \X Names \X Columns)
         /\ f = [at |-> f.at, stmt |-> f.stmt, seen |-> f.seen, row |-> f.row,
                 todo |-> f.todo, defs |-> f.defs]
BY DEF Frame

LEMMA MovesType ==
  ASSUME TypeOK, FramesOK, NEW c \in Clients, NEW f, Moves(c, f)
  PROVE  /\ run' \in [Clients -> Frame] /\ run'[c] = f
         /\ \A d \in Clients : d # c => run'[d] = run[d]
         /\ \A d \in Clients : FrameOK(run'[d]) /\ FrameNew(run'[d])
BY DEF TypeOK, FramesOK, Moves

LEMMA QuietStep ==
  ASSUME IInv, NEW c \in Clients, NEW f, Moves(c, f), Keeps(run[c], f),
         UNCHANGED <<store, ghost>>
  PROVE  IInv'
<1>1. /\ run' \in [Clients -> Frame] /\ run'[c] = f
      /\ \A d \in Clients : d # c => run'[d] = run[d]
      /\ \A d \in Clients : FrameOK(run'[d]) /\ FrameNew(run'[d])
  BY MovesType DEF IInv
<1>2. TypeOK' /\ NoLateRow' /\ CreatedOnce' /\ PanicNeedsAlter'
  <2>1. TypeOK'
    BY <1>1 DEF IInv, TypeOK, store, ghost
  <2>2. NoLateRow'
    BY DEF IInv, NoLateRow, store, ghost
  <2> QED
    BY <2>1, <2>2 DEF IInv, CreatedOnce, PanicNeedsAlter, store, ghost
<1>3. FramesOK' /\ TablesNew'
  BY <1>1 DEF IInv, FramesOK, TablesNew, TableNew, FrameNew, store, ghost
<1>4. Covered'
  <2> SUFFICES ASSUME NEW t \in Tables \ altered, NEW n \in Names, NEW k \in Ids,
                      indexes[t][n] # None, data[t][k] # None, <<t, k>> \notin imported,
                      KeyIn(data[t][k], New, indexes[t][n]) \notin entries[t][n]
               PROVE  \E d \in Clients : Covers(run'[d], t, n, k)
    BY DEF Covered, Covers, store, ghost
  <2>1. PICK d \in Clients : Covers(run[d], t, n, k)
    BY DEF IInv, Covered
  <2> QED
    BY <1>1, <2>1 DEF Keeps
<1> QED
  BY <1>2, <1>3, <1>4 DEF IInv

LEMMA FrameOf ==
  ASSUME IInv, NEW c \in Clients
  PROVE  run[c] \in Frame /\ FrameOK(run[c]) /\ FrameNew(run[c])
BY DEF IInv, TypeOK, FramesOK

(* A frame that covers nothing may become any other.                       *)
LEMMA KeepsNothing ==
  ASSUME NEW f, NEW g, f.at \notin {"indexes", "entry", "backfill", "fill", "unentry", "deleterow"}
  PROVE  Keeps(f, g)
BY DEF Keeps, Covers

LEMMA EndMoves ==
  ASSUME NEW c \in Clients, End(c)
  PROVE  Moves(c, Idle)
BY IdleOK DEF Moves, End

(* A statement that begins with a get_schema that found the table.         *)
LEMMA BeginStep ==
  ASSUME IInv, NEW c \in Clients, NEW s \in Stmt, NEW label \in Labels, Begin(c, s, label),
         s.table \in Tables, schemas[s.table] # None \/ s.op \notin Readers,
         label \notin RowLabels \cup TodoRows,
         s.op \in {"cindex", "dropcol"} => s.col \in Cols(schemas[s.table]),
         <<label, s.op>> \in {<<"create", "create">>, <<"drop", "drop">>, <<"scan", "delete">>,
           <<"checkindex", "cindex">>, <<"putschema", "addcol">>, <<"putschema", "dropcol">>,
           <<"putschema", "comment">>}
  PROVE  IInv'
<1> DEFINE f == [Idle EXCEPT !.at = label, !.stmt = s, !.seen = schemas[s.table]]
<1>1. schemas[s.table] \in Schema \cup {None} /\ TableNew(s.table)
  BY DEF IInv, TypeOK, TablesNew
<1>2. /\ f \in Frame /\ f.at = label /\ f.stmt = s /\ f.seen = schemas[s.table]
      /\ f.todo = {} /\ f.defs = {} /\ f.row = None
  BY <1>1, IdleOK DEF Idle, Frame
<1>3. Moves(c, f) /\ UNCHANGED <<store, ghost>> /\ run[c].at = "idle"
  <2> HIDE DEF f
  <2>1. FrameOK(f)
    BY <1>1, <1>2 DEF FrameOK, RowLabels, TodoRows, Readers
  <2>2. FrameNew(f)
    BY <1>1, <1>2 DEF FrameNew, TableNew, RowLabels, TodoRows, Readers
  <2>3. run' = [run EXCEPT ![c] = f] /\ UNCHANGED <<store, ghost>> /\ run[c].at = "idle"
    BY DEF f, Begin, At
  <2> QED
    BY <1>2, <2>1, <2>2, <2>3 DEF Moves
<1> QED
  BY <1>3, KeepsNothing, QuietStep

LEMMA StartCreateStep == ASSUME IInv, NEW c \in Clients, StartCreate(c) PROVE IInv'
<1>1. PICK t \in Tables : Begin(c, [op |-> "create", table |-> t], "create")
  BY DEF StartCreate
<1> QED
  BY <1>1, BeginStep DEF Stmt, Labels, RowLabels, TodoRows, Readers

LEMMA StartDropStep == ASSUME IInv, NEW c \in Clients, StartDrop(c) PROVE IInv'
<1>1. PICK t \in Tables : schemas[t] # None /\ Begin(c, [op |-> "drop", table |-> t], "drop")
  BY DEF StartDrop
<1> QED
  BY <1>1, BeginStep DEF Stmt, Labels, RowLabels, TodoRows, Readers

LEMMA StartDeleteStep == ASSUME IInv, NEW c \in Clients, StartDelete(c) PROVE IInv'
<1>1. PICK t \in Tables, id \in 1..MaxId :
        schemas[t] # None /\ Begin(c, [op |-> "delete", table |-> t, id |-> id], "scan")
  BY DEF StartDelete
<1> QED
  BY <1>1, BeginStep DEF Stmt, Labels, RowLabels, TodoRows, Readers, Ids

LEMMA StartIndexStep == ASSUME IInv, NEW c \in Clients, StartIndex(c) PROVE IInv'
<1>1. PICK t \in Tables, n \in Names, x \in Columns :
        /\ schemas[t] # None /\ x \in Cols(schemas[t])
        /\ Begin(c, [op |-> "cindex", table |-> t, name |-> n, col |-> x], "checkindex")
  BY DEF StartIndex
<1> QED
  BY <1>1, BeginStep DEF Stmt, Labels, RowLabels, TodoRows, Readers

LEMMA StartAlterStep == ASSUME IInv, NEW c \in Clients, StartAlter(c) PROVE IInv'
<1>1. PICK t \in Tables, x \in Columns, op \in {"addcol", "dropcol"} :
        /\ schemas[t] # None /\ (x \in Cols(schemas[t]) <=> op = "dropcol")
        /\ Begin(c, [op |-> op, table |-> t, col |-> x], "putschema")
  BY DEF StartAlter
<1> QED
  BY <1>1, BeginStep DEF Stmt, Labels, RowLabels, TodoRows, Readers

LEMMA StartCommentStep == ASSUME IInv, NEW c \in Clients, StartComment(c) PROVE IInv'
<1>1. PICK t \in Tables : schemas[t] # None /\ Begin(c, [op |-> "comment", table |-> t], "putschema")
  BY DEF StartComment
<1> QED
  BY <1>1, BeginStep DEF Stmt, Labels, RowLabels, TodoRows, Readers

LEMMA StartInsertStep == ASSUME IInv, NEW c \in Clients, StartInsert(c) PROVE IInv'
<1>1. PICK t \in Tables, id \in (1..MaxId) \cup {NULL}, v \in Vals, op \in {"insert", "import"} :
        /\ schemas[t] # None /\ op \in Ops[c] /\ (op = "import" => id # NULL)
        /\ At(c, "idle")
        /\ run' = [run EXCEPT ![c] =
             [Idle EXCEPT !.at = IF id = NULL THEN "scanids" ELSE "locate",
                    !.stmt = [op |-> op, table |-> t, id |-> id, val |-> v],
                    !.seen = schemas[t], !.row = IF id = NULL THEN None
                                                 ELSE RowFor(schemas[t], id, v)]]
        /\ UNCHANGED <<store, ghost>>
  BY Zenon DEF StartInsert
<1> DEFINE f == [Idle EXCEPT !.at = IF id = NULL THEN "scanids" ELSE "locate",
                    !.stmt = [op |-> op, table |-> t, id |-> id, val |-> v],
                    !.seen = schemas[t], !.row = IF id = NULL THEN None
                                                 ELSE RowFor(schemas[t], id, v)]
<1>2. schemas[t] \in Schema /\ schemas[t] # None /\ TableNew(t)
  BY <1>1 DEF IInv, TypeOK, TablesNew
<1>3. id # NULL => /\ RowFor(schemas[t], id, v) \in Row
                   /\ Len(RowFor(schemas[t], id, v)) = Len(schemas[t].cols)
  BY <1>2, RowForRow DEF Ids
<1>4. [op |-> op, table |-> t, id |-> id, val |-> v] \in Stmt
  BY DEF Stmt, Ids
<1>5. /\ f.at \in {"scanids", "locate"} /\ f.stmt = [op |-> op, table |-> t, id |-> id, val |-> v]
      /\ f.seen = schemas[t] /\ f.todo = {} /\ f.defs = {} /\ f \in Frame
      /\ f.at = "locate" => f.row = RowFor(schemas[t], id, v) /\ id # NULL
  BY <1>2, <1>3, <1>4 DEF Idle, Frame, Labels
<1>6. Moves(c, f)
  <2>1. run' = [run EXCEPT ![c] = f]
    BY <1>1
  <2> HIDE DEF f
  <2>2. FrameOK(f)
    BY <1>2, <1>3, <1>4, <1>5 DEF FrameOK, RowLabels, TodoRows, Readers
  <2>3. FrameNew(f)
    BY <1>2, <1>3, <1>5 DEF FrameNew, TableNew, RowLabels, TodoRows, Readers
  <2> QED
    BY <1>5, <2>1, <2>2, <2>3 DEF Moves
<1>7. Keeps(run[c], f)
  BY <1>1, KeepsNothing DEF At
<1> QED
  BY <1>1, <1>6, <1>7, QuietStep

(* The rows of an unaltered table have the width of NewColumns.            *)
LEMMA RowsInNew ==
  ASSUME IInv, NEW t \in Tables
  PROVE  /\ RowsIn(t) \subseteq Row
         /\ t \notin altered => \A r \in RowsIn(t) : Len(r) = Len(NewColumns)
<1>1. TypeOK /\ TableNew(t)
  BY DEF IInv, TablesNew
<1> QED
  BY <1>1, RowsInRows DEF TableNew

LEMMA ScanIdsStep == ASSUME IInv, NEW c \in Clients, ScanIds(c) PROVE IInv'
<1> DEFINE f == [run[c] EXCEPT !.at = "nextid", !.todo = RowsIn(Tab(c))]
<1>1. run[c] \in Frame /\ FrameOK(run[c]) /\ FrameNew(run[c])
  BY FrameOf
<1>2. /\ run[c].at = "scanids" /\ run' = [run EXCEPT ![c] = f] /\ UNCHANGED <<store, ghost>>
      /\ run[c].stmt \in Stmt /\ run[c].stmt.op \in {"insert", "import"} /\ Tab(c) \in Tables
  BY <1>1, StmtFields DEF ScanIds, At, Tab, IInv, TypeOK, FrameOK
<1>3. /\ RowsIn(Tab(c)) \subseteq Row
      /\ Tab(c) \notin altered => \A r \in RowsIn(Tab(c)) : Len(r) = Len(NewColumns)
  BY <1>2, RowsInNew
<1>4. f \in Frame /\ f.at = "nextid" /\ f.todo = RowsIn(Tab(c)) /\ f.stmt = run[c].stmt /\ f.seen = run[c].seen
  BY <1>1, <1>3 DEF Frame, Labels
<1>5. Moves(c, f)
  <2> HIDE DEF f
  <2>1. FrameOK(f)
    BY <1>1, <1>2, <1>3, <1>4 DEF FrameOK, RowLabels, TodoRows, Readers
  <2>2. FrameNew(f)
    BY <1>1, <1>2, <1>3, <1>4 DEF FrameNew, RowLabels, TodoRows, Readers, Tab
  <2> QED
    BY <1>2, <1>4, <2>1, <2>2 DEF Moves
<1> QED
  BY <1>2, <1>5, KeepsNothing, QuietStep

LEMMA NextIdStep == ASSUME IInv, NEW c \in Clients, NextId(c) PROVE IInv'
<1>1. run[c] \in Frame /\ FrameOK(run[c]) /\ FrameNew(run[c]) /\ run[c].at = "nextid"
  BY FrameOf DEF NextId, At
<1>2. /\ run[c].stmt \in Stmt /\ run[c].stmt.op \in {"insert", "import"} /\ run[c].stmt.val \in Vals
      /\ run[c].seen \in Schema /\ run[c].todo \subseteq Row /\ UNCHANGED <<store, ghost>>
  BY <1>1, StmtFields DEF NextId, FrameOK, Readers, TodoRows
<1>3. CASE End(c)
  BY <1>1, <1>2, <1>3, EndMoves, KeepsNothing, QuietStep
<1>4. ASSUME NEW m \in {0} \cup 1..MaxId,
             run' = [run EXCEPT ![c].at = "locate", ![c].todo = {},
             ![c].row = RowFor(run[c].seen, IF m = MaxId THEN -MaxId - 1 ELSE m + 1,
                               run[c].stmt.val)]
      PROVE  IInv'
  <2> DEFINE id == IF m = MaxId THEN -MaxId - 1 ELSE m + 1
             r == RowFor(run[c].seen, id, run[c].stmt.val)
             f == [run[c] EXCEPT !.at = "locate", !.todo = {}, !.row = r]
  <2>1. id \in Ids
    BY MaxIdAssumption DEF Ids
  <2>2. r \in Row /\ Len(r) = Len(run[c].seen.cols)
    <3> HIDE DEF id
    <3> QED
      BY <1>2, <2>1, RowForRow
  <2>3. /\ f \in Frame /\ f.at = "locate" /\ f.todo = {} /\ f.stmt = run[c].stmt
        /\ f.seen = run[c].seen /\ f.row = r
    <3> HIDE DEF r
    <3> QED
      BY <1>1, <2>2 DEF Frame, Labels
  <2>4. run' = [run EXCEPT ![c] = f]
    BY <1>4 DEF IInv, TypeOK
  <2>5. Moves(c, f)
    <3> HIDE DEF f, r
    <3>1. FrameOK(f)
      BY <1>1, <1>2, <2>2, <2>3 DEF FrameOK, RowLabels, TodoRows, Readers
    <3>2. FrameNew(f)
      BY <1>1, <1>2, <2>2, <2>3 DEF FrameNew, RowLabels, TodoRows, Readers
    <3> QED
      BY <2>3, <2>4, <3>1, <3>2 DEF Moves
  <2> QED
    BY <1>1, <1>2, <2>5, KeepsNothing, QuietStep
<1>5. MaxOf(run[c].todo) \in {0} \cup 1..MaxId
  BY <1>2, MaxOfType
<1> QED
  BY <1>3, <1>4, <1>5 DEF NextId

LEMMA GotoMoves ==
  ASSUME IInv, NEW c \in Clients, NEW label \in Labels, Goto(c, label),
         <<run[c].at, label>> \in {<<"locate", "probe">>, <<"probe", "write">>,
           <<"checkindex", "putindex">>, <<"putindex", "backfill">>}
  PROVE  Moves(c, [run[c] EXCEPT !.at = label])
<1> DEFINE f == [run[c] EXCEPT !.at = label]
<1>1. run[c] \in Frame /\ FrameOK(run[c]) /\ FrameNew(run[c])
  BY FrameOf
<1>2. /\ f \in Frame /\ f.at = label /\ f.stmt = run[c].stmt
      /\ f.seen = run[c].seen /\ f.row = run[c].row /\ f.todo = run[c].todo
  BY <1>1 DEF Frame
<1>3. run' = [run EXCEPT ![c] = f]
  BY DEF Goto, IInv, TypeOK
<1>4. FrameOK(f) /\ FrameNew(f)
  <2> HIDE DEF f
  <2> QED
    BY <1>1, <1>2 DEF FrameOK, FrameNew, RowLabels, TodoRows, Readers
<1> QED
  BY <1>2, <1>3, <1>4 DEF Moves

LEMMA LocateStep == ASSUME IInv, NEW c \in Clients, Locate(c) PROVE IInv'
<1>1. run[c] \in Frame /\ FrameOK(run[c]) /\ run[c].at = "locate" /\ UNCHANGED <<store, ghost>>
  BY FrameOf DEF Locate, At
<1>2. CASE End(c)
  BY <1>1, <1>2, EndMoves, KeepsNothing, QuietStep
<1>3. CASE Goto(c, "probe")
  <2>1. Moves(c, [run[c] EXCEPT !.at = "probe"])
    BY <1>1, <1>3, GotoMoves DEF Labels
  <2> QED
    BY <1>1, <2>1, KeepsNothing, QuietStep
<1> QED
  BY <1>2, <1>3 DEF Locate

LEMMA ProbeStep == ASSUME IInv, NEW c \in Clients, Probe(c) PROVE IInv'
<1>1. run[c] \in Frame /\ FrameOK(run[c]) /\ run[c].at = "probe" /\ UNCHANGED <<store, ghost>>
  BY FrameOf DEF Probe, At
<1>2. CASE End(c)
  BY <1>1, <1>2, EndMoves, KeepsNothing, QuietStep
<1>3. CASE Goto(c, "write")
  <2>1. Moves(c, [run[c] EXCEPT !.at = "write"])
    BY <1>1, <1>3, GotoMoves DEF Labels
  <2> QED
    BY <1>1, <2>1, KeepsNothing, QuietStep
<1> QED
  BY <1>2, <1>3 DEF Probe

LEMMA CheckIndexStep == ASSUME IInv, NEW c \in Clients, CheckIndex(c) PROVE IInv'
<1>1. run[c] \in Frame /\ FrameOK(run[c]) /\ run[c].at = "checkindex" /\ UNCHANGED <<store, ghost>>
  BY FrameOf DEF CheckIndex, At
<1>2. CASE End(c)
  BY <1>1, <1>2, EndMoves, KeepsNothing, QuietStep
<1>3. CASE Goto(c, "putindex")
  <2>1. Moves(c, [run[c] EXCEPT !.at = "putindex"])
    BY <1>1, <1>3, GotoMoves DEF Labels
  <2> QED
    BY <1>1, <2>1, KeepsNothing, QuietStep
<1> QED
  BY <1>2, <1>3 DEF CheckIndex

LEMMA ScanRowsStep == ASSUME IInv, NEW c \in Clients, ScanRows(c) PROVE IInv'
<1>1. /\ run[c] \in Frame /\ FrameOK(run[c]) /\ FrameNew(run[c]) /\ run[c].at = "scan"
      /\ UNCHANGED <<store, ghost>>
  BY FrameOf DEF ScanRows, At
<1>2. CASE End(c)
  BY <1>1, <1>2, EndMoves, KeepsNothing, QuietStep
<1>3. ASSUME NEW r, r = data[Tab(c)][run[c].stmt.id], r # None,
             run' = [run EXCEPT ![c].at = "row", ![c].row = r]
      PROVE  IInv'
  <2> DEFINE f == [run[c] EXCEPT !.at = "row", !.row = r]
  <2>1. run[c].stmt \in Stmt /\ run[c].stmt.op = "delete" /\ Tab(c) \in Tables /\ run[c].stmt.id \in Ids
    BY <1>1, StmtFields DEF FrameOK, Tab
  <2>2. r \in Row /\ (Tab(c) \notin altered => Len(r) = Len(NewColumns))
    BY <1>3, <2>1 DEF IInv, TypeOK, TablesNew, TableNew
  <2>3. f \in Frame /\ f.at = "row" /\ f.row = r /\ f.stmt = run[c].stmt /\ f.seen = run[c].seen
    BY <1>1, <2>2 DEF Frame, Labels
  <2>4. run' = [run EXCEPT ![c] = f]
    BY <1>3 DEF IInv, TypeOK
  <2>5. Moves(c, f)
    <3> HIDE DEF f
    <3>1. FrameOK(f)
      BY <1>1, <2>1, <2>2, <2>3 DEF FrameOK, RowLabels, TodoRows, Readers
    <3>2. FrameNew(f)
      BY <1>1, <2>1, <2>2, <2>3 DEF FrameNew, RowLabels, TodoRows, Readers, Tab
    <3> QED
      BY <2>3, <2>4, <3>1, <3>2 DEF Moves
  <2> QED
    BY <1>1, <2>5, KeepsNothing, QuietStep
<1> QED
  BY <1>2, <1>3 DEF ScanRows

(* The index definitions a statement reads.                                *)
LEMMA DefsType ==
  ASSUME IInv, NEW t \in Tables
  PROVE  /\ Defs(t) \in SUBSET (Tables \X Names \X Columns)
         /\ \A d \in Defs(t) : d[1] = t /\ d[2] \in Names
BY DEF Defs, IInv, TypeOK

LEMMA ListToRemoveStep == ASSUME IInv, NEW c \in Clients, ListToRemove(c) PROVE IInv'
<1> DEFINE ds == {d \in Defs(Tab(c)) : d[3] \in Cols(run[c].seen)}
           f == [run[c] EXCEPT !.at = IF ds = {} THEN "deleterow" ELSE "unentry", !.defs = ds]
<1>1. /\ run[c] \in Frame /\ FrameOK(run[c]) /\ FrameNew(run[c]) /\ run[c].at = "row"
      /\ UNCHANGED <<store, ghost>>
  BY FrameOf DEF ListToRemove, At
<1>2. run' = [run EXCEPT ![c] = f]
  BY DEF ListToRemove, IInv, TypeOK
<1>3. run[c].stmt \in Stmt /\ run[c].stmt.op = "delete" /\ Tab(c) = run[c].stmt.table /\ Tab(c) \in Tables
  BY <1>1, StmtFields DEF FrameOK, Tab
<1>4. /\ ds \in SUBSET (Tables \X Names \X Columns)
      /\ \A d \in ds : d[1] = Tab(c) /\ d[2] \in Names /\ d[3] \in Cols(run[c].seen)
  BY <1>3, DefsType
<1>5. /\ f \in Frame /\ f.at \in {"deleterow", "unentry"} /\ f.row = run[c].row /\ f.defs = ds
      /\ f.stmt = run[c].stmt /\ f.seen = run[c].seen
  BY <1>1, <1>4 DEF Frame, Labels
<1>6. Moves(c, f)
  <2> HIDE DEF f, ds
  <2>1. FrameOK(f)
    BY <1>1, <1>3, <1>4, <1>5 DEF FrameOK, RowLabels, TodoRows, Readers
  <2>2. FrameNew(f)
    BY <1>1, <1>5 DEF FrameNew, RowLabels, TodoRows, Readers
  <2> QED
    BY <1>2, <1>5, <2>1, <2>2 DEF Moves
<1> QED
  BY <1>1, <1>6, KeepsNothing, QuietStep

LEMMA StartDropIndexStep == ASSUME IInv, NEW c \in Clients, StartDropIndex(c) PROVE IInv'
<1>1. PICK n \in Names :
        /\ At(c, "idle") /\ "dindex" \in Ops[c]
        /\ run' = [run EXCEPT ![c] = [Idle EXCEPT !.at = "findindex", !.stmt = [op |-> "dindex", name |-> n],
                                            !.todo = {t \in Tables : schemas[t] # None}]]
        /\ UNCHANGED <<store, ghost>>
  BY Zenon DEF StartDropIndex
<1> DEFINE f == [Idle EXCEPT !.at = "findindex", !.stmt = [op |-> "dindex", name |-> n],
                             !.todo = {t \in Tables : schemas[t] # None}]
<1>2. /\ f \in Frame /\ f.at = "findindex" /\ f.stmt = [op |-> "dindex", name |-> n]
      /\ f.todo \subseteq Tables /\ f.stmt \in Stmt
  BY DEF Frame, Labels, Idle, Stmt
<1>3. Moves(c, f)
  <2>1. run' = [run EXCEPT ![c] = f]
    BY <1>1
  <2> HIDE DEF f
  <2> QED
    BY <1>2, <2>1 DEF Moves, FrameOK, FrameNew, RowLabels, TodoRows, Readers
<1> QED
  BY <1>1, <1>3, KeepsNothing, QuietStep DEF At

LEMMA FindIndexStep == ASSUME IInv, NEW c \in Clients, FindIndex(c) PROVE IInv'
<1>1. /\ run[c] \in Frame /\ FrameOK(run[c]) /\ run[c].at = "findindex"
      /\ UNCHANGED <<store, ghost>>
  BY FrameOf DEF FindIndex, At
<1>2. CASE End(c)
  BY <1>1, <1>2, EndMoves, KeepsNothing, QuietStep
<1>3. ASSUME NEW T \in SUBSET Tables, NEW l \in {"dropindex", "findindex"},
             run' = [run EXCEPT ![c].todo = T, ![c].at = l]
      PROVE  IInv'
  <2> DEFINE f == [run[c] EXCEPT !.todo = T, !.at = l]
  <2>1. f \in Frame /\ f.at = l /\ f.todo = T /\ f.stmt = run[c].stmt /\ f.seen = run[c].seen
    BY <1>1 DEF Frame, Labels
  <2>2. Moves(c, f)
    <3>1. run' = [run EXCEPT ![c] = f]
      BY <1>3 DEF IInv, TypeOK
    <3> HIDE DEF f
    <3> QED
      BY <1>1, <2>1, <3>1 DEF Moves, FrameOK, FrameNew, RowLabels, TodoRows, Readers
  <2> QED
    BY <1>1, <2>2, KeepsNothing, QuietStep
<1>4. run[c].todo \subseteq Tables
  BY <1>1 DEF FrameOK
<1> QED
  BY <1>2, <1>3, <1>4 DEF FindIndex

-----------------------------------------------------------------------------
(* CREATE INDEX on its way through the rows.                               *)

LEMMA BackfillStep == ASSUME IInv, NEW c \in Clients, Backfill(c) PROVE IInv'
<1> DEFINE f == [run[c] EXCEPT !.at = "fill", !.todo = RowsIn(Tab(c))]
<1>1. /\ run[c] \in Frame /\ FrameOK(run[c]) /\ FrameNew(run[c]) /\ run[c].at = "backfill"
      /\ UNCHANGED <<store, ghost>> /\ run' = [run EXCEPT ![c] = f]
  BY FrameOf DEF Backfill, At, IInv, TypeOK
<1>2. run[c].stmt \in Stmt /\ run[c].stmt.op = "cindex" /\ Tab(c) = run[c].stmt.table /\ Tab(c) \in Tables
  BY <1>1, StmtFields DEF FrameOK, Tab
<1>3. /\ RowsIn(Tab(c)) \subseteq Row
      /\ Tab(c) \notin altered => \A r \in RowsIn(Tab(c)) : Len(r) = Len(NewColumns)
  BY <1>2, RowsInNew
<1>4. /\ f \in Frame /\ f.at = "fill" /\ f.todo = RowsIn(Tab(c)) /\ f.stmt = run[c].stmt
      /\ f.seen = run[c].seen
  BY <1>1, <1>3 DEF Frame, Labels
<1> HIDE DEF f
<1>5. Moves(c, f)
  <2>1. FrameOK(f)
    BY <1>1, <1>2, <1>3, <1>4 DEF FrameOK, RowLabels, TodoRows, Readers
  <2>2. FrameNew(f)
    BY <1>1, <1>2, <1>3, <1>4 DEF FrameNew, RowLabels, TodoRows, Readers, Tab
  <2> QED
    BY <1>1, <1>4, <2>1, <2>2 DEF Moves
<1>6. Keeps(run[c], f)
  BY <1>1, <1>2, <1>4 DEF Keeps, Covers, RowsIn
<1> QED
  BY <1>1, <1>5, <1>6, QuietStep

LEMMA FillRowStep == ASSUME IInv, NEW c \in Clients, FillRow(c) PROVE IInv'
<1>1. /\ run[c] \in Frame /\ FrameOK(run[c]) /\ FrameNew(run[c]) /\ run[c].at = "fill"
      /\ UNCHANGED <<store, ghost>>
  BY FrameOf DEF FillRow, At
<1>2. run[c].stmt \in Stmt /\ run[c].stmt.op = "cindex" /\ run[c].todo \subseteq Row
  BY <1>1 DEF FrameOK, TodoRows
<1>3. CASE run[c].todo = {} /\ End(c)
  <2>1. Keeps(run[c], Idle)
    BY <1>1, <1>3 DEF Keeps, Covers
  <2> QED
    BY <1>1, <1>3, <2>1, EndMoves, QuietStep
<1>4. ASSUME NEW r \in run[c].todo,
             run' = [run EXCEPT ![c].at = "indexes", ![c].row = r, ![c].todo = @ \ {r}]
      PROVE  IInv'
  <2> DEFINE f == [run[c] EXCEPT !.at = "indexes", !.row = r, !.todo = @ \ {r}]
  <2>1. run' = [run EXCEPT ![c] = f]
    BY <1>4 DEF IInv, TypeOK
  <2>2. /\ f \in Frame /\ f.at = "indexes" /\ f.row = r /\ f.todo = run[c].todo \ {r}
        /\ f.stmt = run[c].stmt /\ f.seen = run[c].seen
    BY <1>1, <1>2 DEF Frame, Labels
  <2> HIDE DEF f
  <2>3. FrameOK(f)
    BY <1>1, <1>2, <2>2 DEF FrameOK, RowLabels, TodoRows, Readers
  <2>4. FrameNew(f)
    BY <1>1, <1>2, <2>2 DEF FrameNew, RowLabels, TodoRows, Readers
  <2>5. Keeps(run[c], f)
    BY <1>1, <1>2, <2>2 DEF Keeps, Covers
  <2> QED
    BY <1>1, <2>1, <2>2, <2>3, <2>4, <2>5, QuietStep DEF Moves
<1> QED
  BY <1>3, <1>4 DEF FillRow

(* The entry of row k for index n is the one the frame is about to put.    *)
InHand(f, t, n, k) ==
  f.row = data[t][k] /\ (f.at = "entry" => <<t, n, indexes[t][n]>> \in f.defs)

(* What CREATE INDEX does after a row, or INSERT at its end.               *)
LEMMA AfterRowMoves ==
  ASSUME IInv, NEW c \in Clients, run[c].at \in {"indexes", "entry"}, AfterRow(c)
  PROVE  \E g : /\ Moves(c, g)
                /\ \A t \in Tables, n \in Names, k \in Ids :
                     Covers(run[c], t, n, k) => Covers(g, t, n, k) \/ InHand(run[c], t, n, k)
<1>1. /\ run[c] \in Frame /\ FrameOK(run[c]) /\ FrameNew(run[c])
      /\ run[c].stmt \in Stmt /\ run[c].stmt.op \in {"insert", "cindex"} /\ run[c].todo \subseteq Row
  BY FrameOf DEF FrameOK, TodoRows
<1>2. CASE run[c].stmt.op = "insert"
  <2>1. End(c)
    BY <1>2 DEF AfterRow, Op
  <2> QED
    BY <1>2, <2>1, EndMoves DEF Covers, InHand
<1>3. CASE run[c].stmt.op = "cindex"
  <2> DEFINE f == [run[c] EXCEPT !.at = "fill", !.row = None, !.defs = {}]
  <2>1. run' = [run EXCEPT ![c] = f]
    BY <1>3 DEF AfterRow, Op, IInv, TypeOK
  <2>2. /\ f \in Frame /\ f.at = "fill" /\ f.todo = run[c].todo
        /\ f.stmt = run[c].stmt /\ f.seen = run[c].seen
    BY <1>1 DEF Frame, Labels
  <2> HIDE DEF f
  <2>3. FrameOK(f)
    BY <1>1, <1>3, <2>2 DEF FrameOK, RowLabels, TodoRows, Readers
  <2>4. FrameNew(f)
    BY <1>1, <1>3, <2>2 DEF FrameNew, RowLabels, TodoRows, Readers
  <2>5. \A t \in Tables, n \in Names, k \in Ids :
          Covers(run[c], t, n, k) => Covers(f, t, n, k) \/ InHand(run[c], t, n, k)
    BY <1>1, <1>3, <2>2 DEF Covers, InHand
  <2> QED
    BY <2>1, <2>2, <2>3, <2>4, <2>5 DEF Moves
<1> QED
  BY <1>1, <1>2, <1>3

LEMMA ListIndexesStep == ASSUME IInv, NEW c \in Clients, ListIndexes(c) PROVE IInv'
<1> DEFINE ds == {d \in Defs(Tab(c)) : d[3] \in Cols(run[c].seen)}
           f == [run[c] EXCEPT !.at = "entry", !.defs = ds]
<1>1. /\ run[c] \in Frame /\ FrameOK(run[c]) /\ FrameNew(run[c]) /\ run[c].at = "indexes"
      /\ UNCHANGED <<store, ghost>>
  BY FrameOf DEF ListIndexes, At
<1>2. /\ run[c].stmt \in Stmt /\ run[c].stmt.op \in {"insert", "cindex"}
      /\ Tab(c) = run[c].stmt.table /\ Tab(c) \in Tables /\ run[c].seen \in Schema
  BY <1>1, StmtFields DEF FrameOK, Tab, Readers
<1>3. /\ ds \in SUBSET (Tables \X Names \X Columns)
      /\ \A d \in ds : d[1] = Tab(c) /\ d[2] \in Names /\ d[3] \in Cols(run[c].seen)
  BY <1>2, DefsType
(* An index of an unaltered table is on a column the statement knows.      *)
<1>4. Tab(c) \notin altered =>
        \A n \in Names : indexes[Tab(c)][n] # None => <<Tab(c), n, indexes[Tab(c)][n]>> \in ds
  <2>1. Tab(c) \notin altered => Cols(run[c].seen) = Cols(New)
    BY <1>1, <1>2 DEF FrameNew, Readers, Cols, New
  <2>2. TableNew(Tab(c))
    BY <1>2 DEF IInv, TablesNew
  <2> QED
    BY <2>1, <2>2 DEF TableNew, Defs
<1>5. CASE ds = {} /\ AfterRow(c)
  <2>1. PICK g : /\ Moves(c, g)
                 /\ \A t \in Tables, n \in Names, k \in Ids :
                     Covers(run[c], t, n, k) => Covers(g, t, n, k) \/ InHand(run[c], t, n, k)
    BY <1>1, <1>5, AfterRowMoves
  <2>2. Keeps(run[c], g)
    <3> SUFFICES ASSUME NEW t \in Tables \ altered, NEW n \in Names, NEW k \in Ids,
                        indexes[t][n] # None, Covers(run[c], t, n, k)
                 PROVE  FALSE
      BY DEF Keeps
    <3> QED
      BY <1>2, <1>4, <1>5 DEF Covers
  <2> QED
    BY <1>1, <2>1, <2>2, QuietStep
<1>6. CASE ds # {} /\ run' = [run EXCEPT ![c].at = "entry", ![c].defs = ds]
  <2>1. run' = [run EXCEPT ![c] = f]
    BY <1>6 DEF IInv, TypeOK
  <2>2. /\ f \in Frame /\ f.at = "entry" /\ f.row = run[c].row /\ f.todo = run[c].todo
        /\ f.defs = ds /\ f.stmt = run[c].stmt /\ f.seen = run[c].seen
    BY <1>1, <1>3 DEF Frame, Labels
  <2> HIDE DEF f, ds
  <2>3. FrameOK(f)
    BY <1>1, <1>2, <1>3, <2>2 DEF FrameOK, RowLabels, TodoRows, Readers
  <2>4. FrameNew(f)
    BY <1>1, <2>2 DEF FrameNew, RowLabels, TodoRows, Readers
  <2>5. Keeps(run[c], f)
    BY <1>1, <1>2, <1>4, <2>2 DEF Keeps, Covers
  <2> QED
    BY <1>1, <2>1, <2>2, <2>3, <2>4, <2>5, QuietStep DEF Moves
<1> QED
  BY <1>5, <1>6 DEF ListIndexes

-----------------------------------------------------------------------------
(* Steps that write.                                                       *)

(* Two schemas with the same columns give a row the same key.              *)
LEMMA SameKey ==
  ASSUME NEW r, NEW s, NEW q, NEW x, s.cols = q.cols
  PROVE  KeyIn(r, s, x) = KeyIn(r, q, x) /\ (TooShort(r, s, x) <=> TooShort(r, q, x))
BY DEF KeyIn, TooShort, Pos

LEMMA NewSchema == New \in Schema
BY ColumnsAssumption DEF New, Schema

(* Rows and columns of an unaltered table fit: no statement reads past the *)
(* end of a row.                                                           *)
LEMMA RowFits ==
  ASSUME IInv, NEW c \in Clients, run[c].at \in {"entry", "unentry"}, NEW d \in run[c].defs,
         run[c].stmt.table \notin altered
  PROVE  ~TooShort(run[c].row, run[c].seen, d[3])
<1>1. /\ run[c].stmt.op \in Readers /\ run[c].row \in Row /\ run[c].seen \in Schema
      /\ d[3] \in Cols(run[c].seen)
      /\ run[c].seen.cols = NewColumns /\ Len(run[c].row) = Len(NewColumns)
  BY FrameOf DEF FrameOK, FrameNew, Readers, RowLabels
<1>2. Pos(run[c].seen, d[3]) \in 1..Len(NewColumns)
  BY <1>1, PosIn
<1> QED
  BY <1>1, <1>2, RowFields DEF TooShort

LEMMA CreateTableStep == ASSUME IInv, NEW c \in Clients, CreateTable(c) PROVE IInv'
<1>1. /\ run[c] \in Frame /\ FrameOK(run[c]) /\ FrameNew(run[c]) /\ run[c].at = "create" /\ End(c)
      /\ run[c].stmt.op = "create" /\ Tab(c) \in Tables /\ Moves(c, Idle)
  BY FrameOf, StmtFields, EndMoves DEF CreateTable, At, FrameOK, Tab
<1>2. CASE UNCHANGED <<store, ghost>>
  BY <1>1, <1>2, KeepsNothing, QuietStep
<1>3. CASE /\ schemas[Tab(c)] = None
           /\ schemas' = [schemas EXCEPT ![Tab(c)] = New]
           /\ made' = [made EXCEPT ![Tab(c)] = @ + 1]
           /\ UNCHANGED <<data, indexes, entries, altered, imported, late, panicked>>
  <2>1. /\ run' \in [Clients -> Frame] /\ run'[c] = Idle
        /\ \A d \in Clients : d # c => run'[d] = run[d]
        /\ \A d \in Clients : FrameOK(run'[d]) /\ FrameNew(run'[d])
    BY <1>1, MovesType DEF IInv
  <2>2. TypeOK'
    BY <1>1, <1>3, <2>1, NewSchema DEF IInv, TypeOK
  <2>3. FramesOK' /\ TablesNew'
    BY <1>1, <1>3, <2>1 DEF IInv, FramesOK, TablesNew, TableNew, FrameNew, New, TypeOK
  <2>4. Covered'
    <3>1. \A t \in Tables, n \in Names, k \in Ids : ~Covers(run[c], t, n, k)
      BY <1>1 DEF Covers
    <3> QED
      BY <1>3, <2>1, <3>1 DEF IInv, Covered, Covers
  <2>5. NoLateRow' /\ PanicNeedsAlter'
    BY <1>1, <1>3 DEF IInv, NoLateRow, PanicNeedsAlter, TypeOK
  <2>6. CreatedOnce'
    BY <1>1, <1>3, NewSchema, SchemaCols DEF IInv, CreatedOnce, TypeOK
  <2> QED
    BY <2>2, <2>3, <2>4, <2>5, <2>6 DEF IInv
<1> QED
  BY <1>2, <1>3 DEF CreateTable, New

LEMMA DropTableStep == ASSUME IInv, NEW c \in Clients, DropTable(c) PROVE IInv'
<1>1. /\ run[c] \in Frame /\ FrameOK(run[c]) /\ FrameNew(run[c]) /\ run[c].at = "drop" /\ End(c)
      /\ run[c].stmt.op = "drop" /\ Tab(c) \in Tables /\ Moves(c, Idle)
  BY FrameOf, StmtFields, EndMoves DEF DropTable, At, FrameOK, Tab
<1>2. /\ schemas' = [schemas EXCEPT ![Tab(c)] = None]
      /\ data' = [data EXCEPT ![Tab(c)] = [k \in Ids |-> None]]
      /\ made' = [made EXCEPT ![Tab(c)] = 0]
      /\ late' = late \ {Tab(c)}
      /\ imported' = {p \in imported : p[1] # Tab(c)}
      /\ UNCHANGED <<indexes, entries, altered, panicked>>
  BY DEF DropTable, EmptyRows
<1>3. /\ run' \in [Clients -> Frame] /\ run'[c] = Idle
      /\ \A d \in Clients : d # c => run'[d] = run[d]
      /\ \A d \in Clients : FrameOK(run'[d]) /\ FrameNew(run'[d])
  BY <1>1, MovesType DEF IInv
<1>4. /\ data' \in [Tables -> [Ids -> Row \cup {None}]]
      /\ \A t \in Tables, k \in Ids : data'[t][k] = IF t = Tab(c) THEN None ELSE data[t][k]
  BY <1>1, <1>2 DEF IInv, TypeOK
<1>5. TypeOK'
  BY <1>1, <1>2, <1>3, <1>4 DEF IInv, TypeOK
<1>6. FramesOK' /\ TablesNew'
  BY <1>1, <1>2, <1>3, <1>4 DEF IInv, FramesOK, TablesNew, TableNew, FrameNew, TypeOK
<1>7. Covered'
  <2>1. \A t \in Tables, n \in Names, k \in Ids : ~Covers(run[c], t, n, k)
    BY <1>1 DEF Covers
  <2> SUFFICES ASSUME NEW t \in Tables \ altered, NEW n \in Names, NEW k \in Ids,
                      indexes[t][n] # None, data'[t][k] # None, <<t, k>> \notin imported',
                      KeyIn(data'[t][k], New, indexes[t][n]) \notin entries[t][n]
               PROVE  \E d \in Clients : Covers(run[d], t, n, k)' 
    BY <1>2 DEF Covered
  <2>2. t # Tab(c) /\ data'[t][k] = data[t][k] /\ <<t, k>> \notin imported
    BY <1>2, <1>4
  <2>3. PICK d \in Clients : Covers(run[d], t, n, k)
    BY <2>2 DEF IInv, Covered
  <2>4. d # c /\ run'[d] = run[d]
    BY <1>3, <2>1, <2>3
  <2> QED
    BY <1>2, <2>2, <2>3, <2>4 DEF Covers
<1>8. NoLateRow' /\ PanicNeedsAlter'
  BY <1>1, <1>2, <1>4 DEF IInv, NoLateRow, PanicNeedsAlter, TypeOK
<1>9. CreatedOnce'
  BY <1>1, <1>2 DEF IInv, CreatedOnce, TypeOK
<1> QED
  BY <1>5, <1>6, <1>7, <1>8, <1>9 DEF IInv

(* insert_row writes: from then on the client covers the row in every      *)
(* index, or the row counts as imported.                                   *)
LEMMA WriteRowStep == ASSUME IInv, NEW c \in Clients, WriteRow(c) PROVE IInv'
<1> DEFINE t0 == Tab(c)
           r0 == run[c].row
           k0 == run[c].row[1]
           f0 == [run[c] EXCEPT !.at = "indexes"]
<1>1. /\ run[c] \in Frame /\ FrameOK(run[c]) /\ FrameNew(run[c]) /\ run[c].at = "write"
      /\ run[c].stmt \in Stmt /\ run[c].stmt.op \in {"insert", "import"} /\ r0 \in Row
      /\ t0 = run[c].stmt.table /\ t0 \in Tables /\ k0 \in Ids /\ r0 # None
  BY FrameOf, StmtFields, RowFields DEF WriteRow, At, FrameOK, Tab, RowLabels
<1>2. /\ data' = [data EXCEPT ![t0][k0] = r0]
      /\ late' = IF schemas[t0] = None THEN late \cup {t0} ELSE late
      /\ UNCHANGED <<schemas, indexes, entries, made, altered, panicked>>
  BY DEF WriteRow
<1>3. \/ /\ run[c].stmt.op = "insert" /\ Goto(c, "indexes") /\ imported' = imported \ {<<t0, k0>>}
      \/ /\ run[c].stmt.op = "import" /\ End(c) /\ imported' = imported \cup {<<t0, k0>>}
  BY DEF WriteRow, Op
<1>4. PICK f : /\ Moves(c, f)
               /\ \/ <<t0, k0>> \in imported'
                  \/ f.at = "indexes" /\ f.stmt = run[c].stmt /\ f.row = r0 /\ f.stmt.op = "insert"
  <2>1. CASE End(c) /\ <<t0, k0>> \in imported'
    BY <2>1, EndMoves
  <2>2. CASE Goto(c, "indexes") /\ run[c].stmt.op = "insert"
    <3>1. run' = [run EXCEPT ![c] = f0]
      BY <2>2 DEF Goto, IInv, TypeOK
    <3>2. /\ f0 \in Frame /\ f0.at = "indexes" /\ f0.stmt = run[c].stmt /\ f0.row = r0
          /\ f0.seen = run[c].seen /\ f0.todo = run[c].todo
      BY <1>1 DEF Frame, Labels
    <3> HIDE DEF f0
    <3>3. FrameOK(f0)
      BY <1>1, <2>2, <3>2 DEF FrameOK, RowLabels, TodoRows, Readers
    <3>4. FrameNew(f0)
      BY <1>1, <3>2 DEF FrameNew, RowLabels, TodoRows, Readers
    <3> QED
      BY <2>2, <3>1, <3>2, <3>3, <3>4 DEF Moves
  <2> QED
    BY <1>3, <2>1, <2>2
<1>5. /\ run' \in [Clients -> Frame] /\ run'[c] = f
      /\ \A d \in Clients : d # c => run'[d] = run[d]
      /\ \A d \in Clients : FrameOK(run'[d]) /\ FrameNew(run'[d])
  BY <1>4, MovesType DEF IInv
<1>6. /\ data' \in [Tables -> [Ids -> Row \cup {None}]]
      /\ data'[t0][k0] = r0
      /\ \A t \in Tables, k \in Ids : <<t, k>> # <<t0, k0>> => data'[t][k] = data[t][k]
  BY <1>1, <1>2 DEF IInv, TypeOK
<1>7. TypeOK'
  <2>1. \A t \in Tables, k \in Ids : data'[t][k] # None => data'[t][k][1] = k
    <3> SUFFICES ASSUME NEW t \in Tables, NEW k \in Ids, data'[t][k] # None
                 PROVE  data'[t][k][1] = k
      OBVIOUS
    <3>1. CASE t = t0 /\ k = k0
      BY <1>6, <3>1
    <3>2. CASE <<t, k>> # <<t0, k0>>
      BY <1>6, <3>2 DEF IInv, TypeOK
    <3> QED
      BY <3>1, <3>2
  <2>2. late' \subseteq Tables /\ imported' \subseteq Tables \X Ids
    BY <1>1, <1>2, <1>3 DEF IInv, TypeOK
  <2> QED
    BY <1>2, <1>5, <1>6, <2>1, <2>2 DEF IInv, TypeOK
<1>8. FramesOK' /\ TablesNew'
  <2>1. FramesOK'
    BY <1>2, <1>5 DEF FramesOK, FrameNew
  <2>2. t0 \notin altered => Len(r0) = Len(NewColumns)
    BY <1>1 DEF FrameNew, Readers, RowLabels
  <2>3. \A t \in Tables \ altered, k \in Ids :
          data'[t][k] # None => Len(data'[t][k]) = Len(NewColumns)
    <3> SUFFICES ASSUME NEW t \in Tables \ altered, NEW k \in Ids, data'[t][k] # None
                 PROVE  Len(data'[t][k]) = Len(NewColumns)
      OBVIOUS
    <3>1. CASE t = t0 /\ k = k0
      BY <1>6, <2>2, <3>1
    <3>2. CASE <<t, k>> # <<t0, k0>>
      BY <1>6, <3>2 DEF IInv, TablesNew, TableNew
    <3> QED
      BY <3>1, <3>2
  <2>4. TablesNew'
    BY <1>2, <2>3 DEF IInv, TablesNew, TableNew
  <2> QED
    BY <2>1, <2>4
<1>9. Covered'
  <2> SUFFICES ASSUME NEW t \in Tables \ altered, NEW n \in Names, NEW k \in Ids,
                      indexes[t][n] # None, data'[t][k] # None, <<t, k>> \notin imported',
                      KeyIn(data'[t][k], New, indexes[t][n]) \notin entries[t][n]
               PROVE  \E d \in Clients : Covers(run[d], t, n, k)'
    BY <1>2 DEF Covered
  <2>1. CASE t = t0 /\ k = k0
    <3>1. Covers(run[c], t, n, k)'
      BY <1>1, <1>4, <1>5, <1>6, <2>1 DEF Covers
    <3> QED
      BY <3>1
  <2>2. CASE <<t, k>> # <<t0, k0>>
    <3>1. data'[t][k] = data[t][k] /\ <<t, k>> \notin imported
      BY <1>3, <1>6, <2>2
    <3>2. PICK d \in Clients : Covers(run[d], t, n, k)
      BY <3>1 DEF IInv, Covered
    <3>3. d # c /\ run'[d] = run[d]
      BY <1>1, <1>5, <3>2 DEF Covers
    <3> QED
      BY <1>2, <3>1, <3>2, <3>3 DEF Covers
  <2> QED
    BY <2>1, <2>2
<1>10. NoLateRow'
  BY <1>1, <1>2, <1>6 DEF IInv, NoLateRow, TypeOK
<1>11. CreatedOnce' /\ PanicNeedsAlter'
  BY <1>2 DEF IInv, CreatedOnce, PanicNeedsAlter
<1> QED
  BY <1>7, <1>8, <1>9, <1>10, <1>11 DEF IInv

LEMMA DeleteRowStep == ASSUME IInv, NEW c \in Clients, DeleteRow(c) PROVE IInv'
<1> DEFINE t0 == Tab(c)
           k0 == run[c].row[1]
<1>1. /\ run[c] \in Frame /\ FrameOK(run[c]) /\ FrameNew(run[c]) /\ run[c].at = "deleterow"
      /\ run[c].stmt \in Stmt /\ run[c].stmt.op = "delete" /\ run[c].row \in Row
      /\ t0 = run[c].stmt.table /\ t0 \in Tables /\ k0 \in Ids /\ End(c) /\ Moves(c, Idle)
  BY FrameOf, StmtFields, RowFields, EndMoves DEF DeleteRow, At, FrameOK, Tab, RowLabels
<1>2. /\ data' = [data EXCEPT ![t0][k0] = None] /\ imported' = imported \ {<<t0, k0>>}
      /\ UNCHANGED <<schemas, indexes, entries, made, altered, late, panicked>>
  BY DEF DeleteRow
<1>3. /\ run' \in [Clients -> Frame] /\ run'[c] = Idle
      /\ \A d \in Clients : d # c => run'[d] = run[d]
      /\ \A d \in Clients : FrameOK(run'[d]) /\ FrameNew(run'[d])
  BY <1>1, MovesType DEF IInv
<1>4. /\ data' \in [Tables -> [Ids -> Row \cup {None}]]
      /\ data'[t0][k0] = None
      /\ \A t \in Tables, k \in Ids : <<t, k>> # <<t0, k0>> => data'[t][k] = data[t][k]
  BY <1>1, <1>2 DEF IInv, TypeOK
<1>5. TypeOK'
  BY <1>1, <1>2, <1>3, <1>4 DEF IInv, TypeOK
<1>6. FramesOK' /\ TablesNew'
  <2>1. FramesOK'
    BY <1>2, <1>3 DEF FramesOK, FrameNew
  <2>2. TablesNew'
    BY <1>1, <1>2, <1>4 DEF IInv, TablesNew, TableNew
  <2> QED
    BY <2>1, <2>2
<1>7. Covered'
  <2> SUFFICES ASSUME NEW t \in Tables \ altered, NEW n \in Names, NEW k \in Ids,
                      indexes[t][n] # None, data'[t][k] # None, <<t, k>> \notin imported',
                      KeyIn(data'[t][k], New, indexes[t][n]) \notin entries[t][n]
               PROVE  \E d \in Clients : Covers(run[d], t, n, k)'
    BY <1>2 DEF Covered
  <2>1. <<t, k>> # <<t0, k0>> /\ data'[t][k] = data[t][k] /\ <<t, k>> \notin imported
    BY <1>2, <1>4
  <2>2. PICK d \in Clients : Covers(run[d], t, n, k)
    BY <2>1 DEF IInv, Covered
  <2>3. d # c /\ run'[d] = run[d]
    BY <1>1, <1>3, <2>1, <2>2 DEF Covers
  <2> QED
    BY <1>2, <2>1, <2>2, <2>3 DEF Covers
<1>8. NoLateRow' /\ CreatedOnce' /\ PanicNeedsAlter'
  BY <1>1, <1>2, <1>4 DEF IInv, NoLateRow, CreatedOnce, PanicNeedsAlter, TypeOK
<1> QED
  BY <1>5, <1>6, <1>7, <1>8 DEF IInv

-----------------------------------------------------------------------------
(* A panic ends the statement; in an unaltered table nothing panics.       *)
LEMMA PanicStep ==
  ASSUME IInv, NEW c \in Clients, run[c].at \in {"entry", "unentry"}, NEW d \in run[c].defs,
         TooShort(run[c].row, run[c].seen, d[3]), Panic(c)
  PROVE  IInv'
<1>1. /\ run[c] \in Frame /\ FrameOK(run[c]) /\ run[c].stmt \in Stmt
      /\ run[c].stmt.table \in Tables /\ run[c].stmt.table \in altered
  BY FrameOf, RowFits, StmtFields DEF FrameOK
<1>2. /\ panicked' = TRUE /\ End(c) /\ Moves(c, Idle)
      /\ UNCHANGED <<schemas, data, indexes, entries, made, altered, imported, late>>
  BY EndMoves DEF Panic, store
<1>3. /\ run' \in [Clients -> Frame] /\ run'[c] = Idle
      /\ \A e \in Clients : e # c => run'[e] = run[e]
      /\ \A e \in Clients : FrameOK(run'[e]) /\ FrameNew(run'[e])
  BY <1>2, MovesType DEF IInv
<1>4. TypeOK' /\ NoLateRow' /\ CreatedOnce'
  BY <1>2, <1>3 DEF IInv, TypeOK, NoLateRow, CreatedOnce
<1>5. FramesOK' /\ TablesNew' /\ PanicNeedsAlter'
  BY <1>1, <1>2, <1>3 DEF IInv, FramesOK, TablesNew, TableNew, FrameNew, PanicNeedsAlter
<1>6. Covered'
  <2>1. \A t \in Tables \ altered, n \in Names, k \in Ids : ~Covers(run[c], t, n, k)
    BY <1>1 DEF Covers
  <2> SUFFICES ASSUME NEW t \in Tables \ altered, NEW n \in Names, NEW k \in Ids,
                      indexes[t][n] # None, data[t][k] # None, <<t, k>> \notin imported,
                      KeyIn(data[t][k], New, indexes[t][n]) \notin entries[t][n]
               PROVE  \E e \in Clients : Covers(run[e], t, n, k)'
    BY <1>2 DEF Covered
  <2>2. PICK e \in Clients : Covers(run[e], t, n, k)
    BY DEF IInv, Covered
  <2>3. e # c /\ run'[e] = run[e]
    BY <1>3, <2>1, <2>2
  <2> QED
    BY <1>2, <2>2, <2>3 DEF Covers
<1> QED
  BY <1>4, <1>5, <1>6 DEF IInv

LEMMA AddEntryStep == ASSUME IInv, NEW c \in Clients, AddEntry(c) PROVE IInv'
<1>1. /\ run[c] \in Frame /\ FrameOK(run[c]) /\ FrameNew(run[c]) /\ run[c].at = "entry"
      /\ run[c].stmt \in Stmt /\ run[c].stmt.op \in {"insert", "cindex"} /\ run[c].row \in Row
      /\ run[c].seen \in Schema /\ run[c].stmt.table \in Tables
  BY FrameOf, StmtFields DEF AddEntry, At, FrameOK, RowLabels, Readers
<1>2. PICK d \in run[c].defs :
     \/ TooShort(run[c].row, run[c].seen, d[3]) /\ Panic(c)
     \/ /\ ~TooShort(run[c].row, run[c].seen, d[3])
        /\ entries' = [entries EXCEPT ![d[1]][d[2]] = @ \cup {KeyIn(run[c].row, run[c].seen, d[3])}]
        /\ IF run[c].defs = {d} THEN AfterRow(c)
           ELSE run' = [run EXCEPT ![c].defs = @ \ {d}]
        /\ UNCHANGED <<schemas, data, indexes, ghost>>
  BY DEF AddEntry
<1>3. CASE TooShort(run[c].row, run[c].seen, d[3]) /\ Panic(c)
  BY <1>1, <1>3, PanicStep
<1> DEFINE key == KeyIn(run[c].row, run[c].seen, d[3])
<1>4. CASE /\ ~TooShort(run[c].row, run[c].seen, d[3])
           /\ entries' = [entries EXCEPT ![d[1]][d[2]] = @ \cup {key}]
           /\ IF run[c].defs = {d} THEN AfterRow(c)
              ELSE run' = [run EXCEPT ![c].defs = @ \ {d}]
           /\ UNCHANGED <<schemas, data, indexes, ghost>>
  <2>1. d[1] = run[c].stmt.table /\ d[2] \in Names /\ d[3] \in Cols(run[c].seen) /\ key \in Value \X Ids
    BY <1>1, <1>4, KeyInType DEF FrameOK
  <2>2. /\ entries' \in [Tables -> [Names -> SUBSET (Value \X Ids)]]
        /\ key \in entries'[d[1]][d[2]]
        /\ \A t \in Tables, n \in Names : entries[t][n] \subseteq entries'[t][n]
    <3> HIDE DEF key
    <3> QED
      BY <1>1, <1>4, <2>1 DEF IInv, TypeOK
(* The next frame covers all this one did but the row in hand, in d.       *)
  <2>3. PICK g : /\ Moves(c, g)
                 /\ \A t \in Tables, n \in Names, k \in Ids :
                      Covers(run[c], t, n, k) =>
                        \/ Covers(g, t, n, k)
                        \/ run[c].row = data[t][k] /\ <<t, n, indexes[t][n]>> = d
    <3>1. CASE run[c].defs = {d} /\ AfterRow(c)
      <4>1. PICK g : /\ Moves(c, g)
                     /\ \A t \in Tables, n \in Names, k \in Ids :
                          Covers(run[c], t, n, k) => Covers(g, t, n, k) \/ InHand(run[c], t, n, k)
        BY <1>1, <3>1, AfterRowMoves
      <4>2. \A t \in Tables, n \in Names, k \in Ids :
              Covers(run[c], t, n, k) => \/ Covers(g, t, n, k)
                                         \/ run[c].row = data[t][k] /\ <<t, n, indexes[t][n]>> = d
        BY <1>1, <3>1, <4>1 DEF InHand
      <4> QED
        BY <4>1, <4>2
    <3>2. CASE run[c].defs # {d} /\ run' = [run EXCEPT ![c].defs = @ \ {d}]
      <4> DEFINE g == [run[c] EXCEPT !.defs = @ \ {d}]
      <4>1. run' = [run EXCEPT ![c] = g]
        BY <3>2 DEF IInv, TypeOK
      <4>2. /\ g \in Frame /\ g.at = "entry" /\ g.row = run[c].row /\ g.todo = run[c].todo
            /\ g.defs = run[c].defs \ {d} /\ g.stmt = run[c].stmt /\ g.seen = run[c].seen
        BY <1>1 DEF Frame
      <4> HIDE DEF g
      <4>3. FrameOK(g)
        BY <1>1, <4>2 DEF FrameOK, RowLabels, TodoRows, Readers
      <4>4. FrameNew(g)
        BY <1>1, <4>2 DEF FrameNew, RowLabels, TodoRows, Readers
      <4>5. \A t \in Tables, n \in Names, k \in Ids :
              Covers(run[c], t, n, k) => \/ Covers(g, t, n, k)
                                         \/ run[c].row = data[t][k] /\ <<t, n, indexes[t][n]>> = d
        BY <1>1, <4>2 DEF Covers
      <4>6. Moves(c, g)
        BY <4>1, <4>2, <4>3, <4>4 DEF Moves
      <4> QED
        BY <4>5, <4>6
    <3> QED
      BY <1>4, <3>1, <3>2
  <2>4. /\ run' \in [Clients -> Frame] /\ run'[c] = g
        /\ \A e \in Clients : e # c => run'[e] = run[e]
        /\ \A e \in Clients : FrameOK(run'[e]) /\ FrameNew(run'[e])
    BY <2>3, MovesType DEF IInv
  <2>5. TypeOK'
    BY <1>4, <2>2, <2>4 DEF IInv, TypeOK, ghost
  <2>6. FramesOK' /\ TablesNew'
    BY <1>4, <2>4 DEF IInv, FramesOK, TablesNew, TableNew, FrameNew, ghost
  <2>7. Covered'
    <3> SUFFICES ASSUME NEW t \in Tables \ altered, NEW n \in Names, NEW k \in Ids,
                        indexes[t][n] # None, data[t][k] # None, <<t, k>> \notin imported,
                        KeyIn(data[t][k], New, indexes[t][n]) \notin entries'[t][n]
                 PROVE  \E e \in Clients : Covers(run[e], t, n, k)'
      BY <1>4 DEF Covered, ghost
    <3>1. PICK e \in Clients : Covers(run[e], t, n, k)
      BY <2>2 DEF IInv, Covered
    <3>2. CASE e # c
      BY <1>4, <2>4, <3>1, <3>2 DEF Covers
    <3>3. CASE e = c
      <4>1. ~(run[c].row = data[t][k] /\ <<t, n, indexes[t][n]>> = d)
        <5> SUFFICES ASSUME run[c].row = data[t][k], <<t, n, indexes[t][n]>> = d PROVE FALSE
          OBVIOUS
        <5>1. run[c].seen.cols = New.cols
          BY <1>1, <2>1 DEF FrameNew, Readers, New
        <5>2. key = KeyIn(data[t][k], New, indexes[t][n])
          BY <5>1, SameKey
        <5> HIDE DEF key
        <5> QED
          BY <2>2, <5>2
      <4>2. Covers(g, t, n, k)
        BY <2>3, <3>1, <3>3, <4>1
      <4> QED
        BY <1>4, <2>4, <4>2 DEF Covers
    <3> QED
      BY <3>2, <3>3
  <2>8. NoLateRow' /\ CreatedOnce' /\ PanicNeedsAlter'
    BY <1>4 DEF IInv, NoLateRow, CreatedOnce, PanicNeedsAlter, ghost
  <2> QED
    BY <2>5, <2>6, <2>7, <2>8 DEF IInv
<1> QED
  BY <1>2, <1>3, <1>4

(* The entries a DELETE takes away are those of the row it deletes.        *)
LEMMA RemoveEntryStep == ASSUME IInv, NEW c \in Clients, RemoveEntry(c) PROVE IInv'
<1>1. /\ run[c] \in Frame /\ FrameOK(run[c]) /\ FrameNew(run[c]) /\ run[c].at = "unentry"
      /\ run[c].stmt \in Stmt /\ run[c].stmt.op = "delete" /\ run[c].row \in Row
      /\ run[c].seen \in Schema /\ run[c].stmt.table \in Tables
  BY FrameOf, StmtFields DEF RemoveEntry, At, FrameOK, RowLabels, Readers
<1>2. PICK d \in run[c].defs :
     \/ TooShort(run[c].row, run[c].seen, d[3]) /\ Panic(c)
     \/ /\ ~TooShort(run[c].row, run[c].seen, d[3])
        /\ entries' = [entries EXCEPT ![d[1]][d[2]] = @ \ {KeyIn(run[c].row, run[c].seen, d[3])}]
        /\ run' = [run EXCEPT ![c].defs = @ \ {d},
                              ![c].at = IF run[c].defs = {d} THEN "deleterow" ELSE "unentry"]
        /\ UNCHANGED <<schemas, data, indexes, ghost>>
  BY DEF RemoveEntry
<1>3. CASE TooShort(run[c].row, run[c].seen, d[3]) /\ Panic(c)
  BY <1>1, <1>3, PanicStep
<1> DEFINE key == KeyIn(run[c].row, run[c].seen, d[3])
           g == [run[c] EXCEPT !.defs = @ \ {d},
                               !.at = IF run[c].defs = {d} THEN "deleterow" ELSE "unentry"]
<1>4. CASE /\ ~TooShort(run[c].row, run[c].seen, d[3])
           /\ entries' = [entries EXCEPT ![d[1]][d[2]] = @ \ {key}]
           /\ run' = [run EXCEPT ![c].defs = @ \ {d},
                              ![c].at = IF run[c].defs = {d} THEN "deleterow" ELSE "unentry"]
           /\ UNCHANGED <<schemas, data, indexes, ghost>>
  <2>1. d[1] = run[c].stmt.table /\ d[2] \in Names /\ d[3] \in Cols(run[c].seen) /\ key[2] = run[c].row[1]
    BY <1>1 DEF FrameOK, KeyIn
  <2>2. /\ entries' \in [Tables -> [Names -> SUBSET (Value \X Ids)]]
        /\ \A t \in Tables, n \in Names :
             entries[t][n] \ entries'[t][n] \subseteq (IF t = d[1] THEN {key} ELSE {})
    <3> HIDE DEF key
    <3> QED
      BY <1>1, <1>4, <2>1 DEF IInv, TypeOK
  <2>3. Moves(c, g)
    <3>1. run' = [run EXCEPT ![c] = g]
      BY <1>4 DEF IInv, TypeOK
    <3>2. /\ g \in Frame /\ g.at \in {"unentry", "deleterow"} /\ g.row = run[c].row
          /\ g.todo = run[c].todo /\ g.defs = run[c].defs \ {d}
          /\ g.stmt = run[c].stmt /\ g.seen = run[c].seen
      BY <1>1 DEF Frame, Labels
    <3> HIDE DEF g
    <3>3. FrameOK(g)
      BY <1>1, <3>2 DEF FrameOK, RowLabels, TodoRows, Readers
    <3>4. FrameNew(g)
      BY <1>1, <3>2 DEF FrameNew, RowLabels, TodoRows, Readers
    <3> QED
      BY <3>1, <3>2, <3>3, <3>4 DEF Moves
  <2>4. g.at \in {"unentry", "deleterow"} /\ g.stmt = run[c].stmt /\ g.row = run[c].row
    BY <1>1 DEF Frame
  <2> HIDE DEF g
  <2>5. /\ run' \in [Clients -> Frame] /\ run'[c] = g
        /\ \A e \in Clients : e # c => run'[e] = run[e]
        /\ \A e \in Clients : FrameOK(run'[e]) /\ FrameNew(run'[e])
    BY <2>3, MovesType DEF IInv
  <2>6. TypeOK'
    BY <1>4, <2>2, <2>5 DEF IInv, TypeOK, ghost
  <2>7. FramesOK' /\ TablesNew'
    BY <1>4, <2>5 DEF IInv, FramesOK, TablesNew, TableNew, FrameNew, ghost
  <2>8. Covered'
    <3> SUFFICES ASSUME NEW t \in Tables \ altered, NEW n \in Names, NEW k \in Ids,
                        indexes[t][n] # None, data[t][k] # None, <<t, k>> \notin imported,
                        KeyIn(data[t][k], New, indexes[t][n]) \notin entries'[t][n]
                 PROVE  \E e \in Clients : Covers(run[e], t, n, k)'
      BY <1>4 DEF Covered, ghost
    <3>1. CASE t = run[c].stmt.table /\ k = run[c].row[1]
      BY <1>1, <2>4, <2>5, <3>1 DEF Covers
    <3>2. CASE ~(t = run[c].stmt.table /\ k = run[c].row[1])
      <4>1. KeyIn(data[t][k], New, indexes[t][n])[2] = k
        BY DEF KeyIn, IInv, TypeOK
      <4>2. KeyIn(data[t][k], New, indexes[t][n]) \notin entries[t][n]
        <5> HIDE DEF key
        <5> QED
          BY <2>1, <2>2, <3>2, <4>1
      <4>3. PICK e \in Clients : Covers(run[e], t, n, k)
        BY <4>2 DEF IInv, Covered
      <4>4. e # c
        BY <1>1, <3>2, <4>3 DEF Covers
      <4> QED
        BY <1>4, <2>5, <4>3, <4>4 DEF Covers
    <3> QED
      BY <3>1, <3>2
  <2>9. NoLateRow' /\ CreatedOnce' /\ PanicNeedsAlter'
    BY <1>4 DEF IInv, NoLateRow, CreatedOnce, PanicNeedsAlter, ghost
  <2> QED
    BY <2>6, <2>7, <2>8, <2>9 DEF IInv
<1> QED
  BY <1>2, <1>3, <1>4

LEMMA PutIndexStep == ASSUME IInv, NEW c \in Clients, PutIndex(c) PROVE IInv'
<1> DEFINE t0 == Tab(c)
           n0 == run[c].stmt.name
           x0 == run[c].stmt.col
           g == [run[c] EXCEPT !.at = "backfill"]
<1>1. /\ run[c] \in Frame /\ FrameOK(run[c]) /\ FrameNew(run[c]) /\ run[c].at = "putindex"
      /\ run[c].stmt \in Stmt /\ run[c].stmt.op = "cindex" /\ run[c].seen \in Schema
      /\ t0 = run[c].stmt.table /\ t0 \in Tables /\ n0 \in Names /\ x0 \in Columns
      /\ x0 \in Cols(run[c].seen)
  BY FrameOf, StmtFields DEF PutIndex, At, FrameOK, Tab, Readers
<1>2. /\ indexes' = [indexes EXCEPT ![t0][n0] = x0] /\ Goto(c, "backfill")
      /\ UNCHANGED <<schemas, data, entries, ghost>>
  BY DEF PutIndex
<1>3. Moves(c, g)
  BY <1>1, <1>2, GotoMoves DEF Labels
<1>4. g.at = "backfill" /\ g.stmt = run[c].stmt
  BY <1>1 DEF Frame
<1> HIDE DEF g
<1>5. /\ run' \in [Clients -> Frame] /\ run'[c] = g
      /\ \A e \in Clients : e # c => run'[e] = run[e]
      /\ \A e \in Clients : FrameOK(run'[e]) /\ FrameNew(run'[e])
  BY <1>3, MovesType DEF IInv
<1>6. /\ indexes' \in [Tables -> [Names -> Columns \cup {None}]]
      /\ indexes'[t0][n0] = x0
      /\ \A t \in Tables, n \in Names : <<t, n>> # <<t0, n0>> => indexes'[t][n] = indexes[t][n]
  BY <1>1, <1>2 DEF IInv, TypeOK
<1>7. TypeOK'
  BY <1>2, <1>5, <1>6 DEF IInv, TypeOK, ghost
<1>8. FramesOK'
  BY <1>2, <1>5 DEF FramesOK, FrameNew, ghost
<1>9. TablesNew'
  <2>1. t0 \notin altered => x0 \in Cols(New)
    BY <1>1 DEF FrameNew, Readers, Cols, New
  <2>2. ASSUME NEW t \in Tables \ altered, NEW n \in Names, indexes'[t][n] # None
        PROVE  indexes'[t][n] \in Cols(New)
    <3>1. CASE t = t0 /\ n = n0
      BY <1>6, <2>1, <3>1
    <3>2. CASE <<t, n>> # <<t0, n0>>
      BY <1>6, <2>2, <3>2 DEF IInv, TablesNew, TableNew
    <3> QED
      BY <3>1, <3>2
  <2> QED
    BY <1>2, <2>2 DEF IInv, TablesNew, TableNew, ghost
<1>10. Covered'
  <2> SUFFICES ASSUME NEW t \in Tables \ altered, NEW n \in Names, NEW k \in Ids,
                      indexes'[t][n] # None, data[t][k] # None, <<t, k>> \notin imported,
                      KeyIn(data[t][k], New, indexes'[t][n]) \notin entries[t][n]
               PROVE  \E e \in Clients : Covers(run[e], t, n, k)'
    BY <1>2 DEF Covered, ghost
(* The client that has just published the index covers all of its rows.    *)
  <2>1. CASE t = t0
    BY <1>1, <1>4, <1>5, <2>1 DEF Covers
  <2>2. CASE t # t0
    <3>1. indexes'[t][n] = indexes[t][n]
      BY <1>6, <2>2
    <3>2. PICK e \in Clients : Covers(run[e], t, n, k)
      BY <3>1 DEF IInv, Covered
    <3>3. e # c
      BY <1>1, <2>2, <3>2 DEF Covers
    <3> QED
      BY <1>2, <1>5, <3>1, <3>2, <3>3 DEF Covers
  <2> QED
    BY <2>1, <2>2
<1>11. NoLateRow' /\ CreatedOnce' /\ PanicNeedsAlter'
  BY <1>2 DEF IInv, NoLateRow, CreatedOnce, PanicNeedsAlter, ghost
<1> QED
  BY <1>7, <1>8, <1>9, <1>10, <1>11 DEF IInv

LEMMA DropIndexStep == ASSUME IInv, NEW c \in Clients, DropIndex(c) PROVE IInv'
<1> DEFINE n0 == run[c].stmt.name
<1>1. /\ run[c] \in Frame /\ FrameOK(run[c]) /\ run[c].at = "dropindex"
      /\ run[c].stmt \in Stmt /\ run[c].stmt.op = "dindex" /\ n0 \in Names
      /\ run[c].todo \subseteq Tables /\ End(c) /\ Moves(c, Idle)
  BY FrameOf, StmtFields, EndMoves DEF DropIndex, At, FrameOK
<1>2. UNCHANGED <<schemas, data, ghost>>
  BY DEF DropIndex
<1>3. PICK t0 \in run[c].todo : /\ indexes' = [indexes EXCEPT ![t0][n0] = None]
                                /\ entries' = [entries EXCEPT ![t0][n0] = {}]
  BY DEF DropIndex
<1>4. /\ run' \in [Clients -> Frame] /\ run'[c] = Idle
      /\ \A e \in Clients : e # c => run'[e] = run[e]
      /\ \A e \in Clients : FrameOK(run'[e]) /\ FrameNew(run'[e])
  BY <1>1, MovesType DEF IInv
<1>5. /\ indexes' \in [Tables -> [Names -> Columns \cup {None}]]
      /\ entries' \in [Tables -> [Names -> SUBSET (Value \X Ids)]]
      /\ indexes'[t0][n0] = None
      /\ \A t \in Tables, n \in Names :
           <<t, n>> # <<t0, n0>> => indexes'[t][n] = indexes[t][n] /\ entries'[t][n] = entries[t][n]
  BY <1>1, <1>3 DEF IInv, TypeOK
<1>6. TypeOK'
  BY <1>2, <1>4, <1>5 DEF IInv, TypeOK, ghost
<1>7. FramesOK'
  BY <1>2, <1>4 DEF FramesOK, FrameNew, ghost
<1>8. TablesNew'
  <2>1. ASSUME NEW t \in Tables \ altered, NEW n \in Names, indexes'[t][n] # None
        PROVE  indexes'[t][n] \in Cols(New)
    BY <1>5, <2>1 DEF IInv, TablesNew, TableNew
  <2> QED
    BY <1>2, <2>1 DEF IInv, TablesNew, TableNew, ghost
<1>9. Covered'
  <2> SUFFICES ASSUME NEW t \in Tables \ altered, NEW n \in Names, NEW k \in Ids,
                      indexes'[t][n] # None, data[t][k] # None, <<t, k>> \notin imported,
                      KeyIn(data[t][k], New, indexes'[t][n]) \notin entries'[t][n]
               PROVE  \E e \in Clients : Covers(run[e], t, n, k)'
    BY <1>2 DEF Covered, ghost
  <2>1. <<t, n>> # <<t0, n0>> /\ indexes'[t][n] = indexes[t][n] /\ entries'[t][n] = entries[t][n]
    BY <1>5
  <2>2. PICK e \in Clients : Covers(run[e], t, n, k)
    BY <2>1 DEF IInv, Covered
  <2>3. e # c
    BY <1>1, <2>2 DEF Covers
  <2> QED
    BY <1>2, <1>4, <2>1, <2>2, <2>3 DEF Covers
<1>10. NoLateRow' /\ CreatedOnce' /\ PanicNeedsAlter'
  BY <1>2 DEF IInv, NoLateRow, CreatedOnce, PanicNeedsAlter, ghost
<1> QED
  BY <1>6, <1>7, <1>8, <1>9, <1>10 DEF IInv

-----------------------------------------------------------------------------
(* ALTER TABLE and set_comment.                                            *)

(* ADD COLUMN appends the column.                                          *)
LEMMA AppendCols ==
  ASSUME NEW s \in ColSeqs, NEW x \in Columns
  PROVE  /\ Append(s, x) \in ColSeqs
         /\ \A i \in DOMAIN s : i \in DOMAIN Append(s, x) /\ Append(s, x)[i] = s[i]
<1>1. s \in Seq(Columns \cup {Pk}) /\ s # <<>> /\ s[1] = Pk
  BY DEF ColSeqs
<1>2. Len(s) \in Nat \ {0} /\ DOMAIN s = 1..Len(s)
  BY <1>1
<1>3. /\ Append(s, x) \in Seq(Columns \cup {Pk}) /\ Append(s, x) # <<>>
      /\ Len(Append(s, x)) = Len(s) + 1 /\ \A i \in 1..Len(s) : Append(s, x)[i] = s[i]
  BY <1>1, AppendProperties
<1> DEFINE a == Append(s, x)
<1> HIDE DEF a
<1>4. a \in Seq(Columns \cup {Pk}) /\ a # <<>> /\ Len(a) = Len(s) + 1 /\ \A i \in 1..Len(s) : a[i] = s[i]
  BY <1>3 DEF a
<1>5. DOMAIN a = 1..(Len(s) + 1) /\ 1 \in 1..Len(s)
  BY <1>2, <1>4
<1>6. a \in ColSeqs /\ \A i \in DOMAIN s : i \in DOMAIN a /\ a[i] = s[i]
  BY <1>1, <1>2, <1>4, <1>5 DEF ColSeqs
<1> QED
  BY <1>6 DEF a

(* DROP COLUMN removes one position, never the first, and moves the        *)
(* columns behind it up.                                                   *)
LEMMA WithoutCols ==
  ASSUME NEW s \in ColSeqs, NEW i \in 2..Len(s)
  PROVE  /\ Without(s, i) \in ColSeqs
         /\ \A j \in DOMAIN s : j # i => \E m \in DOMAIN Without(s, i) : Without(s, i)[m] = s[j]
<1> DEFINE a == SubSeq(s, 1, i - 1)
           b == SubSeq(s, i + 1, Len(s))
<1>1. s \in Seq(Columns \cup {Pk}) /\ s[1] = Pk /\ Len(s) \in Nat
  BY DEF ColSeqs
<1>2. a \in Seq(Columns \cup {Pk}) /\ Len(a) = i - 1 /\ \A j \in 1..(i - 1) : a[j] = s[j]
  BY <1>1
<1>3. b \in Seq(Columns \cup {Pk}) /\ Len(b) = Len(s) - i /\ \A j \in 1..(Len(s) - i) : b[j] = s[i + j]
  <2>1. i + 1 \in Int /\ Len(s) \in Int /\ \A j \in (i + 1)..Len(s) : s[j] \in Columns \cup {Pk}
    BY <1>1
  <2>2. /\ b \in Seq(Columns \cup {Pk})
        /\ Len(b) = IF i + 1 <= Len(s) THEN Len(s) - (i + 1) + 1 ELSE 0
        /\ \A j \in 1..(Len(s) - (i + 1) + 1) : b[j] = s[(i + 1) + j - 1]
    BY <2>1, SubSeqProperties
  <2> QED
    BY <1>1, <2>2
<1> HIDE DEF a, b
<1>4. /\ a \o b \in Seq(Columns \cup {Pk}) /\ Len(a \o b) = Len(s) - 1
      /\ \A j \in 1..(i - 1) : (a \o b)[j] = s[j]
      /\ \A j \in (i + 1)..Len(s) : (a \o b)[j - 1] = s[j]
  <2>1. /\ a \o b \in Seq(Columns \cup {Pk}) /\ Len(a \o b) = Len(a) + Len(b)
        /\ \A j \in 1..(Len(a) + Len(b)) : (a \o b)[j] = IF j <= Len(a) THEN a[j] ELSE b[j - Len(a)]
    BY <1>2, <1>3, ConcatProperties
  <2>2. \A j \in 1..(i - 1) : (a \o b)[j] = s[j]
    BY <1>1, <1>2, <1>3, <2>1
  <2>3. ASSUME NEW j \in (i + 1)..Len(s) PROVE (a \o b)[j - 1] = s[j]
    <3>1. (a \o b)[j - 1] = b[j - 1 - (i - 1)]
      BY <1>1, <1>2, <1>3, <2>1
    <3>2. j - 1 - (i - 1) = j - i /\ j - i \in 1..(Len(s) - i) /\ i + (j - i) = j
      BY <1>1
    <3>3. b[j - i] = s[i + (j - i)]
      BY <1>3, <3>2
    <3> QED
      BY <3>1, <3>2, <3>3
  <2>4. Len(a) + Len(b) = Len(s) - 1
    BY <1>1, <1>2, <1>3
  <2> QED
    BY <2>1, <2>2, <2>3, <2>4
<1>5. Without(s, i) = a \o b
  BY DEF Without, a, b
<1>6. a \o b \in ColSeqs
  <2> DEFINE l == Len(s)
  <2>0. l \in Nat /\ i \in 2..l
    BY <1>1
  <2>1. 1 \in 1..(i - 1) /\ l - 1 # 0
    <3> HIDE DEF l
    <3> QED
      BY <2>0
  <2>2. (a \o b)[1] = Pk
    BY <1>1, <1>4, <2>1
  <2>3. a \o b # <<>>
    BY <1>4, <2>1, EmptySeq
  <2> QED
    BY <1>4, <2>2, <2>3 DEF ColSeqs
<1>7. \A j \in DOMAIN s : j # i => \E m \in DOMAIN (a \o b) : (a \o b)[m] = s[j]
  <2> SUFFICES ASSUME NEW j \in DOMAIN s, j # i PROVE \E m \in DOMAIN (a \o b) : (a \o b)[m] = s[j]
    OBVIOUS
  <2>1. j \in 1..Len(s) /\ DOMAIN (a \o b) = 1..(Len(s) - 1)
    BY <1>1, <1>4
  <2>2. CASE j < i
    <3>1. j \in 1..(i - 1) /\ j \in 1..(Len(s) - 1)
      BY <1>1, <2>1, <2>2
    <3> QED
      BY <1>4, <2>1, <3>1
  <2>3. CASE j > i
    <3>1. j \in (i + 1)..Len(s) /\ j - 1 \in 1..(Len(s) - 1)
      BY <1>1, <2>1, <2>3
    <3> QED
      BY <1>4, <2>1, <3>1
  <2> QED
    BY <1>1, <2>1, <2>2, <2>3
<1> QED
  BY <1>5, <1>6, <1>7

(* The schema PutSchema writes: the statement's edit of the one it read.   *)
LEMMA EditedSchema ==
  ASSUME NEW s \in Schema, NEW q \in Stmt, q.op \in {"addcol", "dropcol", "comment"},
         q.op = "dropcol" => q.col \in Cols(s)
  PROVE  /\ Edited(s, q) \in Schema
         /\ \A x \in Cols(s) : x \in Cols(Edited(s, q)) \/ (q.op = "dropcol" /\ q.col = x)
<1>1. s.cols \in ColSeqs /\ s = [cols |-> s.cols, comment |-> s.comment] /\ s.comment \in BOOLEAN
  BY DEF Schema
<1>2. CASE q.op = "addcol"
  <2>1. Edited(s, q) = [cols |-> Append(s.cols, q.col), comment |-> s.comment] /\ q.col \in Columns
    BY <1>1, <1>2, StmtFields DEF Edited
  <2> QED
    BY <1>1, <2>1, AppendCols DEF Schema, Cols
<1>3. CASE q.op = "dropcol"
  <2> DEFINE i == Pos(s, q.col)
  <2>1. q.col \in Columns /\ i \in 1..Len(s.cols) /\ s.cols[i] = q.col
    BY <1>3, StmtFields, PosIn
  <2>2. i \in 2..Len(s.cols)
    <3> HIDE DEF i
    <3> QED
      BY <2>1, SchemaCols, ColumnsAssumption
  <2>3. Edited(s, q) = [cols |-> Without(s.cols, i), comment |-> s.comment]
    BY <1>1, <1>3 DEF Edited
  <2> HIDE DEF i
  <2> QED
    BY <1>1, <1>3, <2>1, <2>2, <2>3, WithoutCols DEF Schema, Cols
<1>4. CASE q.op = "comment"
  <2>1. Edited(s, q) = [cols |-> s.cols, comment |-> ~s.comment]
    BY <1>1, <1>4 DEF Edited
  <2> QED
    BY <1>1, <2>1 DEF Schema, Cols
<1> QED
  BY <1>2, <1>3, <1>4

LEMMA PutSchemaStep == ASSUME IInv, NEW c \in Clients, PutSchema(c) PROVE IInv'
<1> DEFINE t0 == Tab(c)
           new == Edited(run[c].seen, run[c].stmt)
<1>1. /\ run[c] \in Frame /\ FrameOK(run[c]) /\ run[c].at = "putschema"
      /\ run[c].stmt \in Stmt /\ run[c].stmt.op \in {"addcol", "dropcol", "comment"}
      /\ run[c].seen \in Schema /\ t0 \in Tables /\ End(c) /\ Moves(c, Idle)
  BY FrameOf, StmtFields, EndMoves DEF PutSchema, At, FrameOK, Tab, Readers
<1>2. /\ \/ schemas[t0] = None /\ UNCHANGED <<schemas, altered>>
         \/ /\ schemas[t0] # None
            /\ schemas' = [schemas EXCEPT ![t0] = new]
            /\ altered' = IF schemas'[t0].cols # NewColumns THEN altered \cup {t0} ELSE altered
      /\ UNCHANGED <<data, indexes, entries, made, imported, late, panicked>>
  BY DEF PutSchema
<1>3. new \in Schema /\ new # None
  BY <1>1, EditedSchema, SchemaCols DEF FrameOK
<1> HIDE DEF new
<1>4. /\ schemas' \in [Tables -> Schema \cup {None}]
      /\ altered \subseteq altered' /\ altered' \subseteq Tables
      /\ \A t \in Tables : schemas'[t] = None <=> schemas[t] = None
      /\ \A t \in Tables \ altered' : schemas'[t] # None => schemas'[t].cols = NewColumns
  BY <1>1, <1>2, <1>3 DEF IInv, TypeOK, TablesNew, TableNew
<1>5. /\ run' \in [Clients -> Frame] /\ run'[c] = Idle
      /\ \A e \in Clients : e # c => run'[e] = run[e]
      /\ \A e \in Clients : FrameOK(run'[e]) /\ FrameNew(run'[e])
  BY <1>1, MovesType DEF IInv
<1>6. TypeOK'
  BY <1>2, <1>4, <1>5 DEF IInv, TypeOK
<1>7. FramesOK'
  BY <1>4, <1>5 DEF FramesOK, FrameNew
<1>8. TablesNew'
  BY <1>2, <1>4 DEF IInv, TablesNew, TableNew
<1>9. Covered'
  <2>1. \A t \in Tables, n \in Names, k \in Ids : ~Covers(run[c], t, n, k)
    BY <1>1 DEF Covers
  <2> SUFFICES ASSUME NEW t \in Tables \ altered, NEW n \in Names, NEW k \in Ids,
                      indexes[t][n] # None, data[t][k] # None, <<t, k>> \notin imported,
                      KeyIn(data[t][k], New, indexes[t][n]) \notin entries[t][n]
               PROVE  \E e \in Clients : Covers(run[e], t, n, k)'
    BY <1>2, <1>4 DEF Covered
  <2>2. PICK e \in Clients : Covers(run[e], t, n, k)
    BY DEF IInv, Covered
  <2> QED
    BY <1>2, <1>5, <2>1, <2>2 DEF Covers
<1>10. NoLateRow' /\ CreatedOnce' /\ PanicNeedsAlter'
  BY <1>2, <1>4 DEF IInv, NoLateRow, CreatedOnce, PanicNeedsAlter
<1> QED
  BY <1>6, <1>7, <1>8, <1>9, <1>10 DEF IInv

-----------------------------------------------------------------------------
LEMMA InitIInv == Init => IInv
<1> SUFFICES ASSUME Init PROVE IInv
  OBVIOUS
<1>1. TypeOK
  BY IdleOK DEF Init, NoTables, TypeOK
<1>2. FramesOK
  BY IdleOK DEF Init, FramesOK
<1>3. TablesNew /\ Covered /\ NoLateRow /\ CreatedOnce /\ PanicNeedsAlter
  BY DEF Init, NoTables, TablesNew, TableNew, Covered, NoLateRow, CreatedOnce, PanicNeedsAlter
<1> QED
  BY <1>1, <1>2, <1>3 DEF IInv

LEMMA StutterIInv == ASSUME IInv, UNCHANGED vars PROVE IInv'
<1>1. run' \in [Clients -> Frame] /\ run' = run /\ UNCHANGED <<store, ghost>>
  BY DEF vars, IInv, TypeOK, store, ghost
<1>2. TypeOK' /\ NoLateRow' /\ CreatedOnce' /\ PanicNeedsAlter'
  BY <1>1 DEF IInv, TypeOK, NoLateRow, CreatedOnce, PanicNeedsAlter, store, ghost
<1>3. FramesOK' /\ TablesNew'
  BY <1>1 DEF IInv, FramesOK, TablesNew, TableNew, FrameNew, store, ghost
<1>4. Covered'
  BY <1>1 DEF IInv, Covered, Covers, store, ghost
<1> QED
  BY <1>2, <1>3, <1>4 DEF IInv

LEMMA StepIInv == IInv /\ [Next]_vars => IInv'
<1> SUFFICES ASSUME IInv, [Next]_vars PROVE IInv'
  OBVIOUS
<1>1. CASE UNCHANGED vars
  BY <1>1, StutterIInv
<1>2. ASSUME NEW c \in Clients, Start(c) PROVE IInv'
  BY <1>2, StartCreateStep, StartDropStep, StartInsertStep, StartDeleteStep, StartIndexStep,
     StartDropIndexStep, StartAlterStep, StartCommentStep DEF Start
<1>3. ASSUME NEW c \in Clients, Continue(c) PROVE IInv'
  BY <1>3, CreateTableStep, DropTableStep, ScanIdsStep, NextIdStep, LocateStep, ProbeStep,
     WriteRowStep, ListIndexesStep, AddEntryStep, ScanRowsStep, ListToRemoveStep,
     RemoveEntryStep, DeleteRowStep, CheckIndexStep, PutIndexStep, BackfillStep, FillRowStep,
     FindIndexStep, DropIndexStep, PutSchemaStep DEF Continue
<1> QED
  BY <1>1, <1>2, <1>3 DEF Next

(* The invariant by the step of a statement - what its client holds of the *)
(* tables, entries and rows it read - that every step of every client keeps.*)
THEOREM Inductive == Spec => []IInv
BY InitIInv, StepIInv, PTL DEF Spec

(* Each variable of the catalogue keeps its type.                          *)
THEOREM Typed == Spec => []TypeOK
BY Inductive, PTL DEF IInv

(* Of the CREATE TABLE statements that race for a name, between two DROPs, *)
(* exactly one creates the table: create_table looks again in the          *)
(* transaction that writes.                                                *)
THEOREM OneCreates == Spec => []CreatedOnce
BY Inductive, PTL DEF IInv

(* A statement reads past the end of a row only after an ALTER TABLE that  *)
(* changed a table's columns.                                              *)
THEOREM PanicAfterAlter == Spec => []PanicNeedsAlter
BY Inductive, PTL DEF IInv

LEMMA CoveredGivesComplete == IInv => IndexComplete
<1> SUFFICES ASSUME IInv, NEW t \in Tables, NEW n \in Names, NEW k \in Ids,
                    schemas[t] # None, indexes[t][n] # None, t \notin altered, ~Busy(t),
                    data[t][k] # None, <<t, k>> \notin imported
             PROVE  KeyIn(data[t][k], schemas[t], indexes[t][n]) \in entries[t][n]
  BY DEF IndexComplete
<1>1. schemas[t].cols = New.cols
  BY DEF IInv, TablesNew, TableNew, New
<1>2. \A c \in Clients : ~Covers(run[c], t, n, k)
  BY DEF Busy, Covers, Op, Tab
<1>3. KeyIn(data[t][k], New, indexes[t][n]) \in entries[t][n]
  BY <1>2 DEF IInv, Covered
<1> QED
  BY <1>1, <1>3, SameKey

(* CREATE INDEX and INSERT, DELETE and CREATE INDEX, in whichever order    *)
(* their calls mix: once nobody is at work on a table whose columns never  *)
(* changed, every row the executor wrote has its entry in every index.     *)
THEOREM IndexesComplete == Spec => []IndexComplete
BY Inductive, CoveredGivesComplete, PTL

(* A table created after a DROP is empty, though DROP leaves the redb      *)
(* table in place, unless an INSERT wrote into the dropped one.            *)
THEOREM CreateFindsEmpty == Spec => CreatedEmpty
<1>1. IInv /\ [Next]_vars =>
        [\A t \in Tables : schemas[t] = None /\ schemas'[t] # None /\ t \notin late
           => RowsIn(t) = {}]_vars
  BY DEF IInv, NoLateRow, RowsIn
<1> QED
  BY <1>1, Inductive, PTL DEF Spec, CreatedEmpty

(* Only PutSchema takes columns away from a table that stays.              *)
LEMMA ColumnsStay ==
  ASSUME IInv, Next, NEW t \in Tables, NEW x \in Columns \cup {Pk},
         schemas[t] # None, schemas'[t] # None, x \in Cols(schemas[t]), x \notin Cols(schemas'[t])
  PROVE  \E c \in Clients : /\ At(c, "putschema") /\ Tab(c) = t
                            /\ \/ run[c].stmt = [op |-> "dropcol", table |-> t, col |-> x]
                               \/ run[c].seen # schemas[t]
<1>1. schemas'[t] # schemas[t]
  OBVIOUS
<1>2. PICK c \in Clients : Start(c) \/ Continue(c)
  BY DEF Next
<1>3. ~Start(c)
  BY <1>1 DEF Start, StartCreate, StartDrop, StartInsert, StartDelete, StartIndex,
     StartDropIndex, StartAlter, StartComment, Begin, store
<1>4. CreateTable(c) \/ DropTable(c) \/ PutSchema(c)
  BY <1>1, <1>2, <1>3 DEF Continue, ScanIds, NextId, Locate, Probe, WriteRow, ListIndexes,
     AddEntry, Panic, ScanRows, ListToRemove, RemoveEntry, DeleteRow, CheckIndex, PutIndex,
     Backfill, FillRow, FindIndex, DropIndex, store
<1>5. PutSchema(c)
  <2>1. schemas \in [Tables -> Schema \cup {None}]
    BY DEF IInv, TypeOK
  <2>2. ~CreateTable(c)
    BY <1>1, <2>1 DEF CreateTable, store
  <2>3. ~DropTable(c)
    BY <1>1, <2>1 DEF DropTable
  <2> QED
    BY <1>4, <2>2, <2>3
<1>6. /\ At(c, "putschema") /\ FrameOK(run[c]) /\ run[c].stmt \in Stmt /\ run[c].seen \in Schema
      /\ run[c].stmt.op \in {"addcol", "dropcol", "comment"} /\ Tab(c) = run[c].stmt.table
      /\ Tab(c) \in Tables
  BY <1>5, FrameOf, StmtFields DEF PutSchema, At, FrameOK, Tab, Readers
<1>7. Tab(c) = t /\ schemas'[t] = Edited(run[c].seen, run[c].stmt)
  BY <1>1, <1>5, <1>6 DEF PutSchema, IInv, TypeOK
<1>8. ASSUME run[c].seen = schemas[t]
      PROVE  run[c].stmt = [op |-> "dropcol", table |-> t, col |-> x]
  <2>1. run[c].stmt.op = "dropcol" /\ run[c].stmt.col = x
    BY <1>6, <1>7, <1>8, EditedSchema DEF FrameOK
  <2> QED
    BY <1>6, <1>7, <2>1 DEF Stmt
<1> QED
  BY <1>6, <1>7, <1>8

(* A column goes away only by its DROP COLUMN, by DROP TABLE, or because   *)
(* the statement that wrote the schema had read another one.               *)
THEOREM ColumnsVanishRightly == Spec => ColumnsVanish
<1>1. IInv /\ [Next]_vars =>
        [\A t \in Tables, x \in Columns \cup {Pk} :
           schemas[t] # None /\ schemas'[t] # None
             /\ x \in Cols(schemas[t]) /\ x \notin Cols(schemas'[t]) =>
           \E c \in Clients : /\ At(c, "putschema") /\ Tab(c) = t
                              /\ \/ run[c].stmt = [op |-> "dropcol", table |-> t, col |-> x]
                                 \/ run[c].seen # schemas[t]]_vars
  BY ColumnsStay
<1> QED
  BY <1>1, Inductive, PTL DEF Spec, ColumnsVanish
=============================================================================
