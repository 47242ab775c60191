-------------------------------- MODULE Rows --------------------------------
(***************************************************************************)
(* Rows of a table (id INTEGER PRIMARY KEY, c of some type): the keys they *)
(* are stored and indexed under (src/src/storage/redb_engine.rs) and how   *)
(* the items of an ORDER BY compare them (src/src/sql/executor.rs).        *)
(***************************************************************************)
EXTENDS Values, FiniteSets

(* The elements of a set, each at the place it has by an order that is     *)
(* strict and total, and those of a sequence that are in a set.            *)
InOrder(S, less(_, _)) ==
  [n \in 1..Cardinality(S) |-> CHOOSE x \in S : Cardinality({y \in S \ {x} : less(y, x)}) = n - 1]
Among(s, S) ==
  LET kept[n \in 0..Len(s)] ==
        IF n = 0 THEN <<>> ELSE IF s[n] \in S THEN Append(kept[n - 1], s[n]) ELSE kept[n - 1]
  IN kept[Len(s)]

Columns == <<"id", "c">>
Position(col) == IF \E i \in DOMAIN Columns : Columns[i] = col
                 THEN CHOOSE i \in DOMAIN Columns : Columns[i] = col ELSE 0

(* scan_table goes by the bytes of the primary keys.                       *)
KeyLess(r, s) == LexLess(serialize_value(r[1]), serialize_value(s[1]))
ByKey(S) == InOrder(S, KeyLess)

(* insert_index_entry makes the key of an entry of the value and the       *)
(* primary key; scan_index_eq compares the key it looks for with the start *)
(* of the entries' keys.                                                   *)
Composite(r) == serialize_value(r[2]) \o serialize_value(r[1])
ByEntry(S) == InOrder(S, LAMBDA r, t : LexLess(Composite(r), Composite(t)))
Starts(k, s) == Len(k) <= Len(s) /\ SubSeq(s, 1, Len(k)) = k

-----------------------------------------------------------------------------
(* The order of a sort is the items', each a column of the schema; a column*)
(* it has not is taken for its first.  Values that compare equal to        *)
(* everything can make the order contradictory.                            *)
SortPosition(col) == IF Position(col) = 0 THEN 1 ELSE Position(col)
Signed(item, cmp) == IF item.asc THEN cmp ELSE -cmp
CompareItem(a, b, item) == compare_values(a[SortPosition(item.col)], b[SortPosition(item.col)])
Directed(a, b, item) == Signed(item, CompareItem(a, b, item))
CompareBy(a, b, order) ==
  LET differ == {k \in DOMAIN order : CompareItem(a, b, order[k]) # 0} IN
  IF differ = {} THEN 0 ELSE Directed(a, b, order[CHOOSE j \in differ : \A m \in differ : j <= m])

Contradictory(rs, order) == \E i, j, k \in DOMAIN rs :
  CompareBy(rs[i], rs[j], order) <= 0 /\ CompareBy(rs[j], rs[k], order) <= 0
    /\ CompareBy(rs[i], rs[k], order) > 0
=============================================================================
