------------------------------- MODULE Query -------------------------------
(***************************************************************************)
(* SELECT: the conversion of its clauses (src/src/sql/parser.rs), the plan *)
(* (src/src/sql/planner.rs) and its evaluation (src/src/sql/executor.rs)   *)
(* over a table (id INTEGER PRIMARY KEY, c of some type) with or without   *)
(* an index on c.  The syntax tree of a query is a record.  A plan, which  *)
(* has one input per node, is a sequence of nodes, the source first; so is *)
(* a condition, whose AND and OR have two, by their numbers: the condition *)
(* itself is the last node, and there is none if the sequence is empty.    *)
(***************************************************************************)
EXTENDS Rows, SequencesExt

CONSTANTS
  Ids,        \* primary keys
  DataOf,     \* type -> what the values in c are made of
  Percent, Underscore,  \* the wildcards, as characters
  Lower,      \* letter -> its lower case
  Wheres,     \* conditions: syntax trees
  MaxPattern, \* bound: how long the patterns are that LIKE is checked with
  PageSizes,  \* the sizes of the pages answers are read in
  Selects     \* SELECT statements: syntax trees

(* What a literal, a condition and a query are.  An average is kept as a   *)
(* sum and a count, which only the answer holds: no query compares it.     *)
LiteralExpr ==
  [kind : {"number"}, sign : STRING, data : [1..1 -> Nat], dec : BOOLEAN]
    \cup [kind : {"bool"}, sign : STRING, data : [1..1 -> {0, 1}], dec : BOOLEAN]
    \cup [kind : {"string", "blob"}, sign : STRING, data : Seq(Int), dec : BOOLEAN]
    \cup [kind : {"null"}, sign : STRING, data : {<<>>}, dec : BOOLEAN]
Compare == {"=", "<>", "<", "<=", ">", ">="}
Leaf ==
  [is : {"cmp"}, col : STRING, op : Compare, lit : LiteralExpr]
    \cup [is : {"between"}, col : STRING, negated : BOOLEAN, low : LiteralExpr, high : LiteralExpr]
    \cup [is : {"in"}, col : STRING, negated : BOOLEAN, list : Seq(LiteralExpr)]
    \cup [is : {"like"}, col : STRING, negated : BOOLEAN, insensitive : BOOLEAN, pattern : Seq(Int)]
    \cup [is : {"isnull"}, col : STRING, negated : BOOLEAN]
Condition ==
  {w \in Seq(Leaf \cup [is : {"and", "or"}, left : Nat, right : Nat]) :
     \A n \in DOMAIN w : w[n].is \in {"and", "or"} => {w[n].left, w[n].right} \subseteq 1..n - 1}
Item ==
  [is : {"col"}, fn : {""}, arg : STRING, alias : STRING]
    \cup [is : {"fn"}, fn : {"COUNT", "SUM", "AVG", "MIN", "MAX"}, arg : STRING, alias : STRING]
Select ==
  {q \in [items : Seq(Item), where : Condition, group : Seq(STRING), having : Condition,
          order : Seq([col : STRING, asc : BOOLEAN]), limit : Nat \cup {-1}, offset : Nat] :
     \A n \in DOMAIN q.items : q.items[n].fn = "AVG" => q.having = <<>> /\ q.order = <<>>}

ASSUME IdsAssumption == Ids \subseteq -MaxInt - 1..MaxInt
ASSUME DataAssumption ==
  \A t \in Types : \A d \in DataOf[t] :
    /\ d \in Seq(Int)
    /\ t \notin {"Text", "Blob"} => Len(d) = 1
    /\ t = "Integer" => d[1] \in -MaxInt - 1..MaxInt
    /\ t = "Float" => d[1] \in Floats
    /\ t = "Blob" => DebugEnd \notin ToSet(d)
ASSUME LikeAssumption == Percent # Underscore /\ MaxPattern \in Nat
ASSUME PagesAssumption == PageSizes \subseteq Nat \ {0}
ASSUME WheresAssumption == \A x \in Wheres : x \in Leaf /\ x.col \in ToSet(Columns)
ASSUME SelectsAssumption == Selects \subseteq Select

VARIABLES
  coltype,    \* the type of c
  rows,       \* the rows stored
  indexed     \* there is an index on c

qvars == <<coltype, rows, indexed>>

TypeOf(col) == IF col = "id" THEN "Integer" ELSE coltype
CValues(t)  == {Val(t, d) : d \in DataOf[t]} \cup {Null}

Init == coltype \in Types /\ rows = {} /\ indexed \in BOOLEAN

Insert == \E id \in Ids, v \in CValues(coltype) :
  /\ \A r \in rows : r[1] # Integer(id)
  /\ rows' = rows \cup {<<Integer(id), v>>}
  /\ UNCHANGED <<coltype, indexed>>
Delete == \E r \in rows : rows' = rows \ {r} /\ UNCHANGED <<coltype, indexed>>

-----------------------------------------------------------------------------
(* The engine: scan_table, get_row and scan_index_eq.                      *)
scan_table    == ByKey(rows)
get_row(pk)   == {r \in rows : serialize_value(r[1]) = serialize_value(pk)}

(* Variant: the primary key is read from the start of the composite key.   *)
PkOfFront(r) == deserialize_value(Composite(r))
PkOf(r) == deserialize_value(serialize_value(r[1]))
index_scan(v) ==
  LET found == {r \in rows : Starts(serialize_value(v), Composite(r))} IN
  ByEntry(UNION {get_row(PkOf(r)) : r \in found})

-----------------------------------------------------------------------------
(* convert_expr_to_where, node by node.  NOT BETWEEN becomes an OR of two  *)
(* comparisons, kept in one node.                                          *)
Simple(col, op, v) == [is |-> "simple", col |-> col, op |-> op, value |-> v]
(* Variant: the upper bound is compared like the lower one.                *)
NotBetweenBelow(x) == [is |-> "either", col |-> x.col, below |-> Simple(x.col, "<", expr_to_value(x.low)),
                                                       above |-> Simple(x.col, "<", expr_to_value(x.high))]
NotBetween(x) == [is |-> "either", col |-> x.col, below |-> Simple(x.col, "<", expr_to_value(x.low)),
                                                  above |-> Simple(x.col, ">", expr_to_value(x.high))]

ConvertNode(x) ==
  CASE x.is = "cmp"     -> Simple(x.col, x.op, expr_to_value(x.lit))
    [] x.is = "between" /\ x.negated  -> NotBetween(x)
    [] x.is = "between" /\ ~x.negated -> [is |-> "between", col |-> x.col, low |-> expr_to_value(x.low),
                                          high |-> expr_to_value(x.high)]
    [] x.is = "in"      -> [is |-> "in", col |-> x.col, negated |-> x.negated,
                            values |-> [i \in DOMAIN x.list |-> expr_to_value(x.list[i])]]
    [] OTHER            -> x  \* and, or, isnull; like: a pattern with the mark of ILIKE or not
convert_expr_to_where(x) == [n \in DOMAIN x |-> ConvertNode(x[n])]

-----------------------------------------------------------------------------
(* like_match: pi and si go through the pattern and the text; star is the  *)
(* last % met (0 if none) and mark where in the text it began.             *)
Loop(p, s) == {l \in [pi : 1..Len(p) + 1, si : 1..Len(s) + 1, star : 0..Len(p), mark : 0..Len(s) + 1] :
                 l.mark <= l.si}
LoopEnds(l, p, s) == l.si > Len(s)
Same(l, p, s) == l.pi <= Len(p) /\ (p[l.pi] = s[l.si] \/ p[l.pi] = Underscore)
AtPercent(l, p) == l.pi <= Len(p) /\ p[l.pi] = Percent
Further(l, p, s) ==
  IF Same(l, p, s) THEN [l EXCEPT !.pi = l.pi + 1, !.si = l.si + 1]
  ELSE IF AtPercent(l, p) THEN [l EXCEPT !.pi = l.pi + 1, !.star = l.pi, !.mark = l.si]
  ELSE [l EXCEPT !.pi = l.star + 1, !.si = l.mark + 1, !.mark = l.mark + 1]
GivesUp(l, p, s) == ~Same(l, p, s) /\ ~AtPercent(l, p) /\ l.star = 0

(* Variant: no backtracking to the last %.                                 *)
like_greedy(p, s) ==
  LET matches[l \in Loop(p, s)] ==
        IF LoopEnds(l, p, s) THEN \A i \in l.pi..Len(p) : p[i] = Percent
        ELSE IF GivesUp(l, p, s) THEN FALSE
        ELSE (Same(l, p, s) \/ AtPercent(l, p)) /\ matches[Further(l, p, s)]
  IN matches[[pi |-> 1, si |-> 1, star |-> 0, mark |-> 0]]
like_match(p, s) ==
  LET matches[l \in Loop(p, s)] ==
        IF LoopEnds(l, p, s) THEN \A i \in l.pi..Len(p) : p[i] = Percent
        ELSE IF GivesUp(l, p, s) THEN FALSE
        ELSE matches[Further(l, p, s)]
  IN matches[[pi |-> 1, si |-> 1, star |-> 0, mark |-> 0]]
lower(s) == [i \in DOMAIN s |-> IF s[i] \in DOMAIN Lower THEN Lower[s[i]] ELSE s[i]]

(* evaluate_predicate: TRUE or FALSE; it panics if it reads a column the   *)
(* row has not, which && and || may keep it from doing.                    *)
Accepted(op) == CASE op = "=" -> {0}  [] op = "<>" -> {-1, 1} [] op = "<" -> {-1}
                  [] op = "<=" -> {-1, 0} [] op = ">" -> {1} [] op = ">=" -> {0, 1}
Compares(x, v) == compare_values(v, x.value) \in Accepted(x.op)
NodeHolds(x, v) ==
  CASE x.is = "simple" -> Compares(x, v)
    [] x.is = "either" -> Compares(x.below, v) \/ Compares(x.above, v)
    [] x.is = "between" -> compare_values(v, x.low) # -1 /\ compare_values(v, x.high) # 1
    [] x.is = "in" -> x.negated # \E i \in DOMAIN x.values : compare_values(v, x.values[i]) = 0
    [] x.is = "isnull" -> x.negated # (v = Null)
    [] x.is = "like" -> x.negated # /\ v.type = "Text"
                                    /\ IF x.insensitive THEN like_match(lower(x.pattern), lower(v.data))
                                       ELSE like_match(x.pattern, v.data)

Holds(w, row) ==
  LET holds[n \in DOMAIN w] ==
        IF w[n].is = "and" THEN holds[w[n].left] /\ holds[w[n].right]
        ELSE IF w[n].is = "or" THEN holds[w[n].left] \/ holds[w[n].right]
        ELSE NodeHolds(w[n], row[Position(w[n].col)])
  IN holds
evaluate_predicate(w, row) == Holds(w, row)[Len(w)]

Panics(w, row) ==
  LET panics[n \in DOMAIN w] ==
        IF w[n].is \in {"and", "or"}
        THEN panics[w[n].left] \/ (Holds(w, row)[w[n].left] = (w[n].is = "and") /\ panics[w[n].right])
        ELSE Position(w[n].col) \notin DOMAIN row
  IN panics[Len(w)]

-----------------------------------------------------------------------------
(* convert_select: the columns by the names they are given, and of the     *)
(* functions what they compute.  A column with an alias is known by the    *)
(* alias only.                                                             *)
Display(item) == IF item.alias # "" THEN item.alias
                 ELSE IF item.is = "fn" THEN item.fn \o "(" \o item.arg \o ")" ELSE item.arg
convert_select(q) ==
  [items |-> [i \in DOMAIN q.items |-> Display(q.items[i])],
   aggregates |-> Among(q.items, {item \in ToSet(q.items) : item.is = "fn"}),
   where |-> convert_expr_to_where(q.where), group |-> q.group, having |-> convert_expr_to_where(q.having),
   order |-> q.order, limit |-> q.limit, offset |-> q.offset]

-----------------------------------------------------------------------------
(* plan_select.                                                            *)
IsEquals(w, col) == w.is = "simple" /\ w.op = "=" /\ w.col = col

Source(where) ==
  IF where = <<>> THEN <<[node |-> "SeqScan"]>>
  ELSE IF IsEquals(Last(where), "id") THEN <<[node |-> "PointLookup", key |-> Last(where).value]>>
  ELSE IF indexed /\ IsEquals(Last(where), "c") THEN <<[node |-> "IndexScan", key |-> Last(where).value]>>
  ELSE <<[node |-> "SeqScan"], [node |-> "Filter", predicate |-> where]>>

Aggregated(q) == q.aggregates # <<>> \/ q.group # <<>>
Wanted(items) == IF items \in {<<>>, <<"*">>} THEN Columns ELSE items
When(condition, nodes) == IF condition THEN nodes ELSE <<>>

(* Variant: the rows are sorted after the projection.                      *)
PlanProjectFirst(q) ==
  Source(q.where)
  \o When(Aggregated(q), <<[node |-> "Aggregate", aggregates |-> q.aggregates, group |-> q.group]>>)
  \o When(q.having # <<>>, <<[node |-> "Having", predicate |-> q.having]>>)
  \o When(~Aggregated(q), <<[node |-> "Projection", columns |-> Wanted(q.items)]>>)
  \o When(q.order # <<>>, <<[node |-> "Sort", order |-> q.order]>>)
  \o When(q.limit # -1 \/ q.offset # 0, <<[node |-> "Limit", limit |-> q.limit, offset |-> q.offset]>>)

plan_select(q) ==
  Source(q.where)
  \o When(Aggregated(q), <<[node |-> "Aggregate", aggregates |-> q.aggregates, group |-> q.group]>>)
  \o When(q.having # <<>>, <<[node |-> "Having", predicate |-> q.having]>>)
  \o When(q.order # <<>>, <<[node |-> "Sort", order |-> q.order]>>)
  \o When(~Aggregated(q), <<[node |-> "Projection", columns |-> Wanted(q.items)]>>)
  \o When(q.limit # -1 \/ q.offset # 0, <<[node |-> "Limit", limit |-> q.limit, offset |-> q.offset]>>)

-----------------------------------------------------------------------------
(* compute_aggregate.  Sums are f64, made an i64 at the end if they are of *)
(* integers.                                                               *)
Present(rs, i) ==
  LET vs == [k \in DOMAIN rs |-> rs[k][i]] IN Among(vs, ToSet(vs) \ {Null})
Infinite == {Infinity, Opposite(Infinity)}
Plus(m, n) == IF NaN \in {m, n} \/ {m, n} = Infinite THEN NaN
              ELSE IF m \in Infinite THEN m ELSE IF n \in Infinite THEN n
              ELSE Nearest(Halves(m) + Halves(n))
Total(vs) ==
  LET sum[n \in 0..Len(vs)] ==
        IF n = 0 THEN 0
        ELSE IF vs[n].type \in Numeric THEN Plus(sum[n - 1], AsFloat(vs[n])) ELSE sum[n - 1]
  IN sum[Len(vs)]
CountNumeric(vs) == Cardinality({k \in DOMAIN vs : vs[k].type \in Numeric})
(* min_by and max_by: the first of the least, the last of the greatest.    *)
Least(vs) == vs[CHOOSE i \in DOMAIN vs : /\ \A j \in DOMAIN vs : compare_values(vs[j], vs[i]) # -1
                                         /\ \A j \in 1..i - 1 : compare_values(vs[j], vs[i]) # 0]
Greatest(vs) == vs[CHOOSE i \in DOMAIN vs : /\ \A j \in DOMAIN vs : compare_values(vs[j], vs[i]) # 1
                                            /\ \A j \in i + 1..Len(vs) : compare_values(vs[j], vs[i]) # 0]

compute_aggregate(agg, rs) ==
  LET i == Position(agg.arg)  vs == Present(rs, i) IN
  CASE agg.fn = "COUNT" /\ agg.arg = "*" -> Integer(Len(rs))
    [] agg.fn = "COUNT" /\ i = 0 /\ agg.arg # "*" -> Integer(0)
    [] agg.fn # "COUNT" /\ i = 0 -> Null
    [] agg.fn = "COUNT" /\ i # 0 -> Integer(Len(vs))
    [] agg.fn = "SUM" /\ i # 0 -> IF CountNumeric(vs) = 0 THEN Null
                                  ELSE IF \A k \in DOMAIN vs : vs[k].type = "Integer"
                                       THEN Integer(AsInteger(Total(vs))) ELSE Float(Total(vs))
    [] agg.fn = "AVG" /\ i # 0 -> IF CountNumeric(vs) = 0 THEN Null
                                  ELSE Val("Float", <<Total(vs), CountNumeric(vs)>>)
    [] agg.fn = "MIN" /\ i # 0 -> IF vs = <<>> THEN Null ELSE Least(vs)
    [] agg.fn = "MAX" /\ i # 0 -> IF vs = <<>> THEN Null ELSE Greatest(vs)

(* execute_aggregate: one row of no group for no rows, else one row per    *)
(* group, the groups in the order they are met.  Keys are equal as f64 has *)
(* it: the two zeros are, and NaN is not equal to itself, so that a row    *)
(* with one begins a group that no other row is put in.                    *)
GroupBy(group) == Among(group, ToSet(Columns))
GroupKey(row, group) == [k \in DOMAIN GroupBy(group) |-> row[Position(GroupBy(group)[k])]]
Equal(v, w) == IF v.type = "Float" /\ w.type = "Float"
               THEN Num(v) # NaN /\ Num(w) # NaN /\ Halves(Num(v)) = Halves(Num(w)) ELSE v = w
SameKey(k, l) == DOMAIN k = DOMAIN l /\ \A i \in DOMAIN k : Equal(k[i], l[i])
(* The row that begins a group, and the rows of that group.                *)
Begins(rs, group, k) == \A j \in 1..k - 1 : ~SameKey(GroupKey(rs[j], group), GroupKey(rs[k], group))
Gathers(first, row, group) == row = first \/ SameKey(GroupKey(first, group), GroupKey(row, group))
(* Variant: a row with a NULL belongs to no group.                         *)
BeginningsPresent(rs, group) ==
  {k \in DOMAIN rs : Begins(rs, group, k) /\ Null \notin ToSet(GroupKey(rs[k], group))}
Beginnings(rs, group) == {k \in DOMAIN rs : Begins(rs, group, k)}
BeginningsAsMet(rs, group) == InOrder(Beginnings(rs, group), LAMBDA j, k : j < k)
GroupRow(rs, aggs, group, first) ==
  LET members == Among(rs, {row \in ToSet(rs) : Gathers(first, row, group)}) IN
  GroupKey(first, group) \o [k \in DOMAIN aggs |-> compute_aggregate(aggs[k], members)]
execute_aggregate(rs, aggs, group) ==
  IF rs = <<>> THEN <<[k \in DOMAIN aggs |-> IF aggs[k].fn = "COUNT" THEN Integer(0) ELSE Null]>>
  ELSE LET beginnings == BeginningsAsMet(rs, group) IN
       [n \in DOMAIN beginnings |-> GroupRow(rs, aggs, group, rs[beginnings[n]])]

-----------------------------------------------------------------------------
Smallest(m, n) == IF m < n THEN m ELSE n

(* The sort is stable.  When the order is contradictory, the outcome of    *)
(* sort_by is unspecified: any order, or a panic.                          *)
(* Two rows equal by the first items are compared by an item whose column  *)
(* is not among theirs.                                                    *)
ReadsMissing(rs, order) == \E j, k \in DOMAIN rs : j # k /\ \E i \in DOMAIN order :
  /\ SortPosition(order[i].col) > Len(rs[j])
  /\ \A m \in 1..i - 1 : /\ SortPosition(order[m].col) <= Len(rs[j])
                          /\ CompareBy(rs[j], rs[k], <<order[m]>>) = 0
SortsBefore(a, b, order, i, j) == CompareBy(a, b, order) < 0 \/ (CompareBy(a, b, order) = 0 /\ i < j)
SortOrder(rs, order) == InOrder(DOMAIN rs, LAMBDA i, j : SortsBefore(rs[i], rs[j], order, i, j))
Sorted(rs, order) == LET at == SortOrder(rs, order) IN [n \in DOMAIN rs |-> rs[at[n]]]

(* evaluate_plan, node by node.  It ends well, with rows, or in a panic; of *)
(* what an unspecified order leaves no more is said.                       *)
Rows(rs) == [end |-> "rows", rows |-> rs]
Panic    == [end |-> "panic", rows |-> <<>>]
Unspecified == [end |-> "unspecified", rows |-> <<>>]

(* Variant: LIMIT counts before OFFSET does.                               *)
CutFirst(rs, node) ==
  SubSeq(IF node.limit = -1 THEN rs ELSE SubSeq(rs, 1, Smallest(node.limit, Len(rs))), node.offset + 1,
         IF node.limit = -1 THEN Len(rs) ELSE Smallest(node.limit, Len(rs)))
Cut(rs, node) ==
  LET rest == SubSeq(rs, node.offset + 1, Len(rs)) IN
  IF node.limit = -1 THEN rest ELSE SubSeq(rest, 1, Smallest(node.limit, Len(rest)))

NodeResult(node, rs) ==
  CASE node.node = "SeqScan" -> Rows(scan_table)
    [] node.node = "PointLookup" -> Rows(ByKey(get_row(node.key)))
    [] node.node = "IndexScan" -> Rows(index_scan(node.key))
    [] node.node \in {"Filter", "Having"} ->
         IF \E k \in DOMAIN rs : Panics(node.predicate, rs[k]) THEN Panic
         ELSE Rows(Among(rs, {row \in ToSet(rs) : evaluate_predicate(node.predicate, row)}))
    [] node.node = "Aggregate" -> Rows(execute_aggregate(rs, node.aggregates, node.group))
    [] node.node = "Sort" ->
         IF ReadsMissing(rs, node.order) THEN Panic
         ELSE IF Len(rs) > 1 /\ Contradictory(rs, node.order) THEN Unspecified
         ELSE Rows(Sorted(rs, node.order))
    [] node.node = "Projection" ->
         Rows([k \in DOMAIN rs |-> [i \in DOMAIN node.columns |-> rs[k][SortPosition(node.columns[i])]]])
    [] node.node = "Limit" -> Rows(Cut(rs, node))

evaluate_plan(plan) ==
  LET result[n \in 0..Len(plan)] ==
        IF n = 0 THEN Rows(<<>>)
        ELSE LET input == result[n - 1] IN
             IF input.end = "rows" THEN NodeResult(plan[n], input.rows) ELSE input
  IN result[Len(plan)]

(* extract_columns: the header of the answer.                              *)
(* Variant: the columns asked for, which need not begin with the groups.   *)
ColumnsAsked(q) == Wanted(q.items)
extract_columns(q) ==
  IF Aggregated(q) THEN q.group \o [k \in DOMAIN q.aggregates |-> Display(q.aggregates[k])]
  ELSE Wanted(q.items)

execute_select(q) == evaluate_plan(plan_select(convert_select(q)))

-----------------------------------------------------------------------------
(* What the answers promise.                                               *)

All == [items |-> <<[is |-> "col", fn |-> "", arg |-> "*", alias |-> ""]>>, where |-> <<>>, group |-> <<>>,
        having |-> <<>>, order |-> <<>>, limit |-> -1, offset |-> 0]
Where(x) == execute_select([All EXCEPT !.where = <<x>>])

(* A comparison with a literal of the column's type: what integers mean by *)
(* it, and floats by their places in the order, -0.0 before 0.0 and NaN    *)
(* last; equality for texts and truth values.                              *)
Meant(op, x, y) == CASE op = "=" -> x = y  [] op = "<>" -> x # y  [] op = "<" -> x < y
                     [] op = "<=" -> x <= y [] op = ">" -> x > y  [] op = ">=" -> x >= y
Means(x, v) == IF v.type \in Numeric THEN Meant(x.op, Num(v), Num(expr_to_value(x.lit)))
               ELSE (v = expr_to_value(x.lit)) = (x.op = "=")
Decided(x) == /\ x.is = "cmp" /\ x.lit.kind # "null" /\ TypeOf(x.col) = expr_to_value(x.lit).type
              /\ TypeOf(x.col) \in Numeric \/ x.op \in {"=", "<>"}
              /\ ~(indexed /\ x.col = "c" /\ coltype = "Text" /\ x.op = "=")

(* However the planner finds them - by the primary key, through the index  *)
(* or by a filter - the rows with a value the comparison means are in the  *)
(* answer, each once, and no other row with a value is (plan_select).  Text*)
(* through an index is the exception: see IndexScanIsEquality.             *)
PlanKeepsAnswer ==
  \A x \in Wheres : Decided(x) =>
    LET answer == Where(x).rows  has(r) == r[Position(x.col)] # Null IN
    /\ {r \in ToSet(answer) : has(r)} = {r \in rows : has(r) /\ Means(x, r[Position(x.col)])}
    /\ Cardinality(ToSet(answer)) = Len(answer)

(* What "find by index" means: the rows that have the key's value          *)
(* (scan_index_eq).  A text is found by every text it begins with.         *)
IndexScanIsEquality ==
  \A v \in CValues(coltype) \ {Null} : indexed => ToSet(index_scan(v)) = {r \in rows : r[2] = v}

(* NOT BETWEEN, NOT IN, NOT LIKE and IS NOT NULL take the rows their        *)
(* positive form leaves, NULLs too (convert_expr_to_where and              *)
(* evaluate_predicate treat each negation on its own).                     *)
Complementary(yes, no) == yes \cup no = rows /\ yes \cap no = {}
NegationSplits ==
  \A x \in Wheres : x.is \in {"between", "in", "like", "isnull"} =>
    Complementary(ToSet(Where(x).rows), ToSet(Where([x EXCEPT !.negated = ~x.negated]).rows))

(* A pattern matches a text if the text can be cut into pieces for its     *)
(* characters: any piece for %, one character for _ or for itself.         *)
Matches(p, s) ==
  \E cut \in [0..Len(p) -> 0..Len(s)] :
    /\ cut[0] = 0 /\ cut[Len(p)] = Len(s)
    /\ \A i \in 1..Len(p) :
         IF p[i] = Percent THEN cut[i] >= cut[i - 1]
         ELSE cut[i] = cut[i - 1] + 1 /\ p[i] \in {Underscore, s[cut[i]]}
Patterns == UNION {[1..n -> {Percent, Underscore} \cup DOMAIN Lower] : n \in 0..MaxPattern}

(* The backtracking loop of like_match finds every match there is and no   *)
(* other, for texts without a percent sign of their own (that one the loop *)
(* takes for the wildcard's own character).                                *)
LikeFinds ==
  \A r \in rows, p \in Patterns :
    r[2].type = "Text" /\ Percent \notin ToSet(r[2].data) => (like_match(p, r[2].data) <=> Matches(p, r[2].data))

(* Pages of any size, one after the other, are the whole answer            *)
(* (PlanNode::Limit over a sort that is stable).                           *)
PagesTile ==
  \A q \in Selects, size \in PageSizes :
    LET whole == execute_select(q)
        page(k) == execute_select([q EXCEPT !.limit = size, !.offset = (k - 1) * size]).rows IN
    q.limit = -1 /\ q.offset = 0 /\ whole.end = "rows" =>
      FlattenSeq([k \in 1..Len(whole.rows) \div size + 1 |-> page(k)]) = whole.rows

(* The groups of a GROUP BY are the rows, each in one group: every row of  *)
(* the answer has the key of a row and stands for that row and those with  *)
(* an equal key - a NULL is equal to NULL, a NaN to nothing - and COUNT    *)
(* tells how many they are (execute_aggregate).                            *)
CountsRows(agg) == agg.fn = "COUNT" /\ agg.arg = "*"
GroupOf(source, group, j) == {i \in DOMAIN source : Gathers(source[j], source[i], group)}
Grouped(groups, source, group, aggs) ==
  LET width == Len(GroupBy(group)) IN
  \E first \in [DOMAIN groups -> DOMAIN source] :
    /\ \A i \in DOMAIN source : \E k \in DOMAIN groups : i \in GroupOf(source, group, first[k])
    /\ \A j, k \in DOMAIN groups :
         j # k => GroupOf(source, group, first[j]) \cap GroupOf(source, group, first[k]) = {}
    /\ \A k \in DOMAIN groups :
         /\ SubSeq(groups[k], 1, width) = GroupKey(source[first[k]], group)
         /\ \A n \in DOMAIN aggs : CountsRows(aggs[n]) =>
              groups[k][width + n] = Integer(Cardinality(GroupOf(source, group, first[k])))
GroupsPartition ==
  \A q \in Selects : q.group # <<>> /\ q.having = <<>> /\ q.limit = -1 /\ q.offset = 0 =>
    LET answer == execute_select(q)  source == execute_select([All EXCEPT !.where = q.where]).rows IN
    answer.end = "rows" /\ source # <<>> => Grouped(answer.rows, source, q.group, convert_select(q).aggregates)

(* The answer's rows are as wide as its header, but for two holes: GROUP BY*)
(* over no rows gives a row without the groups, and a group that is no     *)
(* column is in the header only (extract_columns and execute_aggregate).   *)
HeaderFits ==
  \A q \in Selects :
    LET answer == execute_select(q).rows  header == extract_columns(convert_select(q)) IN
    \/ \A k \in DOMAIN answer : Len(answer[k]) = Len(header)
    \/ GroupBy(q.group) # q.group
    \/ q.group # <<>> /\ execute_select([All EXCEPT !.where = q.where]).rows = <<>>

(* A query panics only if it names an unknown column in a condition, or    *)
(* has HAVING or ORDER BY over an aggregate, whose rows are not the        *)
(* schema's (evaluate_predicate unwraps the position, Sort indexes a row). *)
Named(w) == {w[n].col : n \in {m \in DOMAIN w : w[m].is \notin {"and", "or"}}}
PanicExplained ==
  \A q \in Selects : execute_select(q).end = "panic" =>
    \/ ~Named(q.where) \cup Named(q.having) \subseteq ToSet(Columns)
    \/ (q.having # <<>> \/ q.order # <<>>) /\ (q.group # <<>> \/ \E n \in DOMAIN q.items : q.items[n].is = "fn")
=============================================================================
