---------------------------- MODULE QueryProofs -----------------------------
(***************************************************************************)
(* What the queries of module Query answer, whatever table they are asked  *)
(* of: every lemma about them is about a table that has the type a table has*)
(* (Typed), which module DumpProofs shows of every state. A plan, a        *)
(* condition and the loop of LIKE are recursive functions: that they have  *)
(* their values is proved by induction on their length, or on what is left *)
(* to do.                                                                  *)
(***************************************************************************)
EXTENDS RowsProofs, Query

-----------------------------------------------------------------------------
(* Plans and the stages of a SELECT.                                       *)

(* A plan, node by node.                                                   *)
RunUpTo(g, plan, m) ==
  g = [n \in 0..m |-> IF n = 0 THEN Rows(<<>>) ELSE IF g[n - 1].end = "rows" THEN NodeResult(plan[n], g[n - 1].rows) ELSE g[n - 1]]

LEMMA RunUpToAt ==
  ASSUME NEW g, NEW plan, NEW m \in Nat, RunUpTo(g, plan, m)
  PROVE  /\ g[0] = Rows(<<>>)
         /\ \A n \in Nat : n + 1 <= m => g[n + 1] = IF g[n].end = "rows" THEN NodeResult(plan[n + 1], g[n].rows) ELSE g[n]
<1>1. g[0] = Rows(<<>>)
  BY DEF RunUpTo
<1>2. ASSUME NEW n \in Nat, n + 1 <= m
      PROVE  g[n + 1] = IF g[n].end = "rows" THEN NodeResult(plan[n + 1], g[n].rows) ELSE g[n]
  <2>1. PICK i \in 0..m : i = n + 1
    BY <1>2
  <2>2. g[i] = IF i = 0 THEN Rows(<<>>) ELSE IF g[i - 1].end = "rows" THEN NodeResult(plan[i], g[i - 1].rows) ELSE g[i - 1]
    BY DEF RunUpTo
  <2>3. i # 0 /\ i - 1 = n
    BY <2>1
  <2> QED
    BY <2>1, <2>2, <2>3
<1> QED
  BY <1>1, <1>2

(* A plan of any length has a result at every node.                        *)
LEMMA RunUpToExists ==
  ASSUME NEW plan, NEW k \in Nat
  PROVE  \E g : RunUpTo(g, plan, k)
<1> DEFINE S == {m \in Nat : \E g : RunUpTo(g, plan, m)}
<1>1. 0 \in S
  <2>1. RunUpTo([n \in 0..0 |-> Rows(<<>>)], plan, 0)
    BY DEF RunUpTo
  <2> QED
    BY <2>1
<1>2. ASSUME NEW m \in S PROVE m + 1 \in S
  <2>1. PICK g : RunUpTo(g, plan, m)
    OBVIOUS
  <2> DEFINE next == IF g[m].end = "rows" THEN NodeResult(plan[m + 1], g[m].rows) ELSE g[m]
             h == [n \in 0..m + 1 |-> IF n = m + 1 THEN next ELSE g[n]]
  <2>2. ASSUME NEW n \in 0..m + 1
        PROVE  h[n] = IF n = 0 THEN Rows(<<>>) ELSE IF h[n - 1].end = "rows" THEN NodeResult(plan[n], h[n - 1].rows) ELSE h[n - 1]
    <3>1. CASE n = m + 1
      BY <3>1
    <3>2. CASE n \in 0..m
      <4>1. g[n] = IF n = 0 THEN Rows(<<>>) ELSE IF g[n - 1].end = "rows" THEN NodeResult(plan[n], g[n - 1].rows) ELSE g[n - 1]
        BY <2>1, <3>2 DEF RunUpTo
      <4>2. h[n] = g[n] /\ (n # 0 => h[n - 1] = g[n - 1])
        BY <3>2
      <4> HIDE DEF h
      <4> QED
        BY <4>1, <4>2
    <3> QED
      BY <3>1, <3>2
  <2>3. DOMAIN h = 0..m + 1 /\ h = [n \in 0..m + 1 |-> h[n]]
    OBVIOUS
  <2> HIDE DEF h
  <2>4. RunUpTo(h, plan, m + 1)
    BY <2>2, <2>3 DEF RunUpTo
  <2> QED
    BY <2>4
<1>3. S = Nat
  BY <1>1, <1>2, Induction
<1> QED
  BY <1>3

LEMMA RunIs ==
  ASSUME NEW T, NEW plan \in Seq(T)
  PROVE  \E g : RunUpTo(g, plan, Len(plan)) /\ evaluate_plan(plan) = g[Len(plan)]
<1> DEFINE result == CHOOSE g : RunUpTo(g, plan, Len(plan))
<1>1. RunUpTo(result, plan, Len(plan))
  BY RunUpToExists
<1>2. evaluate_plan(plan) = result[Len(plan)]
  BY DEF evaluate_plan, RunUpTo
<1> QED
  BY <1>1, <1>2

(* The result at a node does not depend on the nodes after it.             *)
LEMMA RunOnce ==
  ASSUME NEW s, NEW t, NEW m \in Nat, NEW k \in Nat, m <= k, NEW g, NEW h,
         RunUpTo(g, s, m), RunUpTo(h, t, k), \A i \in 1..m : s[i] = t[i]
  PROVE  g[m] = h[m]
<1> DEFINE P == {n \in Nat : n <= m => g[n] = h[n]}
<1>1. 0 \in P
  BY RunUpToAt
<1>2. ASSUME NEW n \in P PROVE n + 1 \in P
  <2> SUFFICES ASSUME n + 1 <= m PROVE g[n + 1] = h[n + 1]
    OBVIOUS
  <2>1. g[n + 1] = IF g[n].end = "rows" THEN NodeResult(s[n + 1], g[n].rows) ELSE g[n]
    BY RunUpToAt
  <2>2. h[n + 1] = IF h[n].end = "rows" THEN NodeResult(t[n + 1], h[n].rows) ELSE h[n]
    BY RunUpToAt
  <2> QED
    BY <2>1, <2>2
<1>3. P = Nat
  BY <1>1, <1>2, Induction
<1> QED
  BY <1>3

(* What a node makes of the result so far, if there is one.                *)
Then(r, node) == IF r.end = "rows" THEN NodeResult(node, r.rows) ELSE r

(* evaluate_plan, one node more.                                           *)
LEMMA PlanStep ==
  ASSUME NEW T, NEW s \in Seq(T), NEW x \in T
  PROVE  /\ evaluate_plan(<<>>) = Rows(<<>>)
         /\ evaluate_plan(Append(s, x)) = Then(evaluate_plan(s), x)
<1>1. PICK g : RunUpTo(g, s, Len(s)) /\ evaluate_plan(s) = g[Len(s)]
  BY RunIs
<1> DEFINE t == Append(s, x)
<1>2. t \in Seq(T) /\ Len(t) = Len(s) + 1 /\ t[Len(s) + 1] = x /\ \A i \in 1..Len(s) : s[i] = t[i]
  OBVIOUS
<1> HIDE DEF t
<1>3. PICK h : RunUpTo(h, t, Len(t)) /\ evaluate_plan(t) = h[Len(t)]
  BY <1>2, RunIs
<1>4. Len(s) \in Nat /\ Len(t) \in Nat /\ Len(s) <= Len(t)
  BY <1>2
<1>5. g[Len(s)] = h[Len(s)]
  <2>1. RunUpTo(g, s, Len(s)) /\ RunUpTo(h, t, Len(t))
    BY <1>1, <1>3
  <2>2. \A i \in 1..Len(s) : s[i] = t[i]
    BY <1>2
  <2> QED
    BY ONLY <1>4, <2>1, <2>2, RunOnce
<1>6. h[Len(s) + 1] = IF h[Len(s)].end = "rows" THEN NodeResult(t[Len(s) + 1], h[Len(s)].rows) ELSE h[Len(s)]
  BY <1>3, <1>2, <1>4, RunUpToAt
<1>7. evaluate_plan(<<>>) = Rows(<<>>)
  <2> <<>> \in Seq(T)
    OBVIOUS
  <2>1. PICK f : RunUpTo(f, <<>>, Len(<<>>)) /\ evaluate_plan(<<>>) = f[Len(<<>>)]
    BY RunIs
  <2> QED
    BY <2>1 DEF RunUpTo
<1> QED
  BY <1>1, <1>2, <1>3, <1>5, <1>6, <1>7 DEF t, Then

(* The stages of a SELECT: what is found, grouped, kept, ordered, projected*)
(* and cut.                                                                *)
Found(c)     == evaluate_plan(Source(c.where))
Groups(c)    == IF Aggregated(c)
                THEN Then(Found(c), [node |-> "Aggregate", aggregates |-> c.aggregates, group |-> c.group])
                ELSE Found(c)
Kept(c)      == IF c.having # <<>> THEN Then(Groups(c), [node |-> "Having", predicate |-> c.having]) ELSE Groups(c)
Ordered(c)   == IF c.order # <<>> THEN Then(Kept(c), [node |-> "Sort", order |-> c.order]) ELSE Kept(c)
Projected(c) == IF ~Aggregated(c) THEN Then(Ordered(c), [node |-> "Projection", columns |-> Wanted(c.items)])
                ELSE Ordered(c)

(* execute_select goes through these stages and cuts the last (plan_select,*)
(* evaluate_plan).                                                         *)
LEMMA SelectRuns ==
  ASSUME NEW c
  PROVE  evaluate_plan(plan_select(c)) =
           IF c.limit # -1 \/ c.offset # 0
           THEN Then(Projected(c), [node |-> "Limit", limit |-> c.limit, offset |-> c.offset]) ELSE Projected(c)
<1> DEFINE p1 == Source(c.where)
           n2 == [node |-> "Aggregate", aggregates |-> c.aggregates, group |-> c.group]
           n3 == [node |-> "Having", predicate |-> c.having]
           n4 == [node |-> "Sort", order |-> c.order]
           n5 == [node |-> "Projection", columns |-> Wanted(c.items)]
           n6 == [node |-> "Limit", limit |-> c.limit, offset |-> c.offset]
           b2 == Aggregated(c)
           b3 == c.having # <<>>
           b4 == c.order # <<>>
           b6 == c.limit # -1 \/ c.offset # 0
           p2 == IF b2 THEN Append(p1, n2) ELSE p1
           p3 == IF b3 THEN Append(p2, n3) ELSE p2
           p4 == IF b4 THEN Append(p3, n4) ELSE p3
           p5 == IF ~b2 THEN Append(p4, n5) ELSE p4
           p6 == IF b6 THEN Append(p5, n6) ELSE p5
           a1 == [node |-> "SeqScan"]
           a2 == [node |-> "PointLookup", key |-> Last(c.where).value]
           a3 == [node |-> "IndexScan", key |-> Last(c.where).value]
           a4 == [node |-> "Filter", predicate |-> c.where]
           T == {a1, a2, a3, a4, n2, n3, n4, n5, n6}
<1>4. plan_select(c) = ((((p1 \o When(b2, <<n2>>)) \o When(b3, <<n3>>)) \o When(b4, <<n4>>)) \o When(~b2, <<n5>>))
                         \o When(b6, <<n6>>)
  BY DEF plan_select
<1>5. Found(c) = evaluate_plan(p1)
  BY DEF Found
<1>6. /\ Groups(c) = IF b2 THEN Then(Found(c), n2) ELSE Found(c)
      /\ Kept(c) = IF b3 THEN Then(Groups(c), n3) ELSE Groups(c)
      /\ Ordered(c) = IF b4 THEN Then(Kept(c), n4) ELSE Kept(c)
      /\ Projected(c) = IF ~b2 THEN Then(Ordered(c), n5) ELSE Ordered(c)
  BY DEF Groups, Kept, Ordered, Projected
<1> HIDE DEF n2, n3, n4, n5, n6, b2, b3, b4, b6
<1>1. p1 \in Seq(T)
  <2>1. p1 = <<a1>> \/ p1 = <<a2>> \/ p1 = <<a3>> \/ p1 = <<a1, a4>>
    BY DEF Source
  <2> HIDE DEF p1, a1, a2, a3, a4
  <2>2. a1 \in T /\ a2 \in T /\ a3 \in T /\ a4 \in T
    OBVIOUS
  <2> HIDE DEF T
  <2>3. \A a, b \in T : <<a>> \in Seq(T) /\ <<a, b>> \in Seq(T)
    OBVIOUS
  <2> QED
    BY <2>1, <2>2, <2>3
<1>3. n2 \in T /\ n3 \in T /\ n4 \in T /\ n5 \in T /\ n6 \in T
  OBVIOUS
<1> HIDE DEF p1, T
<1>12. /\ p2 \in Seq(T) /\ p1 \o When(b2, <<n2>>) = p2
       /\ evaluate_plan(p2) = IF b2 THEN Then(evaluate_plan(p1), n2) ELSE evaluate_plan(p1)
  <2>1. CASE b2
    <3>1. p2 = Append(p1, n2) /\ p2 \in Seq(T) /\ p1 \o <<n2>> = Append(p1, n2)
      BY <2>1, <1>1, <1>3
    <3>2. evaluate_plan(Append(p1, n2)) = Then(evaluate_plan(p1), n2)
      BY <1>1, <1>3, PlanStep
    <3> HIDE DEF p2
    <3> QED
      BY <2>1, <3>1, <3>2 DEF When
  <2>2. CASE ~(b2)
    <3>1. p2 = p1 /\ p2 \in Seq(T) /\ p1 \o <<>> = p1
      BY <2>2, <1>1
    <3> HIDE DEF p2
    <3> QED
      BY <2>2, <3>1 DEF When
  <2> QED
    BY <2>1, <2>2
<1> HIDE DEF p2
<1>13. /\ p3 \in Seq(T) /\ p2 \o When(b3, <<n3>>) = p3
       /\ evaluate_plan(p3) = IF b3 THEN Then(evaluate_plan(p2), n3) ELSE evaluate_plan(p2)
  <2>1. CASE b3
    <3>1. p3 = Append(p2, n3) /\ p3 \in Seq(T) /\ p2 \o <<n3>> = Append(p2, n3)
      BY <2>1, <1>12, <1>3
    <3>2. evaluate_plan(Append(p2, n3)) = Then(evaluate_plan(p2), n3)
      BY <1>12, <1>3, PlanStep
    <3> HIDE DEF p3
    <3> QED
      BY <2>1, <3>1, <3>2 DEF When
  <2>2. CASE ~(b3)
    <3>1. p3 = p2 /\ p3 \in Seq(T) /\ p2 \o <<>> = p2
      BY <2>2, <1>12
    <3> HIDE DEF p3
    <3> QED
      BY <2>2, <3>1 DEF When
  <2> QED
    BY <2>1, <2>2
<1> HIDE DEF p3
<1>14. /\ p4 \in Seq(T) /\ p3 \o When(b4, <<n4>>) = p4
       /\ evaluate_plan(p4) = IF b4 THEN Then(evaluate_plan(p3), n4) ELSE evaluate_plan(p3)
  <2>1. CASE b4
    <3>1. p4 = Append(p3, n4) /\ p4 \in Seq(T) /\ p3 \o <<n4>> = Append(p3, n4)
      BY <2>1, <1>13, <1>3
    <3>2. evaluate_plan(Append(p3, n4)) = Then(evaluate_plan(p3), n4)
      BY <1>13, <1>3, PlanStep
    <3> HIDE DEF p4
    <3> QED
      BY <2>1, <3>1, <3>2 DEF When
  <2>2. CASE ~(b4)
    <3>1. p4 = p3 /\ p4 \in Seq(T) /\ p3 \o <<>> = p3
      BY <2>2, <1>13
    <3> HIDE DEF p4
    <3> QED
      BY <2>2, <3>1 DEF When
  <2> QED
    BY <2>1, <2>2
<1> HIDE DEF p4
<1>15. /\ p5 \in Seq(T) /\ p4 \o When(~b2, <<n5>>) = p5
       /\ evaluate_plan(p5) = IF ~b2 THEN Then(evaluate_plan(p4), n5) ELSE evaluate_plan(p4)
  <2>1. CASE ~b2
    <3>1. p5 = Append(p4, n5) /\ p5 \in Seq(T) /\ p4 \o <<n5>> = Append(p4, n5)
      BY <2>1, <1>14, <1>3
    <3>2. evaluate_plan(Append(p4, n5)) = Then(evaluate_plan(p4), n5)
      BY <1>14, <1>3, PlanStep
    <3> HIDE DEF p5
    <3> QED
      BY <2>1, <3>1, <3>2 DEF When
  <2>2. CASE ~(~b2)
    <3>1. p5 = p4 /\ p5 \in Seq(T) /\ p4 \o <<>> = p4
      BY <2>2, <1>14
    <3> HIDE DEF p5
    <3> QED
      BY <2>2, <3>1 DEF When
  <2> QED
    BY <2>1, <2>2
<1> HIDE DEF p5
<1>16. /\ p6 \in Seq(T) /\ p5 \o When(b6, <<n6>>) = p6
       /\ evaluate_plan(p6) = IF b6 THEN Then(evaluate_plan(p5), n6) ELSE evaluate_plan(p5)
  <2>1. CASE b6
    <3>1. p6 = Append(p5, n6) /\ p6 \in Seq(T) /\ p5 \o <<n6>> = Append(p5, n6)
      BY <2>1, <1>15, <1>3
    <3>2. evaluate_plan(Append(p5, n6)) = Then(evaluate_plan(p5), n6)
      BY <1>15, <1>3, PlanStep
    <3> HIDE DEF p6
    <3> QED
      BY <2>1, <3>1, <3>2 DEF When
  <2>2. CASE ~(b6)
    <3>1. p6 = p5 /\ p6 \in Seq(T) /\ p5 \o <<>> = p5
      BY <2>2, <1>15
    <3> HIDE DEF p6
    <3> QED
      BY <2>2, <3>1 DEF When
  <2> QED
    BY <2>1, <2>2
<1> HIDE DEF p6
<1>17. evaluate_plan(p2) = Groups(c) /\ evaluate_plan(p3) = Kept(c) /\ evaluate_plan(p4) = Ordered(c)
       /\ evaluate_plan(p5) = Projected(c)
  BY <1>12, <1>13, <1>14, <1>15, <1>5, <1>6
<1>18. plan_select(c) = p6
  BY <1>4, <1>12, <1>13, <1>14, <1>15, <1>16
<1> QED
  BY <1>16, <1>17, <1>18 DEF b6, n6

-----------------------------------------------------------------------------
(* The rows of a table: a key of 64 bits, a value of the column's type or  *)
(* NULL, and no two rows with one key.                                     *)
Cells == CValues(coltype)
TableRows(rs) ==
  /\ IsFiniteSet(rs)
  /\ \A r \in rs : \E id \in Ids, v \in Cells : r = <<Integer(id), v>>
  /\ \A r, t \in rs : r[1] = t[1] => r = t
Typed == coltype \in Types /\ TableRows(rows)

(* What a cell of column c holds.                                          *)
LEMMA CellIs ==
  ASSUME coltype \in Types, NEW v \in Cells
  PROVE  /\ v = Null \/ (v \in Of(coltype) /\ v.type = coltype /\ v # Null)
         /\ v.data \in Seq(Int)
<1>1. CASE v = Null
  BY <1>1 DEF Null, Val
<1>2. CASE \E d \in DataOf[coltype] : v = Val(coltype, d)
  <2>1. PICK d \in DataOf[coltype] : v = Val(coltype, d)
    BY <1>2
  <2>2. /\ d \in Seq(Int)
        /\ coltype \notin {"Text", "Blob"} => Len(d) = 1
        /\ coltype = "Integer" => d[1] \in Int64
        /\ coltype = "Blob" => DebugEnd \notin ToSet(d)
    BY DataAssumption DEF Int64
  <2>3. d \in Data(coltype)
    <3>1. CASE coltype = "Integer"
      <4>1. d = <<d[1]>>
        BY <2>2, <3>1
      <4> QED
        BY <2>2, <3>1, <4>1 DEF Data
    <3>2. CASE coltype \in {"Float", "Boolean", "Timestamp"}
      <4>1. d = <<d[1]>> /\ d[1] \in Int
        BY <2>2, <3>2
      <4> QED
        BY <3>2, <4>1 DEF Data
    <3>3. CASE coltype = "Text"
      BY <2>2, <3>3 DEF Data
    <3>4. CASE coltype = "Blob"
      <4>1. \A i \in 1..Len(d) : d[i] \in Int \ {DebugEnd}
        BY <2>2, <3>4 DEF ToSet
      <4>2. d \in Seq(Int \ {DebugEnd})
        BY <2>2, <4>1
      <4> QED
        BY <3>4, <4>2 DEF Data
    <3> QED
      BY <3>1, <3>2, <3>3, <3>4 DEF Types
  <2>4. v.type = coltype /\ v.data = d /\ v # Null
    BY <2>1 DEF Val, Null, Types
  <2> QED
    BY <2>1, <2>2, <2>3, <2>4 DEF Of
<1> QED
  BY <1>1, <1>2 DEF Cells, CValues

(* What a row of the table holds.                                          *)
LEMMA RowIs ==
  ASSUME Typed, NEW r \in rows
  PROVE  /\ r[1] \in Of("Integer") /\ r[1].type = "Integer" /\ r[1] # Null /\ r[1].data \in Seq(Int)
         /\ r[2] \in Cells /\ r = <<r[1], r[2]>> /\ DOMAIN r = 1..2 /\ Len(r) = 2
<1>1. PICK id \in Ids, v \in Cells : r = <<Integer(id), v>>
  BY DEF Typed, TableRows
<1>2. id \in Int64
  BY IdsAssumption DEF Int64
<1>3. Integer(id) \in Of("Integer") /\ Integer(id).type = "Integer" /\ Integer(id) # Null
  BY <1>2 DEF Integer, Val, Of, Data, Null
<1>4. Integer(id).data \in Seq(Int)
  BY <1>2 DEF Integer, Val, Int64
<1> QED
  BY <1>1, <1>3, <1>4

(* The keys of rows differ where the rows do, and order them.              *)
LEMMA KeysIdentify ==
  ASSUME NEW v \in Of("Integer"), NEW w \in Of("Integer")
  PROVE  /\ serialize_value(v) \in Seq(Int)
         /\ serialize_value(v) = serialize_value(w) => v = w
<1>1. ASSUME NEW u \in Of("Integer") PROVE serialize_value(u) \in Seq(Int) /\ deserialize_value(serialize_value(u)) = u
  <2>1. PICK n \in Int64 : serialize_value(u) = <<1, IF n >= 0 THEN n ELSE n + 2 * MaxInt + 2>>
    BY KeyOfInteger
  <2> QED
    BY <2>1, KeysDecode, MaxIntAssumption DEF Int64
<1> QED
  BY <1>1

LEMMA OrderByKey ==
  ASSUME Typed, NEW S \in SUBSET rows, NEW R, R = {p \in S \X S : KeyLess(p[1], p[2])}
  PROVE  IsFiniteSet(S) /\ StrictOrder(S, R)
<1>1. IsFiniteSet(S)
  BY FS_Subset DEF Typed, TableRows
<1>2. ASSUME NEW x \in S, NEW y \in S, x # y PROVE KeyLess(x, y) <=> ~KeyLess(y, x)
  <2>1. x[1] \in Of("Integer") /\ y[1] \in Of("Integer") /\ x[1] # y[1]
    BY <1>2, RowIs DEF Typed, TableRows
  <2>2. serialize_value(x[1]) \in Seq(Int) /\ serialize_value(y[1]) \in Seq(Int)
        /\ serialize_value(x[1]) # serialize_value(y[1])
    BY <2>1, KeysIdentify
  <2> QED
    BY <2>2, OrderOf DEF KeyLess, Order
<1>3. ASSUME NEW x \in S, NEW y \in S, NEW z \in S, KeyLess(x, y), KeyLess(y, z) PROVE KeyLess(x, z)
  <2>1. x[1] \in Of("Integer") /\ y[1] \in Of("Integer") /\ z[1] \in Of("Integer")
    BY RowIs
  <2>2. serialize_value(x[1]) \in Seq(Int) /\ serialize_value(y[1]) \in Seq(Int) /\ serialize_value(z[1]) \in Seq(Int)
    BY <2>1, KeysIdentify
  <2> QED
    BY <1>3, <2>2, LexTransitive DEF KeyLess
<1> QED
  BY <1>1, <1>2, <1>3 DEF StrictOrder

(* ByKey lists a set of rows, each once.                                   *)
LEMMA InKeyOrder ==
  ASSUME Typed, NEW S \in SUBSET rows
  PROVE  LET g == ByKey(S) IN
         /\ g \in Seq(S) /\ {g[n] : n \in 1..Len(g)} = S
         /\ \A m, n \in 1..Len(g) : g[m] = g[n] => m = n
<1> DEFINE R == {p \in S \X S : KeyLess(p[1], p[2])}
           g == ByKey(S)
<1>1. IsFiniteSet(S) /\ StrictOrder(S, R)
  BY OrderByKey
<1>2. \A x \in S : {y \in S \ {x} : KeyLess(y, x)} = Before(S, R, x)
  BY DEF Before
<1> HIDE DEF R
<1> DEFINE ranked(n) == CHOOSE x \in S : Cardinality({y \in S \ {x} : KeyLess(y, x)}) = n - 1
           at == [n \in 1..Cardinality(S) |-> ranked(n)]
<1>6. g = at
  BY DEF ByKey, InOrder
<1> HIDE DEF g, ranked
<1>3. at = [n \in 1..Cardinality(S) |-> at[n]]
  OBVIOUS
<1>4. ASSUME NEW n \in 1..Cardinality(S) PROVE at[n] \in S /\ Cardinality(Before(S, R, at[n])) = n - 1
  <2>0. PICK x \in S : Cardinality(Before(S, R, x)) = n - 1
    BY <1>1, RankIsPlace
  <2>1. Cardinality({y \in S \ {x} : KeyLess(y, x)}) = n - 1
    BY <1>2, <2>0
  <2>2. at[n] = CHOOSE z \in S : Cardinality({y \in S \ {z} : KeyLess(y, z)}) = n - 1
    BY DEF ranked
  <2> HIDE DEF at
  <2>3. at[n] \in S /\ Cardinality({y \in S \ {at[n]} : KeyLess(y, at[n])}) = n - 1
    BY <2>1, <2>2
  <2> QED
    BY <1>2, <2>3
<1> HIDE DEF at
<1>5. Lists(at, S, R)
  BY <1>3, <1>4 DEF Lists
<1>7. /\ at \in Seq(S) /\ {at[n] : n \in 1..Len(at)} = S
      /\ \A m, n \in 1..Len(at) : at[m] = at[n] => m = n
  BY <1>1, <1>5, ListFacts
<1> QED
  BY <1>6, <1>7 DEF g

(* Plans of one node and of two.                                           *)
LEMMA ShortPlans ==
  ASSUME NEW x, NEW y
  PROVE  /\ evaluate_plan(<<x>>) = NodeResult(x, <<>>)
         /\ evaluate_plan(<<x, y>>) = Then(NodeResult(x, <<>>), y)
<1> DEFINE T == {x, y}
<1>1. evaluate_plan(<<>>) = Rows(<<>>) /\ Rows(<<>>).end = "rows" /\ Rows(<<>>).rows = <<>>
  BY PlanStep, <<>> \in Seq(T), x \in T DEF Rows
<1>2. evaluate_plan(Append(<<>>, x)) = Then(evaluate_plan(<<>>), x)
  BY PlanStep, <<>> \in Seq(T), x \in T
<1>3. evaluate_plan(Append(<<x>>, y)) = Then(evaluate_plan(<<x>>), y)
  BY PlanStep, <<x>> \in Seq(T), y \in T
<1>4. Append(<<>>, x) = <<x>> /\ Append(<<x>>, y) = <<x, y>>
  <2> HIDE DEF T
  <2>1. ASSUME NEW s \in Seq(T), NEW t \in Seq(T), Len(s) = Len(t), \A i \in 1..Len(s) : s[i] = t[i] PROVE s = t
    BY <2>1
  <2>2. x \in T /\ y \in T
    BY DEF T
  <2>5. \A i \in 1..2 : i = 1 \/ i = 2
    OBVIOUS
  <2>6. Append(<<>>, x) = <<x>>
    <3> DEFINE a == Append(<<>>, x)  b == <<x>>
    <3>1. a \in Seq(T) /\ b \in Seq(T) /\ Len(a) = 1 /\ Len(b) = 1 /\ a[1] = b[1]
      BY <2>2
    <3> HIDE DEF a, b
    <3>2. a = b
      BY <2>1, <3>1
    <3> QED
      BY <3>2 DEF a, b
  <2>7. Append(<<x>>, y) = <<x, y>>
    <3> DEFINE a == Append(<<x>>, y)  b == <<x, y>>
    <3>1. a \in Seq(T) /\ b \in Seq(T) /\ Len(a) = 2 /\ Len(b) = 2 /\ a[1] = b[1] /\ a[2] = b[2]
      BY <2>2
    <3> HIDE DEF a, b
    <3>2. a = b
      BY <2>1, <2>5, <3>1
    <3> QED
      BY <3>2 DEF a, b
  <2> QED
    BY <2>6, <2>7
<1>5. Then(Rows(<<>>), x) = NodeResult(x, <<>>)
  BY <1>1 DEF Then
<1> QED
  BY <1>1, <1>2, <1>3, <1>4, <1>5

(* Conditions, converted.                                                  *)
Forks == {"and", "or"}

(* convert_expr_to_where keeps the nodes and their places.                 *)
LEMMA ConvertedIs ==
  ASSUME NEW w \in Condition
  PROVE  LET c == convert_expr_to_where(w) IN
         /\ Len(w) \in Nat /\ DOMAIN w = 1..Len(w) /\ DOMAIN c = 1..Len(w) /\ Len(c) = Len(w)
         /\ (c = <<>>) <=> (w = <<>>)
         /\ \A n \in 1..Len(w) :
              /\ c[n] = ConvertNode(w[n])
              /\ w[n].is \in Forks => c[n] = w[n] /\ {w[n].left, w[n].right} \subseteq 1..n - 1
              /\ w[n].is \notin Forks => w[n] \in Leaf /\ c[n].is \notin Forks /\ c[n].col = w[n].col
<1> DEFINE c == convert_expr_to_where(w)
           Node == Leaf \cup [is : {"and", "or"}, left : Nat, right : Nat]
<1>1. w \in Seq(Node) /\ \A n \in DOMAIN w : w[n].is \in Forks => {w[n].left, w[n].right} \subseteq 1..n - 1
  BY DEF Condition, Forks
<1>2. Len(w) \in Nat /\ DOMAIN w = 1..Len(w)
  BY <1>1
<1>3. c = [n \in 1..Len(w) |-> ConvertNode(w[n])]
  BY <1>2 DEF convert_expr_to_where
<1>4. DOMAIN c = 1..Len(w) /\ Len(c) = Len(w)
  BY <1>2, <1>3
<1>5. (c = <<>>) <=> (w = <<>>)
  <2>1. w = <<>> => c = <<>>
    BY <1>3
  <2>2. c = <<>> => w = <<>>
    BY <1>1, <1>4
  <2> QED
    BY <2>1, <2>2
<1>6. ASSUME NEW n \in 1..Len(w)
      PROVE  /\ c[n] = ConvertNode(w[n])
             /\ w[n].is \in Forks => c[n] = w[n] /\ {w[n].left, w[n].right} \subseteq 1..n - 1
             /\ w[n].is \notin Forks => w[n] \in Leaf /\ c[n].is \notin Forks /\ c[n].col = w[n].col
  <2> DEFINE x == w[n]
  <2>1. c[n] = ConvertNode(x) /\ x \in Node
    BY <1>1, <1>2, <1>3
  <2>2. x.is \in Forks => ConvertNode(x) = x /\ {x.left, x.right} \subseteq 1..n - 1
    BY <1>1, <1>2 DEF ConvertNode, Forks
  <2> HIDE DEF x
  <2>3. x.is \notin Forks => x \in Leaf
    BY <2>1 DEF Forks
  <2>4. ASSUME x \in Leaf PROVE ConvertNode(x).is \notin Forks /\ ConvertNode(x).col = x.col
    <3>1. CASE x.is = "cmp"
      BY <2>4, <3>1 DEF ConvertNode, Simple, Forks
    <3>2. CASE x.is = "between"
      <4>1. x.negated \in BOOLEAN
        BY <2>4, <3>2 DEF Leaf
      <4> QED
        BY <2>4, <3>2, <4>1 DEF ConvertNode, NotBetween, Simple, Forks
    <3>3. CASE x.is = "in"
      BY <2>4, <3>3 DEF ConvertNode, Forks
    <3>4. CASE x.is \in {"like", "isnull"}
      BY <2>4, <3>4 DEF ConvertNode, Forks
    <3> QED
      BY <2>4, <3>1, <3>2, <3>3, <3>4 DEF Leaf
  <2> QED
    BY <2>1, <2>2, <2>3, <2>4 DEF x
<1> QED
  BY <1>2, <1>4, <1>5, <1>6

(* The columns of the table.                                               *)
LEMMA PositionIs ==
  ASSUME NEW col
  PROVE  /\ Position(col) = IF col = "id" THEN 1 ELSE IF col = "c" THEN 2 ELSE 0
         /\ SortPosition(col) \in 1..2
         /\ col \in ToSet(Columns) <=> Position(col) \in 1..2
<1>1. DOMAIN Columns = 1..2 /\ Columns[1] = "id" /\ Columns[2] = "c"
  BY DEF Columns
<1>2. ToSet(Columns) = {"id", "c"}
  BY <1>1 DEF ToSet
<1>3. Position(col) = IF col = "id" THEN 1 ELSE IF col = "c" THEN 2 ELSE 0
  <2>1. CASE col = "id"
    <3>1. \A i \in DOMAIN Columns : Columns[i] = col <=> i = 1
      BY <1>1, <2>1
    <3> QED
      BY <1>1, <2>1, <3>1 DEF Position
  <2>2. CASE col = "c"
    <3>1. \A i \in DOMAIN Columns : Columns[i] = col <=> i = 2
      BY <1>1, <2>2
    <3> QED
      BY <1>1, <2>2, <3>1 DEF Position
  <2>3. CASE col # "id" /\ col # "c"
    <3>1. \A i \in DOMAIN Columns : Columns[i] # col
      BY <1>1, <2>3
    <3> QED
      BY <2>3, <3>1 DEF Position
  <2> QED
    BY <2>1, <2>2, <2>3
<1> QED
  BY <1>2, <1>3 DEF SortPosition

(* No panic where every column named is there.                             *)
PanicsAre(g, w, row) ==
  g = [n \in DOMAIN w |->
         IF w[n].is \in {"and", "or"}
         THEN g[w[n].left] \/ (Holds(w, row)[w[n].left] = (w[n].is = "and") /\ g[w[n].right])
         ELSE Position(w[n].col) \notin DOMAIN row]

LEMMA PanicsOnlyUnnamed ==
  ASSUME NEW w \in Condition, w # <<>>, NEW row, DOMAIN row = 1..2, Named(w) \subseteq ToSet(Columns)
  PROVE  ~Panics(convert_expr_to_where(w), row)
<1> DEFINE c == convert_expr_to_where(w)
<1>1. /\ Len(w) \in Nat /\ DOMAIN c = 1..Len(w) /\ Len(c) = Len(w) /\ w \in Seq({w[n] : n \in 1..Len(w)})
      /\ \A n \in 1..Len(w) : c[n].is \in Forks => {c[n].left, c[n].right} \subseteq 1..n - 1
      /\ \A n \in 1..Len(w) : c[n].is \notin Forks => w[n].is \notin Forks /\ c[n].col = w[n].col
  <2>1. w \in Seq({w[n] : n \in 1..Len(w)})
    BY DEF Condition
  <2> QED
    BY <2>1, ConvertedIs
<1>2. \A n \in 1..Len(w) : c[n].is \notin Forks => Position(c[n].col) \in 1..2
  <2>1. DOMAIN w = 1..Len(w)
    BY ConvertedIs
  <2>2. \A n \in 1..Len(w) : w[n].is \notin Forks => w[n].col \in ToSet(Columns)
    BY <2>1 DEF Named, Forks
  <2> QED
    BY <1>1, <2>2, PositionIs
<1>3. Len(w) \in 1..Len(w)
  BY <1>1
<1> HIDE DEF c
<1>4. PanicsAre([n \in DOMAIN c |-> FALSE], c, row)
  <2> DEFINE g == [n \in DOMAIN c |-> FALSE]
  <2>1. ASSUME NEW n \in DOMAIN c
        PROVE  (IF c[n].is \in {"and", "or"}
                THEN g[c[n].left] \/ (Holds(c, row)[c[n].left] = (c[n].is = "and") /\ g[c[n].right])
                ELSE Position(c[n].col) \notin DOMAIN row) = FALSE
    <3>1. CASE c[n].is \in {"and", "or"}
      <4>1. c[n].left \in DOMAIN c /\ c[n].right \in DOMAIN c
        BY <1>1, <3>1 DEF Forks
      <4>2. ~g[c[n].left] /\ ~g[c[n].right]
        BY <4>1
      <4> QED
        BY <3>1, <4>2
    <3>2. CASE c[n].is \notin {"and", "or"}
      BY <1>1, <1>2, <3>2 DEF Forks
    <3> QED
      BY <3>1, <3>2
  <2> QED
    BY <2>1, Zenon DEF PanicsAre
<1> DEFINE g == CHOOSE g : PanicsAre(g, c, row)
<1>5. PanicsAre(g, c, row)
  BY <1>4
<1>6. Panics(c, row) = g[Len(c)]
  BY DEF Panics, PanicsAre
<1> HIDE DEF g
<1>7. ASSUME NEW n \in 1..Len(w)
      PROVE  g[n] = IF c[n].is \in {"and", "or"}
                    THEN g[c[n].left] \/ (Holds(c, row)[c[n].left] = (c[n].is = "and") /\ g[c[n].right])
                    ELSE Position(c[n].col) \notin DOMAIN row
  BY <1>1, <1>5, Zenon DEF PanicsAre
<1> DEFINE P == {m \in Nat : \A n \in 1..Len(w) : n <= m => ~g[n]}
<1>8. P = Nat
  <2>1. 0 \in P
    BY <1>1
  <2>2. ASSUME NEW m \in P PROVE m + 1 \in P
    <3> SUFFICES ASSUME m + 1 \in 1..Len(w) PROVE ~g[m + 1]
      BY <1>1
    <3>1. CASE c[m + 1].is \in {"and", "or"}
      <4>1. c[m + 1].left \in 1..m /\ c[m + 1].right \in 1..m
        BY <1>1, <3>1 DEF Forks
      <4>2. c[m + 1].left \in 1..Len(w) /\ c[m + 1].right \in 1..Len(w)
        BY <4>1, <1>1
      <4>3. ~g[c[m + 1].left] /\ ~g[c[m + 1].right]
        BY <4>1, <4>2
      <4> QED
        BY <1>7, <3>1, <4>3
    <3>2. CASE c[m + 1].is \notin {"and", "or"}
      BY <1>7, <1>2, <3>2 DEF Forks
    <3> QED
      BY <3>1, <3>2
  <2> QED
    BY <2>1, <2>2, Induction
<1>9. ~g[Len(w)]
  BY <1>1, <1>3, <1>8
<1> QED
  BY <1>1, <1>6, <1>9 DEF c

-----------------------------------------------------------------------------
(* The engine: what is found by key, by index and by a scan.               *)

(* What the entry of a row in the index is made of.                        *)
LEMMA EntryIs ==
  ASSUME Typed, NEW r \in rows
  PROVE  /\ serialize_value(r[2]) \in Seq(Int) /\ Len(serialize_value(r[2])) >= 1
         /\ serialize_value(r[1]) \in Seq(Int) /\ Len(serialize_value(r[1])) = 2
         /\ Composite(r) = serialize_value(r[2]) \o serialize_value(r[1]) /\ Composite(r) \in Seq(Int)
<1>1. r[1] \in Of("Integer") /\ r[2] \in Cells
  BY RowIs
<1>2. r[2] = Null \/ r[2] \in Of(coltype)
  BY <1>1, CellIs DEF Typed
<1>3. serialize_value(r[1]) \in Seq(Int) /\ Len(serialize_value(r[1])) = 2
  <2>1. PICK n \in Int64 : serialize_value(r[1]) = <<1, IF n >= 0 THEN n ELSE n + 2 * MaxInt + 2>>
    BY <1>1, KeyOfInteger
  <2> QED
    BY <2>1, MaxIntAssumption DEF Int64
<1>4. serialize_value(r[2]) \in Seq(Int) /\ Len(serialize_value(r[2])) >= 1
  <2>1. CASE r[2] = Null
    <3>1. serialize_value(r[2]) = <<0>>
      BY <2>1 DEF Null, Val, serialize_value
    <3> QED
      BY <3>1
  <2>2. CASE r[2] \in Of("Integer")
    <3>1. PICK n \in Int64 : serialize_value(r[2]) = <<1, IF n >= 0 THEN n ELSE n + 2 * MaxInt + 2>>
      BY <2>2, KeyOfInteger
    <3> QED
      BY <3>1, MaxIntAssumption DEF Int64
  <2>3. CASE r[2] \in Of("Text")
    <3>1. serialize_value(r[2]) = <<2>> \o r[2].data /\ r[2].data \in Seq(Int)
      BY <2>3, KeyOfText
    <3> QED
      BY <3>1
  <2>4. CASE coltype \in {"Float", "Blob", "Boolean", "Timestamp"} /\ r[2] \in Of(coltype)
    <3> DEFINE d == r[2].data  s == <<2, DebugMark, TypeMark(coltype)>> \o d \o <<DebugEnd>>
    <3>1. serialize_value(r[2]) = s /\ d \in Seq(Int)
      BY <2>4, KeyOfOther
    <3>2. TypeMark(coltype) \in Int
      BY <2>4 DEF TypeMark
    <3>3. s \in Seq(Int) /\ Len(s) = Len(d) + 4
      BY <3>1, <3>2, <<>> \in Seq(Int), OtherPlaces
    <3>4. Len(d) \in Nat
      BY <3>1
    <3> HIDE DEF d, s
    <3> QED
      BY <3>1, <3>3, <3>4
  <2> QED
    BY <1>2, <2>1, <2>2, <2>3, <2>4 DEF Typed, Types
<1> QED
  BY <1>3, <1>4 DEF Composite

(* Sequences of one length that end two equal ones are equal.              *)
LEMMA SameEnds ==
  ASSUME NEW a \in Seq(Int), NEW b \in Seq(Int), NEW k \in Seq(Int), NEW l \in Seq(Int),
         Len(k) = Len(l), a \o k = b \o l
  PROVE  k = l
<1>1. Len(a) = Len(b)
  BY Joined
<1>2. ASSUME NEW i \in 1..Len(k) PROVE k[i] = l[i]
  <2>1. (a \o k)[i + Len(a)] = k[i]
    BY Joined
  <2>2. (b \o l)[i + Len(b)] = l[i]
    BY Joined
  <2> QED
    BY <1>1, <2>1, <2>2
<1> QED
  BY <1>2, SameSeq

(* The entries of different rows differ, since they end with the primary   *)
(* key.                                                                    *)
LEMMA EntriesIdentify ==
  ASSUME Typed, NEW x \in rows, NEW y \in rows, Composite(x) = Composite(y)
  PROVE  x = y
<1> DEFINE a == serialize_value(x[2])  b == serialize_value(y[2])
           k == serialize_value(x[1])  l == serialize_value(y[1])
<1>1. /\ a \in Seq(Int) /\ b \in Seq(Int) /\ k \in Seq(Int) /\ l \in Seq(Int) /\ Len(k) = 2 /\ Len(l) = 2
      /\ a \o k = b \o l
  BY EntryIs
<1>2. x[1] \in Of("Integer") /\ y[1] \in Of("Integer")
  BY RowIs
<1>3. k = l
  BY <1>1, SameEnds
<1> QED
  BY <1>2, <1>3, KeysIdentify DEF Typed, TableRows

LEMMA OrderByEntry ==
  ASSUME Typed, NEW S \in SUBSET rows, NEW R, R = {p \in S \X S : LexLess(Composite(p[1]), Composite(p[2]))}
  PROVE  IsFiniteSet(S) /\ StrictOrder(S, R)
<1>1. IsFiniteSet(S)
  BY FS_Subset DEF Typed, TableRows
<1>2. ASSUME NEW x \in S, NEW y \in S, x # y
      PROVE  LexLess(Composite(x), Composite(y)) <=> ~LexLess(Composite(y), Composite(x))
  <2>1. Composite(x) \in Seq(Int) /\ Composite(y) \in Seq(Int) /\ Composite(x) # Composite(y)
    BY <1>2, EntryIs, EntriesIdentify
  <2> QED
    BY <2>1, OrderOf DEF Order
<1>3. ASSUME NEW x \in S, NEW y \in S, NEW z \in S, LexLess(Composite(x), Composite(y)),
             LexLess(Composite(y), Composite(z))
      PROVE  LexLess(Composite(x), Composite(z))
  <2>1. Composite(x) \in Seq(Int) /\ Composite(y) \in Seq(Int) /\ Composite(z) \in Seq(Int)
    BY EntryIs
  <2> QED
    BY <1>3, <2>1, LexTransitive
<1> QED
  BY <1>1, <1>2, <1>3 DEF StrictOrder

(* ByEntry lists a set of rows, each once.                                 *)
LEMMA InEntryOrder ==
  ASSUME Typed, NEW S \in SUBSET rows
  PROVE  LET g == ByEntry(S) IN
         /\ g \in Seq(S) /\ {g[n] : n \in 1..Len(g)} = S
         /\ \A m, n \in 1..Len(g) : g[m] = g[n] => m = n
<1> DEFINE R == {p \in S \X S : LexLess(Composite(p[1]), Composite(p[2]))}
           g == ByEntry(S)
<1>1. IsFiniteSet(S) /\ StrictOrder(S, R)
  BY OrderByEntry
<1>2. \A x \in S : {y \in S \ {x} : LexLess(Composite(y), Composite(x))} = Before(S, R, x)
  BY DEF Before
<1> HIDE DEF R
<1> DEFINE ranked(n) == CHOOSE x \in S : Cardinality({y \in S \ {x} : LexLess(Composite(y), Composite(x))}) = n - 1
           at == [n \in 1..Cardinality(S) |-> ranked(n)]
<1>6. g = at
  BY DEF ByEntry, InOrder
<1> HIDE DEF g, ranked
<1>3. at = [n \in 1..Cardinality(S) |-> at[n]]
  OBVIOUS
<1>4. ASSUME NEW n \in 1..Cardinality(S) PROVE at[n] \in S /\ Cardinality(Before(S, R, at[n])) = n - 1
  <2>0. PICK x \in S : Cardinality(Before(S, R, x)) = n - 1
    BY <1>1, RankIsPlace
  <2>1. Cardinality({y \in S \ {x} : LexLess(Composite(y), Composite(x))}) = n - 1
    BY <1>2, <2>0
  <2>2. at[n] = CHOOSE z \in S : Cardinality({y \in S \ {z} : LexLess(Composite(y), Composite(z))}) = n - 1
    BY DEF ranked
  <2> HIDE DEF at
  <2>3. at[n] \in S /\ Cardinality({y \in S \ {at[n]} : LexLess(Composite(y), Composite(at[n]))}) = n - 1
    BY <2>1, <2>2
  <2> QED
    BY <1>2, <2>3
<1> HIDE DEF at
<1>5. Lists(at, S, R)
  BY <1>3, <1>4 DEF Lists
<1>7. /\ at \in Seq(S) /\ {at[n] : n \in 1..Len(at)} = S
      /\ \A m, n \in 1..Len(at) : at[m] = at[n] => m = n
  BY <1>1, <1>5, ListFacts
<1> QED
  BY <1>6, <1>7 DEF g

(* The primary key read back from an entry finds its row.                  *)
LEMMA PkIs ==
  ASSUME Typed, NEW r \in rows
  PROVE  PkOf(r) = r[1] /\ get_row(PkOf(r)) = {r}
<1>1. r[1] \in Of("Integer")
  BY RowIs
<1>2. PkOf(r) = r[1]
  BY <1>1, KeysDecode DEF PkOf
<1>3. ASSUME NEW t \in rows, serialize_value(t[1]) = serialize_value(r[1]) PROVE t = r
  <2>1. t[1] \in Of("Integer")
    BY RowIs
  <2> QED
    BY <1>1, <1>3, <2>1, KeysIdentify DEF Typed, TableRows
<1> QED
  BY <1>2, <1>3 DEF get_row

(* What a source finds: rows of the table, none twice.                     *)
Rowed(s) == s \in Seq(rows) /\ \A m, n \in 1..Len(s) : s[m] = s[n] => m = n

(* What scan_table, get_row and scan_index_eq give.                        *)
LEMMA EngineFinds ==
  ASSUME Typed, NEW v
  PROVE  /\ Rowed(scan_table) /\ {scan_table[n] : n \in 1..Len(scan_table)} = rows
         /\ LET g == ByKey(get_row(v)) IN Rowed(g) /\ {g[n] : n \in 1..Len(g)} = get_row(v)
         /\ LET g == index_scan(v) IN
            Rowed(g) /\ {g[n] : n \in 1..Len(g)} = {r \in rows : Starts(serialize_value(v), Composite(r))}
<1>0. ASSUME NEW S \in SUBSET rows, NEW g \in Seq(S) PROVE g \in Seq(rows)
  BY <1>0
<1>1. Rowed(scan_table) /\ {scan_table[n] : n \in 1..Len(scan_table)} = rows
  BY <1>0, InKeyOrder DEF scan_table, Rowed
<1>2. LET g == ByKey(get_row(v)) IN Rowed(g) /\ {g[n] : n \in 1..Len(g)} = get_row(v)
  <2>1. get_row(v) \in SUBSET rows
    BY DEF get_row
  <2> QED
    BY <1>0, <2>1, InKeyOrder DEF Rowed
<1>3. LET g == index_scan(v) IN
      Rowed(g) /\ {g[n] : n \in 1..Len(g)} = {r \in rows : Starts(serialize_value(v), Composite(r))}
  <2> DEFINE found == {r \in rows : Starts(serialize_value(v), Composite(r))}
  <2>1. UNION {get_row(PkOf(r)) : r \in found} = found
    BY PkIs
  <2>2. index_scan(v) = ByEntry(found)
    BY <2>1 DEF index_scan
  <2>3. found \in SUBSET rows
    OBVIOUS
  <2> HIDE DEF found
  <2>4. Rowed(ByEntry(found)) /\ {ByEntry(found)[n] : n \in 1..Len(ByEntry(found))} = found
    BY <1>0, <2>3, InEntryOrder DEF Rowed
  <2> QED
    BY <2>2, <2>4 DEF found
<1> QED
  BY <1>1, <1>2, <1>3

(* What each node of a plan does.                                          *)
LEMMA NodesAre ==
  ASSUME NEW rs, NEW p, NEW g, NEW o, NEW c, NEW l, NEW f
  PROVE  /\ NodeResult([node |-> "SeqScan"], rs) = Rows(scan_table)
         /\ NodeResult([node |-> "PointLookup", key |-> p], rs) = Rows(ByKey(get_row(p)))
         /\ NodeResult([node |-> "IndexScan", key |-> p], rs) = Rows(index_scan(p))
         /\ \A kind \in {"Filter", "Having"} : NodeResult([node |-> kind, predicate |-> p], rs) =
              IF \E k \in DOMAIN rs : Panics(p, rs[k]) THEN Panic
              ELSE Rows(Among(rs, {row \in ToSet(rs) : evaluate_predicate(p, row)}))
         /\ NodeResult([node |-> "Aggregate", aggregates |-> p, group |-> g], rs) = Rows(execute_aggregate(rs, p, g))
         /\ NodeResult([node |-> "Sort", order |-> o], rs) =
              IF ReadsMissing(rs, o) THEN Panic
              ELSE IF Len(rs) > 1 /\ Contradictory(rs, o) THEN Unspecified ELSE Rows(Sorted(rs, o))
         /\ NodeResult([node |-> "Projection", columns |-> c], rs) =
              Rows([k \in DOMAIN rs |-> [i \in DOMAIN c |-> rs[k][SortPosition(c[i])]]])
         /\ NodeResult([node |-> "Limit", limit |-> l, offset |-> f], rs) = Rows(Cut(rs, [node |-> "Limit", limit |-> l, offset |-> f]))
BY DEF NodeResult

LEMMA EndsAre ==
  /\ \A s : Rows(s).end = "rows" /\ Rows(s).rows = s
  /\ Panic.end = "panic" /\ Panic.rows = <<>>
  /\ Unspecified.end = "unspecified" /\ Unspecified.rows = <<>>
BY DEF Rows, Panic, Unspecified

(* A condition keeps some of the rows, unless it names an unknown column.  *)
LEMMA FilterKeeps ==
  ASSUME Typed, NEW rs, Rowed(rs), NEW w \in Condition, w # <<>>, NEW kind \in {"Filter", "Having"}
  PROVE  LET r == NodeResult([node |-> kind, predicate |-> convert_expr_to_where(w)], rs) IN
         \/ r.end = "rows" /\ Rowed(r.rows)
            /\ {r.rows[n] : n \in 1..Len(r.rows)}
                 = {x \in {rs[n] : n \in 1..Len(rs)} : evaluate_predicate(convert_expr_to_where(w), x)}
         \/ r.end = "panic" /\ r.rows = <<>> /\ ~(Named(w) \subseteq ToSet(Columns))
<1> DEFINE c == convert_expr_to_where(w)
           S == {row \in ToSet(rs) : evaluate_predicate(c, row)}
           r == NodeResult([node |-> kind, predicate |-> c], rs)
<1>1. rs \in Seq(rows) /\ DOMAIN rs = 1..Len(rs) /\ \A k \in 1..Len(rs) : rs[k] \in rows
  BY DEF Rowed
<1>2. r = IF \E k \in DOMAIN rs : Panics(c, rs[k]) THEN Panic ELSE Rows(Among(rs, S))
  BY NodesAre
<1>3. CASE \E k \in DOMAIN rs : Panics(c, rs[k])
  <2>1. PICK k \in DOMAIN rs : Panics(c, rs[k])
    BY <1>3
  <2>2. DOMAIN rs[k] = 1..2
    BY <1>1, RowIs
  <2>3. ~(Named(w) \subseteq ToSet(Columns))
    BY <2>1, <2>2, PanicsOnlyUnnamed
  <2>4. r = Panic
    BY <1>2, <1>3
  <2> HIDE DEF r
  <2> QED
    BY <2>3, <2>4, EndsAre DEF r
<1>4. CASE ~\E k \in DOMAIN rs : Panics(c, rs[k])
  <2> DEFINE a == Among(rs, S)
  <2>1. r.end = "rows" /\ r.rows = a
    BY <1>2, <1>4, EndsAre
  <2>2. /\ a \in Seq(rows) /\ {a[k] : k \in 1..Len(a)} = {rs[i] : i \in 1..Len(rs)} \cap S
        /\ \A i, j \in 1..Len(a) : a[i] = a[j] => i = j
    <3> HIDE DEF S
    <3>1. \A i, j \in 1..Len(rs) : rs[i] = rs[j] => i = j
      BY DEF Rowed
    <3>2. /\ a \in Seq(rows) /\ Len(a) \in Nat
          /\ {a[k] : k \in 1..Len(a)} = {rs[i] : i \in 1..Len(rs)} \cap S
          /\ (\A i, j \in 1..Len(rs) : rs[i] = rs[j] => i = j) => \A i, j \in 1..Len(a) : a[i] = a[j] => i = j
      BY <1>1, AmongElements, Zenon
    <3> QED
      BY <3>1, <3>2
  <2>3. {rs[i] : i \in 1..Len(rs)} = ToSet(rs)
    BY <1>1 DEF ToSet
  <2> HIDE DEF a, r, c
  <2>4. ToSet(rs) \cap S = S
    OBVIOUS
  <2>5. Rowed(a) /\ {a[k] : k \in 1..Len(a)} = {x \in {rs[i] : i \in 1..Len(rs)} : evaluate_predicate(c, x)}
    BY <2>2, <2>3, <2>4 DEF Rowed
  <2> QED
    BY <2>1, <2>5 DEF r, c
<1> QED
  BY <1>3, <1>4

(* The last node of a converted condition, the one plan_select looks at.   *)
LEMMA LastIs ==
  ASSUME NEW w \in Condition, w # <<>>
  PROVE  Last(convert_expr_to_where(w)) = ConvertNode(w[Len(w)])
<1>1. Len(w) \in 1..Len(w)
  BY DEF Condition
<1> QED
  BY <1>1, ConvertedIs DEF Last

(* However a SELECT begins, it finds rows of the table or panics at an     *)
(* unknown column.                                                         *)
LEMMA SourceFinds ==
  ASSUME Typed, NEW w \in Condition
  PROVE  LET r == evaluate_plan(Source(convert_expr_to_where(w))) IN
         \/ r.end = "rows" /\ Rowed(r.rows)
         \/ r.end = "panic" /\ r.rows = <<>> /\ ~(Named(w) \subseteq ToSet(Columns))
<1> DEFINE c == convert_expr_to_where(w)  r == evaluate_plan(Source(c))
           Fine(x) == \/ x.end = "rows" /\ Rowed(x.rows)
                      \/ x.end = "panic" /\ x.rows = <<>> /\ ~(Named(w) \subseteq ToSet(Columns))
<1>0. (c = <<>>) <=> (w = <<>>)
  BY ConvertedIs
<1>1. ASSUME NEW x, evaluate_plan(Source(c)) = NodeResult(x, <<>>),
             x = [node |-> "SeqScan"] \/ x = [node |-> "PointLookup", key |-> Last(c).value]
               \/ x = [node |-> "IndexScan", key |-> Last(c).value]
      PROVE  Fine(r)
  <2> HIDE DEF c
  <2>1. r = Rows(scan_table) \/ r = Rows(ByKey(get_row(Last(c).value))) \/ r = Rows(index_scan(Last(c).value))
    BY <1>1, NodesAre
  <2> HIDE DEF r
  <2> QED
    BY <2>1, EngineFinds, EndsAre
<1>2. CASE Source(c) = <<[node |-> "SeqScan"], [node |-> "Filter", predicate |-> c]>> /\ w # <<>>
  <2>1. r = Then(NodeResult([node |-> "SeqScan"], <<>>), [node |-> "Filter", predicate |-> c])
    BY <1>2, ShortPlans
  <2>2. r = NodeResult([node |-> "Filter", predicate |-> c], scan_table)
    <3> DEFINE first == NodeResult([node |-> "SeqScan"], <<>>)  next == [node |-> "Filter", predicate |-> c]
    <3>1. first.end = "rows" /\ first.rows = scan_table
      <4> HIDE DEF c
      <4> QED
        BY NodesAre, EndsAre
    <3>2. r = Then(first, next)
      BY <2>1
    <3> HIDE DEF first, next, r
    <3>3. r = NodeResult(next, scan_table)
      BY <3>1, <3>2 DEF Then
    <3> QED
      BY <3>3 DEF next
  <2>3. Rowed(scan_table)
    BY EngineFinds
  <2>4. Fine(NodeResult([node |-> "Filter", predicate |-> c], scan_table))
    BY <1>2, <2>3, FilterKeeps
  <2> QED
    BY <2>2, <2>4
<1>3. \/ \E x : /\ Source(c) = <<x>>
                /\ x = [node |-> "SeqScan"] \/ x = [node |-> "PointLookup", key |-> Last(c).value]
                     \/ x = [node |-> "IndexScan", key |-> Last(c).value]
      \/ Source(c) = <<[node |-> "SeqScan"], [node |-> "Filter", predicate |-> c]>> /\ w # <<>>
  <2> HIDE DEF c
  <2> QED
    BY <1>0 DEF Source
<1>4. CASE Source(c) = <<[node |-> "SeqScan"], [node |-> "Filter", predicate |-> c]>> /\ w # <<>>
  BY <1>2, <1>4
<1>5. ASSUME NEW x, Source(c) = <<x>>,
             x = [node |-> "SeqScan"] \/ x = [node |-> "PointLookup", key |-> Last(c).value]
               \/ x = [node |-> "IndexScan", key |-> Last(c).value]
      PROVE  Fine(r)
  <2>1. evaluate_plan(Source(c)) = NodeResult(x, <<>>)
    BY <1>5, ShortPlans
  <2> QED
    BY <1>1, <1>5, <2>1
<1> QED
  BY <1>3, <1>4, <1>5

-----------------------------------------------------------------------------
(* Sorting.                                                                *)

(* What the items of a sort compare, in a row of a table or of groups.     *)
IsCell(v) == v.data \in Seq(Int) /\ (v.type \in Numeric => Num(v) \in Int)

(* The floats made of numbers are numbers.                                 *)
LEMMA FourthIs ==
  ASSUME NEW h \in Nat
  PROVE  ToFourth(h) \in Nat
<1>1. ASSUME NEW k \in Nat PROVE k \div 4 \in Nat
  BY <1>1
<1>2. (h \div 4) % 2 \in Nat
  <2> DEFINE k == h \div 4
  <2>1. k \in Nat
    BY <1>1
  <2> HIDE DEF k
  <2>2. k % 2 \in Nat
    BY <2>1
  <2> QED
    BY <2>2 DEF k
<1> DEFINE b == (h \div 4) % 2  m == (h + 1 + b) \div 4
<1>3. m \in Nat
  <2> HIDE DEF b
  <2>1. b \in Nat
    BY <1>2 DEF b
  <2>2. h + 1 + b \in Nat
    BY <2>1
  <2> QED
    BY <1>1, <2>2
<1>4. ToFourth(h) = 4 * m
  BY DEF ToFourth
<1> HIDE DEF m
<1> QED
  BY <1>3, <1>4

LEMMA RoundedIs ==
  ASSUME NEW h \in Nat
  PROVE  Rounded(h) \in Nat
<1>1. Infinity \in Nat
  BY FloatAssumption DEF Infinity
<1> QED
  BY <1>1, FourthIs DEF Rounded

LEMMA NearestIs ==
  ASSUME NEW h \in Int
  PROVE  Nearest(h) \in Int
<1>1. CASE h >= 0
  BY <1>1, RoundedIs DEF Nearest
<1>2. CASE h < 0
  <2>1. -h \in Nat
    BY <1>2
  <2>2. Rounded(-h) \in Nat
    BY <2>1, RoundedIs
  <2> QED
    BY <1>2, <2>2 DEF Nearest, Opposite
<1> QED
  BY <1>1, <1>2

LEMMA AsFloatIs ==
  ASSUME NEW v, Num(v) \in Int
  PROVE  AsFloat(v) \in Int
<1>1. 2 * Num(v) \in Int
  OBVIOUS
<1> QED
  BY <1>1, NearestIs DEF AsFloat

LEMMA NullIsCell == IsCell(Null)
BY <<>> \in Seq(Int) DEF IsCell, Null, Val, Numeric

(* compare_values, turned around.                                          *)
LEMMA CompareMirrors ==
  ASSUME NEW a, NEW b, IsCell(a), IsCell(b)
  PROVE  compare_values(a, b) \in {-1, 0, 1} /\ compare_values(b, a) = -compare_values(a, b)
<1>1. ASSUME NEW s \in Seq(Int), NEW t \in Seq(Int) PROVE Order(s, t) \in {-1, 0, 1} /\ Order(t, s) = -Order(s, t)
  BY OrderOf
<1>2. ASSUME NEW v, IsCell(v), v.type \in Numeric PROVE <<AsFloat(v)>> \in Seq(Int)
  <2>1. AsFloat(v) \in Int
    BY <1>2, AsFloatIs DEF IsCell
  <2> QED
    BY <2>1
<1>3. CASE a.type = b.type /\ a.type \in Sortable
  <2>1. compare_values(a, b) = Order(a.data, b.data) /\ compare_values(b, a) = Order(b.data, a.data)
    BY <1>3 DEF compare_values
  <2>2. a.data \in Seq(Int) /\ b.data \in Seq(Int)
    BY DEF IsCell
  <2> QED
    BY <1>1, <2>1, <2>2
<1>4. CASE ~(a.type = b.type /\ a.type \in Sortable) /\ a.type \in Numeric /\ b.type \in Numeric
  <2> DEFINE x == <<AsFloat(a)>>  y == <<AsFloat(b)>>
  <2>1. compare_values(a, b) = Order(x, y) /\ compare_values(b, a) = Order(y, x)
    BY <1>4 DEF compare_values
  <2>2. x \in Seq(Int) /\ y \in Seq(Int)
    BY <1>2, <1>4
  <2> HIDE DEF x, y
  <2> QED
    BY <1>1, <2>1, <2>2
<1>5. CASE ~(a.type = b.type /\ a.type \in Sortable) /\ ~(a.type \in Numeric /\ b.type \in Numeric)
  BY <1>5 DEF compare_values
<1> QED
  BY <1>3, <1>4, <1>5

(* Two rows have what an order compares, up to the first item it decides by*)
Comparable(a, b, order) ==
  \A i \in DOMAIN order :
    (\A m \in 1..i - 1 : compare_values(At(a, order, m), At(b, order, m)) = 0)
      => IsCell(At(a, order, i)) /\ IsCell(At(b, order, i))

(* A sort by several items, turned around.                                 *)
LEMMA OrderMirrors ==
  ASSUME NEW order \in Seq([col : STRING, asc : BOOLEAN]), NEW a, NEW b, Comparable(a, b, order)
  PROVE  CompareBy(a, b, order) \in {-1, 0, 1} /\ CompareBy(b, a, order) = -CompareBy(a, b, order)
<1> DEFINE ab(i) == compare_values(At(a, order, i), At(b, order, i))
           ba(i) == compare_values(At(b, order, i), At(a, order, i))
<1>0. DOMAIN order = 1..Len(order) /\ Len(order) \in Nat /\ \A i \in 1..Len(order) : order[i].asc \in BOOLEAN
  <2> DEFINE Items == [col : STRING, asc : BOOLEAN]
  <2>1. order \in Seq(Items) /\ \A item \in Items : item.asc \in BOOLEAN
    OBVIOUS
  <2> HIDE DEF Items
  <2>2. DOMAIN order = 1..Len(order) /\ Len(order) \in Nat /\ \A i \in 1..Len(order) : order[i] \in Items
    BY ONLY <2>1
  <2> QED
    BY <2>1, <2>2
<1>1. ASSUME NEW i \in DOMAIN order, \A m \in 1..i - 1 : ab(m) = 0 PROVE ab(i) \in {-1, 0, 1} /\ ba(i) = -ab(i)
  <2>1. IsCell(At(a, order, i)) /\ IsCell(At(b, order, i))
    BY <1>1 DEF Comparable
  <2> QED
    BY <2>1, CompareMirrors
<1>2. Differ(a, b, order) = {k \in DOMAIN order : ab(k) # 0} /\ Differ(b, a, order) = {k \in DOMAIN order : ba(k) # 0}
  BY DEF Differ
<1>3. \/ Differ(a, b, order) = {} /\ CompareBy(a, b, order) = 0
      \/ \E k \in Differ(a, b, order) :
           /\ \A m \in Differ(a, b, order) : k <= m
           /\ CompareBy(a, b, order) = Signed(order[k], ab(k))
  BY FirstDecides
<1>4. \/ Differ(b, a, order) = {} /\ CompareBy(b, a, order) = 0
      \/ \E k \in Differ(b, a, order) :
           /\ \A m \in Differ(b, a, order) : k <= m
           /\ CompareBy(b, a, order) = Signed(order[k], ba(k))
  BY FirstDecides
<1> HIDE DEF ab, ba
<1>5. CASE Differ(a, b, order) = {} /\ CompareBy(a, b, order) = 0
  <2>1. \A k \in DOMAIN order : ab(k) = 0
    BY <1>2, <1>5
  <2>2. \A k \in DOMAIN order : ba(k) = 0
    <3> SUFFICES ASSUME NEW k \in DOMAIN order PROVE ba(k) = 0
      OBVIOUS
    <3>1. \A m \in 1..k - 1 : m \in DOMAIN order
      BY <1>0
    <3>2. ba(k) = -ab(k)
      BY <1>1, <2>1, <3>1
    <3> QED
      BY <2>1, <3>2
  <2>3. Differ(b, a, order) = {}
    BY <1>2, <2>2
  <2>4. CompareBy(b, a, order) = 0
    BY <1>4, <2>3
  <2>5. CompareBy(a, b, order) = 0
    BY <1>5
  <2>6. CompareBy(a, b, order) \in {-1, 0, 1}
    BY <2>5, Zenon
  <2>8. \A x, y \in Int : x = 0 /\ y = 0 => y = -x
    <3>1. \A x \in Int : -x = 0 - x
      OBVIOUS
    <3>2. \A x, y \in Int : x = 0 /\ y = 0 => y = 0 - x
      OBVIOUS
    <3> QED
      BY <3>1, <3>2, Zenon
  <2>7. CompareBy(b, a, order) \in Int /\ CompareBy(a, b, order) \in Int
    BY <2>4, <2>5, 0 \in Int, Zenon
  <2>9. CompareBy(b, a, order) = -CompareBy(a, b, order)
    BY <2>4, <2>5, <2>7, <2>8, Zenon
  <2> QED
    BY <2>6, <2>9, Zenon
<1>6. ASSUME NEW k \in Differ(a, b, order), \A m \in Differ(a, b, order) : k <= m,
             CompareBy(a, b, order) = Signed(order[k], ab(k))
      PROVE  CompareBy(a, b, order) \in {-1, 0, 1} /\ CompareBy(b, a, order) = -CompareBy(a, b, order)
  <2>1. k \in 1..Len(order) /\ ab(k) # 0
    BY <1>0, <1>2
  <2>2. \A m \in 1..k - 1 : m \in DOMAIN order /\ ab(m) = 0
    <3> SUFFICES ASSUME NEW m \in 1..k - 1 PROVE m \in DOMAIN order /\ ab(m) = 0
      OBVIOUS
    <3>1. m \in DOMAIN order /\ ~(k <= m)
      BY <1>0, <2>1
    <3> QED
      BY <1>2, <1>6, <3>1
  <2>3. ab(k) \in {-1, 1} /\ ba(k) = -ab(k) /\ ba(k) # 0
    <3>1. ab(k) \in {-1, 0, 1} /\ ba(k) = -ab(k)
      BY <1>0, <1>1, <2>1, <2>2
    <3> QED
      BY <2>1, <3>1
  <2>4. \A m \in 1..k - 1 : ba(m) = 0
    <3> SUFFICES ASSUME NEW m \in 1..k - 1 PROVE ba(m) = 0
      OBVIOUS
    <3>1. \A j \in 1..m - 1 : j \in 1..k - 1
      BY <2>1
    <3>2. ba(m) = -ab(m)
      BY <1>1, <2>2, <3>1
    <3> QED
      BY <2>2, <3>2
  <2>5. k \in Differ(b, a, order)
    BY <1>0, <1>2, <2>1, <2>3
  <2>6. PICK l \in Differ(b, a, order) :
           /\ \A m \in Differ(b, a, order) : l <= m
           /\ CompareBy(b, a, order) = Signed(order[l], ba(l))
    BY <1>4, <2>5
  <2>7. l \in 1..Len(order) /\ l <= k /\ ba(l) # 0
    BY <1>0, <1>2, <2>5, <2>6
  <2>8. l = k
    <3>1. ~(l \in 1..k - 1)
      BY <2>4, <2>7
    <3> QED
      BY <1>0, <2>1, <2>7, <3>1
  <2>9. order[k].asc \in BOOLEAN
    BY <1>0, <2>1
  <2> QED
    BY <1>6, <2>3, <2>6, <2>8, <2>9 DEF Signed
<1> QED
  BY <1>3, <1>5, <1>6

(* A sort that says what it does moves the rows, and loses none.           *)
Permutes(at, n) ==
  /\ at \in [1..n -> 1..n]
  /\ \A i, j \in 1..n : at[i] = at[j] => i = j
  /\ \A i \in 1..n : \E j \in 1..n : at[j] = i

(* A sort that is not contradictory is a permutation of the rows.          *)
LEMMA SortPermutes ==
  ASSUME NEW T, NEW rs \in Seq(T), NEW order \in Seq([col : STRING, asc : BOOLEAN]),
         \A j, k \in 1..Len(rs) : j # k => Comparable(rs[j], rs[k], order),
         ~(Len(rs) > 1 /\ Contradictory(rs, order))
  PROVE  \E at : Permutes(at, Len(rs)) /\ Sorted(rs, order) = [n \in 1..Len(rs) |-> rs[at[n]]]
<1> DEFINE N == Len(rs)  S == 1..N
           cmp(i, j) == CompareBy(rs[i], rs[j], order)
           R == {p \in S \X S : SortsBefore(rs[p[1]], rs[p[2]], order, p[1], p[2])}
<1>0. N \in Nat /\ DOMAIN rs = S
  OBVIOUS
<1>1. ASSUME NEW i \in S, NEW j \in S, i # j PROVE cmp(i, j) \in {-1, 0, 1} /\ cmp(j, i) = -cmp(i, j)
  BY <1>1, OrderMirrors
<1>2. ASSUME NEW i \in S, NEW j \in S, NEW k \in S, i # j, j # k, i # k, cmp(i, j) <= 0, cmp(j, k) <= 0
      PROVE  cmp(i, k) <= 0
  <2>1. N > 1
    BY <1>0, <1>2
  <2>2. ~(cmp(i, k) > 0)
    BY <1>0, <1>2, <2>1 DEF Contradictory
  <2>3. cmp(i, k) \in Int
    BY <1>1, <1>2
  <2> HIDE DEF cmp
  <2> QED
    BY <2>2, <2>3
<1>3. \A i, j \in S : <<i, j>> \in R <=> (cmp(i, j) < 0 \/ (cmp(i, j) = 0 /\ i < j))
  BY DEF SortsBefore
<1>4. \A i \in S : {j \in S \ {i} : SortsBefore(rs[j], rs[i], order, j, i)} = Before(S, R, i)
  BY DEF Before
<1>5. IsFiniteSet(S)
  BY <1>0, UpTo
<1> DEFINE at == [n \in 1..Cardinality(S) |->
                    CHOOSE i \in S : Cardinality({j \in S \ {i} : SortsBefore(rs[j], rs[i], order, j, i)}) = n - 1]
<1>6. SortOrder(rs, order) = at
  BY <1>0 DEF SortOrder, InOrder
<1> HIDE DEF cmp, R
<1>7. StrictOrder(S, R)
  <2>1. ASSUME NEW i \in S, NEW j \in S, i # j PROVE <<i, j>> \in R <=> <<j, i>> \notin R
    <3>1. cmp(i, j) \in {-1, 0, 1} /\ cmp(j, i) = -cmp(i, j) /\ i \in Int /\ j \in Int
      BY <1>0, <1>1, <2>1
    <3>2. /\ <<i, j>> \in R <=> (cmp(i, j) < 0 \/ (cmp(i, j) = 0 /\ i < j))
          /\ <<j, i>> \in R <=> (cmp(j, i) < 0 \/ (cmp(j, i) = 0 /\ j < i))
      BY <1>3
    <3> HIDE DEF S
    <3> QED
      BY <2>1, <3>1, <3>2
  <2>2. ASSUME NEW i \in S, NEW j \in S, NEW k \in S, i # j, j # k, i # k, <<i, j>> \in R, <<j, k>> \in R
        PROVE  <<i, k>> \in R
    <3>1. /\ cmp(i, j) \in {-1, 0, 1} /\ cmp(j, i) = -cmp(i, j)
          /\ cmp(j, k) \in {-1, 0, 1} /\ cmp(k, j) = -cmp(j, k)
          /\ cmp(i, k) \in {-1, 0, 1} /\ cmp(k, i) = -cmp(i, k) /\ i \in Int /\ j \in Int /\ k \in Int
      BY <1>0, <1>1, <2>2
    <3>2. /\ cmp(i, j) < 0 \/ (cmp(i, j) = 0 /\ i < j)
          /\ cmp(j, k) < 0 \/ (cmp(j, k) = 0 /\ j < k)
      BY <1>3, <2>2
    <3>3. cmp(i, k) <= 0
      BY <1>2, <2>2, <3>1, <3>2
    <3>4. ASSUME cmp(i, k) = 0 PROVE i < k
      <4>1. cmp(k, i) <= 0 /\ cmp(i, j) <= 0 /\ cmp(j, k) <= 0
        BY <3>1, <3>2, <3>4
      <4>2. cmp(k, j) <= 0 /\ cmp(j, i) <= 0
        BY <1>2, <2>2, <4>1
      <4>3. cmp(i, j) = 0 /\ cmp(j, k) = 0
        BY <3>1, <4>1, <4>2
      <4> QED
        BY <3>1, <3>2, <4>3
    <3>5. cmp(i, k) < 0 \/ (cmp(i, k) = 0 /\ i < k)
      BY <3>1, <3>3, <3>4
    <3> QED
      BY <1>3, <3>5
  <2> QED
    BY <2>1, <2>2 DEF StrictOrder
<1>8. Cardinality(S) = N
  BY <1>0, UpTo
<1> DEFINE ranked(n) == CHOOSE i \in S : Cardinality({j \in S \ {i} : SortsBefore(rs[j], rs[i], order, j, i)}) = n - 1
           to == [n \in 1..Cardinality(S) |-> ranked(n)]
<1>9. to = at
  OBVIOUS
<1>10. ASSUME NEW n \in 1..Cardinality(S) PROVE ranked(n) \in S /\ Cardinality(Before(S, R, ranked(n))) = n - 1
  <2> HIDE DEF S
  <2>0. PICK x \in S : Cardinality(Before(S, R, x)) = n - 1
    BY <1>5, <1>7, RankIsPlace
  <2>1. Cardinality({j \in S \ {x} : SortsBefore(rs[j], rs[x], order, j, x)}) = n - 1
    BY <1>4, <2>0
  <2>2. ranked(n) \in S /\ Cardinality({j \in S \ {ranked(n)} : SortsBefore(rs[j], rs[ranked(n)], order, j, ranked(n))}) = n - 1
    BY <2>1
  <2> HIDE DEF ranked
  <2> QED
    BY <1>4, <2>2
<1> HIDE DEF ranked, at
<1>11. to = [n \in 1..Cardinality(S) |-> to[n]] /\ \A n \in 1..Cardinality(S) : to[n] = ranked(n)
  <2> HIDE DEF S
  <2> QED
    OBVIOUS
<1> HIDE DEF to
<1>12. Lists(to, S, R)
  BY <1>10, <1>11 DEF Lists
<1>13. /\ to \in Seq(S) /\ Len(to) = N /\ {to[n] : n \in 1..N} = S
       /\ \A m, n \in 1..N : to[m] = to[n] => m = n
  <2> HIDE DEF S
  <2> QED
    BY <1>5, <1>7, <1>8, <1>12, ListFacts
<1>14. Permutes(to, N)
  <2>1. to \in [1..N -> 1..N]
    BY <1>13
  <2>2. ASSUME NEW i \in 1..N PROVE \E j \in 1..N : to[j] = i
    <3>1. i \in {to[n] : n \in 1..N}
      BY <1>13
    <3> QED
      BY <3>1
  <2> QED
    BY <1>13, <2>1, <2>2 DEF Permutes
<1>15. Sorted(rs, order) = [n \in 1..N |-> rs[to[n]]]
  BY <1>0, <1>6, <1>9 DEF Sorted
<1> QED
  BY <1>14, <1>15

-----------------------------------------------------------------------------
(* How a SELECT ends.                                                      *)

(* A SELECT and what convert_select makes of it.                           *)
LEMMA SelectIs ==
  ASSUME NEW q \in Select
  PROVE  LET c == convert_select(q) IN
         /\ q.items \in Seq(Item) /\ q.where \in Condition /\ q.group \in Seq(STRING) /\ q.having \in Condition
         /\ q.order \in Seq([col : STRING, asc : BOOLEAN]) /\ q.limit \in Nat \cup {-1} /\ q.offset \in Nat
         /\ c.where = convert_expr_to_where(q.where) /\ c.having = convert_expr_to_where(q.having)
         /\ c.group = q.group /\ c.order = q.order /\ c.limit = q.limit /\ c.offset = q.offset
         /\ c.items = [i \in DOMAIN q.items |-> Display(q.items[i])]
         /\ c.aggregates \in Seq(Item) /\ DOMAIN c.aggregates = 1..Len(c.aggregates) /\ Len(c.aggregates) \in Nat
         /\ \A n \in 1..Len(c.aggregates) : c.aggregates[n].is = "fn" /\ c.aggregates[n] \in ToSet(q.items)
         /\ Aggregated(c) <=> (q.group # <<>> \/ \E n \in DOMAIN q.items : q.items[n].is = "fn")
<1> DEFINE c == convert_select(q)
           F == {item \in ToSet(q.items) : item.is = "fn"}
           a == Among(q.items, F)
<1>1. /\ q.items \in Seq(Item) /\ q.where \in Condition /\ q.group \in Seq(STRING) /\ q.having \in Condition
      /\ q.order \in Seq([col : STRING, asc : BOOLEAN]) /\ q.limit \in Nat \cup {-1} /\ q.offset \in Nat
  BY DEF Select
<1>2. /\ c.where = convert_expr_to_where(q.where) /\ c.having = convert_expr_to_where(q.having)
      /\ c.group = q.group /\ c.order = q.order /\ c.limit = q.limit /\ c.offset = q.offset
      /\ c.items = [i \in DOMAIN q.items |-> Display(q.items[i])]
      /\ c.aggregates = a
  BY DEF convert_select
<1> HIDE DEF c
<1>3. DOMAIN q.items = 1..Len(q.items) /\ ToSet(q.items) = {q.items[i] : i \in 1..Len(q.items)}
  BY <1>1 DEF ToSet
<1>4. a \in Seq(Item) /\ Len(a) \in Nat /\ {a[k] : k \in 1..Len(a)} = {q.items[i] : i \in 1..Len(q.items)} \cap F
  <2> HIDE DEF F
  <2> QED
    BY <1>1, AmongElements, Zenon
<1>5. {a[k] : k \in 1..Len(a)} = F
  BY <1>3, <1>4
<1> HIDE DEF a
<1>6. ASSUME NEW n \in 1..Len(a) PROVE a[n].is = "fn" /\ a[n] \in ToSet(q.items)
  BY <1>5
<1>7. a # <<>> <=> \E n \in DOMAIN q.items : q.items[n].is = "fn"
  <2>1. ASSUME a # <<>> PROVE \E n \in DOMAIN q.items : q.items[n].is = "fn"
    <3>1. 1 \in 1..Len(a)
      BY <1>4, <2>1
    <3> QED
      BY <1>6, <3>1 DEF ToSet
  <2>2. ASSUME NEW n \in DOMAIN q.items, q.items[n].is = "fn" PROVE a # <<>>
    <3>1. q.items[n] \in F
      BY <2>2 DEF ToSet
    <3>2. PICK k \in 1..Len(a) : a[k] = q.items[n]
      BY <1>5, <3>1
    <3> QED
      BY <3>2
  <2> QED
    BY <2>1, <2>2
<1>8. Aggregated(c) <=> (q.group # <<>> \/ \E n \in DOMAIN q.items : q.items[n].is = "fn")
  BY <1>2, <1>7 DEF Aggregated
<1>9. DOMAIN a = 1..Len(a)
  BY <1>4
<1> QED
  BY <1>1, <1>2, <1>4, <1>6, <1>8, <1>9 DEF c

(* Rows of a table have every column a sort reads.                         *)
LEMMA SortReads ==
  ASSUME Typed, NEW rs, Rowed(rs), NEW order \in Seq([col : STRING, asc : BOOLEAN])
  PROVE  ~ReadsMissing(rs, order)
<1>1. ASSUME NEW j \in DOMAIN rs, NEW i \in DOMAIN order PROVE ~(SortPosition(order[i].col) > Len(rs[j]))
  <2>1. rs[j] \in rows
    BY DEF Rowed
  <2>2. Len(rs[j]) = 2
    BY <2>1, RowIs
  <2>3. SortPosition(order[i].col) \in 1..2
    BY PositionIs
  <2> QED
    BY <2>2, <2>3
<1> QED
  BY <1>1 DEF ReadsMissing

(* What an answer without GROUP BY and without functions ends in.          *)
LEMMA KeptEnds ==
  ASSUME Typed, NEW q \in Select, ~Aggregated(convert_select(q))
  PROVE  LET r == Kept(convert_select(q)) IN
         \/ r.end = "rows" /\ Rowed(r.rows)
         \/ r.end = "panic" /\ r.rows = <<>> /\ ~(Named(q.where) \cup Named(q.having) \subseteq ToSet(Columns))
<1> DEFINE c == convert_select(q)  f == Found(c)  g == Groups(c)  k == Kept(c)
<1>1. c.where = convert_expr_to_where(q.where) /\ c.having = convert_expr_to_where(q.having)
      /\ q.where \in Condition /\ q.having \in Condition
  BY SelectIs
<1>2. (c.having = <<>>) <=> (q.having = <<>>)
  BY <1>1, ConvertedIs
<1>3. \/ f.end = "rows" /\ Rowed(f.rows)
      \/ f.end = "panic" /\ f.rows = <<>> /\ ~(Named(q.where) \subseteq ToSet(Columns))
  <2> HIDE DEF c
  <2> QED
    BY <1>1, SourceFinds DEF Found
<1>4. g = f
  BY DEF Groups
<1>5. k = IF c.having # <<>> THEN Then(g, [node |-> "Having", predicate |-> c.having]) ELSE g
  BY DEF Kept
<1> HIDE DEF c, f, g, k
<1>6. CASE c.having = <<>> \/ f.end # "rows"
  <2>1. k = f
    BY <1>4, <1>5, <1>6 DEF Then
  <2> QED
    BY <1>3, <2>1 DEF k, c
<1>7. CASE c.having # <<>> /\ f.end = "rows"
  <2>1. k = NodeResult([node |-> "Having", predicate |-> c.having], f.rows)
    BY <1>4, <1>5, <1>7 DEF Then
  <2>2. Rowed(f.rows) /\ q.having # <<>>
    BY <1>2, <1>3, <1>7
  <2>3. \/ k.end = "rows" /\ Rowed(k.rows)
        \/ k.end = "panic" /\ k.rows = <<>> /\ ~(Named(q.having) \subseteq ToSet(Columns))
    <3>1. LET r == NodeResult([node |-> "Having", predicate |-> convert_expr_to_where(q.having)], f.rows) IN
          \/ r.end = "rows" /\ Rowed(r.rows)
          \/ r.end = "panic" /\ r.rows = <<>> /\ ~(Named(q.having) \subseteq ToSet(Columns))
      BY <1>1, <2>2, FilterKeeps
    <3> QED
      BY <1>1, <2>1, <3>1
  <2> QED
    BY <2>3 DEF k, c
<1> QED
  BY <1>6, <1>7

(* Grouping, projecting and cutting never panic.                           *)
LEMMA NeverFails ==
  ASSUME NEW rs, NEW node, node.node \in {"Aggregate", "Projection", "Limit"}
  PROVE  NodeResult(node, rs).end = "rows"
<1>1. \/ NodeResult(node, rs) = Rows(execute_aggregate(rs, node.aggregates, node.group))
      \/ NodeResult(node, rs) = Rows([k \in DOMAIN rs |-> [i \in DOMAIN node.columns |->
                                      rs[k][SortPosition(node.columns[i])]]])
      \/ NodeResult(node, rs) = Rows(Cut(rs, node))
  BY DEF NodeResult
<1>2. \A s : Rows(s).end = "rows"
  BY EndsAre
<1> QED
  BY <1>1, <1>2, Zenon

(* A panic comes from a condition, or from a clause over groups.           *)
LEMMA SelectEnds ==
  ASSUME Typed, NEW q \in Select, execute_select(q).end = "panic"
  PROVE  \/ ~(Named(q.where) \cup Named(q.having) \subseteq ToSet(Columns))
         \/ (q.having # <<>> \/ q.order # <<>>) /\ Aggregated(convert_select(q))
<1> DEFINE c == convert_select(q)  p == Projected(c)  o == Ordered(c)  k == Kept(c)
<1>0. /\ c.having = convert_expr_to_where(q.having) /\ q.having \in Condition /\ c.order = q.order
      /\ q.order \in Seq([col : STRING, asc : BOOLEAN]) /\ c.where = convert_expr_to_where(q.where) /\ q.where \in Condition
  BY SelectIs
<1>1. (c.having = <<>>) <=> (q.having = <<>>)
  BY <1>0, ConvertedIs
<1>2. execute_select(q) = IF c.limit # -1 \/ c.offset # 0
        THEN Then(p, [node |-> "Limit", limit |-> c.limit, offset |-> c.offset]) ELSE p
  BY SelectRuns DEF execute_select
<1> HIDE DEF c
<1>3. ASSUME p.end # "panic" PROVE FALSE
  <2> DEFINE n == [node |-> "Limit", limit |-> c.limit, offset |-> c.offset]
  <2>1. Then(p, n).end # "panic"
    <3>1. NodeResult(n, p.rows).end = "rows"
      BY NeverFails
    <3> HIDE DEF n, p
    <3> QED
      BY <1>3, <3>1 DEF Then
  <2> HIDE DEF n, p
  <2> QED
    BY <1>2, <1>3, <2>1 DEF n
<1>4. CASE Aggregated(c)
  <2>1. ASSUME c.having = <<>>, c.order = <<>> PROVE ~(Named(q.where) \subseteq ToSet(Columns))
    <3> DEFINE f == Found(c)  n == [node |-> "Aggregate", aggregates |-> c.aggregates, group |-> c.group]
    <3>1. p = Then(f, n)
      BY <1>4, <2>1 DEF Projected, Ordered, Kept, Groups
    <3>2. NodeResult(n, f.rows).end = "rows"
      BY NeverFails
    <3>4. \/ f.end = "rows" /\ Rowed(f.rows)
          \/ f.end = "panic" /\ f.rows = <<>> /\ ~(Named(q.where) \subseteq ToSet(Columns))
      BY <1>0, SourceFinds DEF Found
    <3> HIDE DEF f, n, p
    <3> QED
      BY <1>3, <3>1, <3>2, <3>4 DEF Then
  <2> QED
    BY <1>0, <1>1, <1>4, <2>1 DEF c
<1>5. CASE ~Aggregated(c)
  <2>1. \/ k.end = "rows" /\ Rowed(k.rows)
        \/ k.end = "panic" /\ k.rows = <<>> /\ ~(Named(q.where) \cup Named(q.having) \subseteq ToSet(Columns))
    BY <1>5, KeptEnds DEF c
  <2>2. ASSUME k.end = "rows", Rowed(k.rows) PROVE FALSE
    <3> DEFINE s == [node |-> "Sort", order |-> c.order]  n == [node |-> "Projection", columns |-> Wanted(c.items)]
    <3>1. ~ReadsMissing(k.rows, c.order)
      BY <1>0, <2>2, SortReads
    <3>2. NodeResult(s, k.rows) = Unspecified \/ NodeResult(s, k.rows) = Rows(Sorted(k.rows, c.order))
      BY <3>1, NodesAre
    <3>3. NodeResult(s, k.rows).end # "panic"
      BY <3>2, EndsAre
    <3>4. o = IF c.order # <<>> THEN Then(k, s) ELSE k
      BY DEF Ordered
    <3>5. p = Then(o, n)
      BY <1>5 DEF Projected
    <3>6. NodeResult(n, o.rows).end = "rows"
      BY NeverFails
    <3> HIDE DEF s, n, k, o, p
    <3>7. o.end # "panic"
      BY <2>2, <3>3, <3>4 DEF Then
    <3>8. p.end # "panic"
      BY <3>5, <3>6, <3>7 DEF Then
    <3> QED
      BY <1>3, <3>8
  <2> HIDE DEF k
  <2> QED
    BY <2>1, <2>2
<1> QED
  BY <1>4, <1>5

(* PanicExplained holds of every table.                                    *)
LEMMA PanicsExplained ==
  ASSUME Typed
  PROVE  PanicExplained
<1> SUFFICES ASSUME NEW q \in Selects, execute_select(q).end = "panic"
             PROVE  \/ ~Named(q.where) \cup Named(q.having) \subseteq ToSet(Columns)
                    \/ (q.having # <<>> \/ q.order # <<>>) /\ (q.group # <<>> \/ \E n \in DOMAIN q.items : q.items[n].is = "fn")
  BY DEF PanicExplained
<1>1. q \in Select
  BY SelectsAssumption
<1> QED
  BY <1>1, SelectEnds, SelectIs

-----------------------------------------------------------------------------
(* Groups.                                                                 *)

(* BeginningsAsMet lists the rows that begin a group, each once.           *)
LEMMA BeginningsListed ==
  ASSUME NEW T, NEW rs \in Seq(T), NEW group
  PROVE  LET g == BeginningsAsMet(rs, group)  S == Beginnings(rs, group) IN
         /\ g \in Seq(S) /\ DOMAIN g = 1..Len(g) /\ Len(g) \in Nat
         /\ {g[n] : n \in 1..Len(g)} = S
         /\ \A m, n \in 1..Len(g) : g[m] = g[n] => m = n
<1> DEFINE S == Beginnings(rs, group)
           R == {p \in S \X S : p[1] < p[2]}
           g == BeginningsAsMet(rs, group)
<1>0. DOMAIN rs = 1..Len(rs) /\ Len(rs) \in Nat
  OBVIOUS
<1>1. S \subseteq 1..Len(rs)
  BY <1>0 DEF Beginnings
<1>2. IsFiniteSet(S) /\ S \subseteq Int
  <2>1. IsFiniteSet(1..Len(rs)) /\ 1..Len(rs) \subseteq Int
    BY <1>0, UpTo
  <2> HIDE DEF S
  <2> QED
    BY <1>1, <2>1, FS_Subset
<1>3. \A x \in S : {y \in S \ {x} : y < x} = Before(S, R, x)
  BY DEF Before
<1>4. \A x, y \in S : <<x, y>> \in R <=> x < y
  OBVIOUS
<1> DEFINE ranked(n) == CHOOSE x \in S : Cardinality({y \in S \ {x} : y < x}) = n - 1
           at == [n \in 1..Cardinality(S) |-> ranked(n)]
<1>5. g = at
  BY DEF BeginningsAsMet, InOrder
<1> HIDE DEF S, R, g
<1>6. StrictOrder(S, R)
  <2>1. ASSUME NEW x \in S, NEW y \in S, x # y PROVE <<x, y>> \in R <=> <<y, x>> \notin R
    <3>1. x \in Int /\ y \in Int
      BY <1>2
    <3> QED
      BY <1>4, <2>1, <3>1
  <2>2. ASSUME NEW x \in S, NEW y \in S, NEW z \in S, <<x, y>> \in R, <<y, z>> \in R PROVE <<x, z>> \in R
    <3>1. x \in Int /\ y \in Int /\ z \in Int
      BY <1>2
    <3> QED
      BY <1>4, <2>2, <3>1
  <2> QED
    BY <2>1, <2>2 DEF StrictOrder
<1> HIDE DEF ranked
<1>7. at = [n \in 1..Cardinality(S) |-> at[n]]
  OBVIOUS
<1>8. ASSUME NEW n \in 1..Cardinality(S) PROVE at[n] \in S /\ Cardinality(Before(S, R, at[n])) = n - 1
  <2>0. PICK x \in S : Cardinality(Before(S, R, x)) = n - 1
    BY <1>2, <1>6, RankIsPlace
  <2>1. Cardinality({y \in S \ {x} : y < x}) = n - 1
    BY <1>3, <2>0
  <2>2. at[n] = CHOOSE z \in S : Cardinality({y \in S \ {z} : y < z}) = n - 1
    BY DEF ranked
  <2> HIDE DEF at
  <2>3. at[n] \in S /\ Cardinality({y \in S \ {at[n]} : y < at[n]}) = n - 1
    BY <2>1, <2>2
  <2> QED
    BY <1>3, <2>3
<1> HIDE DEF at
<1>9. Lists(at, S, R)
  BY <1>7, <1>8 DEF Lists
<1>10. /\ at \in Seq(S) /\ {at[n] : n \in 1..Len(at)} = S
       /\ \A m, n \in 1..Len(at) : at[m] = at[n] => m = n
  BY <1>2, <1>6, <1>9, ListFacts
<1>11. DOMAIN at = 1..Len(at) /\ Len(at) \in Nat
  BY <1>10
<1> QED
  BY <1>5, <1>10, <1>11 DEF g, S

-----------------------------------------------------------------------------
(* Every answer is a sequence.                                             *)
Listed(s) == \E T : s \in Seq(T)

LEMMA ListedIs ==
  ASSUME NEW m \in Nat, NEW f, f = [n \in 1..m |-> f[n]]
  PROVE  f \in Seq({f[n] : n \in 1..m}) /\ Len(f) = m /\ Listed(f)
<1>1. f \in Seq({f[n] : n \in 1..m}) /\ Len(f) = m
  OBVIOUS
<1> QED
  BY <1>1 DEF Listed

LEMMA AmongListed ==
  ASSUME NEW s, Listed(s), NEW S
  PROVE  Listed(Among(s, S))
BY AmongFacts DEF Listed

LEMMA AggregateListed ==
  ASSUME NEW rs, Listed(rs), NEW aggs, NEW group
  PROVE  Listed(execute_aggregate(rs, aggs, group))
<1> DEFINE e == execute_aggregate(rs, aggs, group)  keys == BeginningsAsMet(rs, group)
           row(n) == GroupRow(rs, aggs, group, rs[keys[n]])
<1>1. CASE rs = <<>>
  <2> DEFINE x == [k \in DOMAIN aggs |-> IF aggs[k].fn = "COUNT" THEN Integer(0) ELSE Null]
  <2>1. e = <<x>>
    BY <1>1 DEF execute_aggregate
  <2> HIDE DEF e, x
  <2>2. <<x>> \in Seq({x})
    OBVIOUS
  <2> QED
    BY <2>1, <2>2 DEF Listed, e
<1>2. CASE rs # <<>>
  <2>1. DOMAIN keys = 1..Len(keys) /\ Len(keys) \in Nat
    BY BeginningsListed DEF Listed
  <2>2. e = [n \in 1..Len(keys) |-> row(n)]
    BY <1>2, <2>1 DEF execute_aggregate
  <2> HIDE DEF keys, row
  <2>3. e = [n \in 1..Len(keys) |-> e[n]]
    BY <2>2
  <2> HIDE DEF e
  <2>4. Listed(e)
    BY <2>1, <2>3, ListedIs
  <2> QED
    BY <2>4 DEF e
<1> QED
  BY <1>1, <1>2

LEMMA SortedListed ==
  ASSUME NEW rs, Listed(rs), NEW order
  PROVE  Listed(Sorted(rs, order)) /\ Len(Sorted(rs, order)) = Len(rs)
<1> DEFINE f == Sorted(rs, order)  at == SortOrder(rs, order)
<1>1. DOMAIN rs = 1..Len(rs) /\ Len(rs) \in Nat
  BY DEF Listed
<1>2. f = [n \in 1..Len(rs) |-> rs[at[n]]]
  BY <1>1 DEF Sorted
<1> HIDE DEF at
<1>3. f = [n \in 1..Len(rs) |-> f[n]]
  BY <1>2
<1> HIDE DEF f
<1>4. Listed(f) /\ Len(f) = Len(rs)
  BY <1>1, <1>3, ListedIs
<1> QED
  BY <1>4 DEF f

LEMMA ProjectionListed ==
  ASSUME NEW rs, Listed(rs), NEW columns
  PROVE  LET f == [k \in DOMAIN rs |-> [i \in DOMAIN columns |-> rs[k][SortPosition(columns[i])]]] IN
         Listed(f) /\ Len(f) = Len(rs)
<1> DEFINE row(k) == [i \in DOMAIN columns |-> rs[k][SortPosition(columns[i])]]
           f == [k \in 1..Len(rs) |-> row(k)]
<1>1. DOMAIN rs = 1..Len(rs) /\ Len(rs) \in Nat
  BY DEF Listed
<1> HIDE DEF row
<1>3. f = [k \in 1..Len(rs) |-> f[k]]
  OBVIOUS
<1> HIDE DEF f
<1>4. Listed(f) /\ Len(f) = Len(rs)
  BY <1>1, <1>3, ListedIs
<1> QED
  BY <1>1, <1>4 DEF f, row

(* After every node there is a sequence, of rows or none.                  *)
LEMMA ThenListed ==
  ASSUME Typed, NEW r, Listed(r.rows), NEW node, node.node \in {"Having", "Aggregate", "Sort", "Projection"}
  PROVE  Listed(Then(r, node).rows)
<1> DEFINE rs == r.rows  x == NodeResult(node, rs)
           f == [k \in DOMAIN rs |-> [i \in DOMAIN node.columns |-> rs[k][SortPosition(node.columns[i])]]]
           S == {row \in ToSet(rs) : evaluate_predicate(node.predicate, row)}
<1>1. \/ x = Panic \/ x = Unspecified
      \/ x = Rows(Among(rs, S))
      \/ x = Rows(execute_aggregate(rs, node.aggregates, node.group))
      \/ x = Rows(Sorted(rs, node.order))
      \/ x = Rows(f)
  BY DEF NodeResult
<1>2. Listed(Among(rs, S)) /\ Listed(execute_aggregate(rs, node.aggregates, node.group)) /\ Listed(Sorted(rs, node.order))
  <2> HIDE DEF rs, S
  <2> QED
    BY AmongListed, AggregateListed, SortedListed DEF rs
<1>3. Listed(f)
  BY ProjectionListed
<1>4. Listed(<<>>)
  BY <<>> \in Seq({}) DEF Listed
<1> HIDE DEF f, rs, S, x
<1>5. Listed(x.rows)
  BY <1>1, <1>2, <1>3, <1>4, EndsAre
<1> QED
  BY <1>5 DEF Then, x, rs

(* What LIMIT cuts is a sequence.                                          *)
LEMMA WholeListed ==
  ASSUME Typed, NEW q \in Select
  PROVE  Listed(Projected(convert_select(q)).rows)
<1> DEFINE c == convert_select(q)
<1>1. c.where = convert_expr_to_where(q.where) /\ q.where \in Condition
  BY SelectIs
<1> HIDE DEF c
<1>2. Found(c).rows = <<>> \/ Rowed(Found(c).rows)
  BY <1>1, SourceFinds DEF Found
<1>3. Listed(Found(c).rows)
  BY <1>2, <<>> \in Seq({}) DEF Listed, Rowed
<1>4. Listed(Groups(c).rows)
  BY <1>3, ThenListed DEF Groups
<1>5. Listed(Kept(c).rows)
  BY <1>4, ThenListed DEF Kept
<1>6. Listed(Ordered(c).rows)
  BY <1>5, ThenListed DEF Ordered
<1>7. Listed(Projected(c).rows)
  BY <1>6, ThenListed DEF Projected
<1> QED
  BY <1>7 DEF c

-----------------------------------------------------------------------------
(* Pages.                                                                  *)

(* How many pages of a size there are.                                     *)
LEMMA WholePages ==
  ASSUME NEW l \in Nat, NEW size \in Nat \ {0}
  PROVE  LET d == l \div size IN
         d \in Nat /\ d * size <= l /\ l < (d + 1) * size /\ \A n \in 0..d : n * size \in Nat /\ n * size <= l
<1> DEFINE d == l \div size
<1>1. d \in Nat /\ d * size <= l /\ l < (d + 1) * size
  OBVIOUS
<1> HIDE DEF d
<1>2. \A n \in 0..d : n * size \in Nat /\ n * size <= d * size
  BY <1>1
<1>3. \A n \in 0..d : n * size \in Nat /\ n * size <= l
  <2> SUFFICES ASSUME NEW n \in 0..d PROVE n * size \in Nat /\ n * size <= l
    OBVIOUS
  <2>1. n * size \in Nat /\ n * size <= d * size /\ d * size \in Int
    BY <1>1, <1>2
  <2> QED
    BY <1>1, <2>1
<1> QED
  BY <1>1, <1>3 DEF d

(* The page that begins where the pages before it end.                     *)
LEMMA OnePageMore ==
  ASSUME NEW T, NEW rs \in Seq(T), NEW o \in 0..Len(rs), NEW size \in Nat \ {0}, NEW node,
         node.limit = size, node.offset = o
  PROVE  SubSeq(rs, 1, o) \o Cut(rs, node) = SubSeq(rs, 1, Smallest(o + size, Len(rs))) /\ Cut(rs, node) \in Seq(T)
<1> DEFINE L == Len(rs)  rest == SubSeq(rs, o + 1, L)  m == Smallest(size, L - o)  page == SubSeq(rest, 1, m)
           before == SubSeq(rs, 1, o)  all == SubSeq(rs, 1, Smallest(o + size, L))
<1>1. L \in Nat /\ o \in Nat /\ o <= L
  OBVIOUS
<1>2. rest \in Seq(T) /\ Len(rest) = L - o /\ \A i \in 1..L - o : rest[i] = rs[o + i]
  BY <1>1
<1>3. m \in 0..L - o /\ Smallest(o + size, L) = o + m
  BY <1>1 DEF Smallest
<1>4. before \in Seq(T) /\ Len(before) = o /\ \A i \in 1..o : before[i] = rs[i]
  BY <1>1
<1>5. Cut(rs, node) = page
  <2>1. size # -1
    OBVIOUS
  <2> QED
    BY <1>2, <2>1 DEF Cut
<1> HIDE DEF rest, m, before
<1>6. page \in Seq(T) /\ Len(page) = m /\ \A i \in 1..m : page[i] = rs[o + i]
  BY <1>1, <1>2, <1>3
<1>7. all \in Seq(T) /\ Len(all) = o + m /\ \A i \in 1..o + m : all[i] = rs[i]
  BY <1>1, <1>3
<1> HIDE DEF page, all, L
<1> DEFINE both == before \o page
<1>8. /\ both \in Seq(T) /\ Len(both) = o + m
      /\ \A i \in 1..o + m : both[i] = IF i <= o THEN before[i] ELSE page[i - o]
  <2>1. /\ both \in Seq(T) /\ Len(both) = Len(before) + Len(page)
        /\ \A i \in 1..Len(before) : both[i] = before[i]
        /\ \A i \in 1..Len(page) : both[Len(before) + i] = page[i]
    <3>1. before \in Seq(T) /\ page \in Seq(T)
      BY <1>4, <1>6
    <3> QED
      BY ONLY <3>1, Concatenates DEF both
  <2> HIDE DEF both
  <2>2. ASSUME NEW i \in 1..o + m PROVE both[i] = IF i <= o THEN before[i] ELSE page[i - o]
    <3>1. CASE i <= o
      BY <1>1, <1>3, <1>4, <2>1, <3>1
    <3>2. CASE ~(i <= o)
      <4>1. i - o \in 1..m /\ o + (i - o) = i
        BY <1>1, <1>3, <3>2
      <4>2. both[o + (i - o)] = page[i - o]
        BY <1>4, <1>6, <2>1, <4>1
      <4> QED
        BY <3>2, <4>1, <4>2
    <3> QED
      BY <3>1, <3>2
  <2> QED
    BY <1>4, <1>6, <2>1, <2>2
<1> HIDE DEF both
<1>9. ASSUME NEW i \in 1..o + m PROVE both[i] = all[i]
  <2>1. CASE i <= o
    <3>1. i \in 1..o
      BY <1>1, <1>3, <2>1
    <3> QED
      BY <1>4, <1>7, <1>8, <2>1, <3>1
  <2>2. CASE i > o
    <3>1. i - o \in 1..m /\ o + (i - o) = i /\ ~(i <= o)
      BY <1>1, <1>3, <2>2
    <3>2. page[i - o] = rs[o + (i - o)]
      BY <1>6, <3>1
    <3> QED
      BY <1>7, <1>8, <3>1, <3>2
  <2> QED
    BY <1>1, <1>3, <2>1, <2>2
<1>10. both = all
  BY <1>7, <1>8, <1>9, SameSeq
<1> QED
  BY <1>5, <1>6, <1>10 DEF both, before, all, L

(* The pages, joined, are all there is.                                    *)
LEMMA PagesJoin ==
  ASSUME NEW T, NEW rs \in Seq(T), NEW size \in Nat \ {0}, NEW f,
         f = [k \in 1..Len(rs) \div size + 1 |-> f[k]],
         \A k \in 1..Len(rs) \div size + 1 :
           f[k] = Cut(rs, [node |-> "Limit", limit |-> size, offset |-> (k - 1) * size])
  PROVE  FlattenSeq(f) = rs
<1> DEFINE L == Len(rs)  d == L \div size  S == Seq(T)
           end(n) == Smallest(n * size, L)
           P == {n \in Nat : n <= d + 1 => FlattenSeq(SubSeq(f, 1, n)) = SubSeq(rs, 1, end(n))}
<1>1. /\ L \in Nat /\ d \in Nat /\ L < (d + 1) * size
      /\ \A n \in 0..d : n * size \in Nat /\ n * size <= L
  BY WholePages
<1>2. ASSUME NEW n \in 0..d PROVE end(n) = n * size /\ end(n) \in 0..L /\ end(n + 1) = Smallest(n * size + size, L)
  <2>1. (n + 1) * size = n * size + size
    BY <1>1
  <2>2. n * size \in Nat /\ n * size <= L
    BY <1>1
  <2> HIDE DEF L
  <2> QED
    BY <1>1, <2>1, <2>2 DEF Smallest
<1>3. ASSUME NEW n \in 0..d
      PROVE  SubSeq(rs, 1, end(n)) \o f[n + 1] = SubSeq(rs, 1, end(n + 1)) /\ f[n + 1] \in S
  <2> DEFINE node == [node |-> "Limit", limit |-> size, offset |-> n * size]
  <2>0. n + 1 \in 1..d + 1 /\ n + 1 - 1 = n
    BY <1>1
  <2>1. f[n + 1] = Cut(rs, node)
    <3> DEFINE cut(k) == Cut(rs, [node |-> "Limit", limit |-> size, offset |-> (k - 1) * size])
    <3>1. \A k \in 1..d + 1 : f[k] = cut(k)
      OBVIOUS
    <3>2. cut(n + 1) = Cut(rs, [node |-> "Limit", limit |-> size, offset |-> n * size])
      BY <2>0
    <3> HIDE DEF cut, d
    <3> QED
      BY <2>0, <3>1, <3>2
  <2>2. node.limit = size /\ node.offset = n * size
    OBVIOUS
  <2> HIDE DEF node
  <2>3. SubSeq(rs, 1, n * size) \o Cut(rs, node) = SubSeq(rs, 1, Smallest(n * size + size, Len(rs))) /\ Cut(rs, node) \in Seq(T)
    <3>1. n * size \in 0..Len(rs)
      BY <1>1
    <3> QED
      BY <2>2, <3>1, OnePageMore, Zenon
  <2> QED
    BY <1>2, <2>1, <2>3
<1>0. \A n \in 0..d + 1 : end(n) = Smallest(n * size, L)
  OBVIOUS
<1> HIDE DEF end, d, S
<1>4. f \in Seq(S) /\ Len(f) = d + 1
  <2>1. \A k \in 1..d + 1 : f[k] \in S
    <3> SUFFICES ASSUME NEW k \in 1..d + 1 PROVE f[k] \in S
      OBVIOUS
    <3>1. k - 1 \in 0..d /\ k - 1 + 1 = k
      BY <1>1
    <3>2. f[k - 1 + 1] \in S
      BY <1>3, <3>1
    <3> QED
      BY <3>1, <3>2
  <2>2. f = [k \in 1..d + 1 |-> f[k]]
    BY DEF d
  <2>3. d + 1 \in Nat
    BY <1>1
  <2> QED
    BY ONLY <2>1, <2>2, <2>3
<1>5. 0 \in P
  <2>1. SubSeq(f, 1, 0) = <<>> /\ SubSeq(rs, 1, 0) = <<>>
    BY <1>4, PrefixIs
  <2>2. end(0) = 0
    BY <1>1, <1>2
  <2>3. FlattenSeq(<<>>) = <<>>
    BY FlattenStep, <<>> \in Seq(Seq(T)), <<>> \in Seq(T)
  <2> QED
    BY <2>1, <2>2, <2>3
<1>6. ASSUME NEW n \in P PROVE n + 1 \in P
  <2> SUFFICES ASSUME n + 1 <= d + 1 PROVE FlattenSeq(SubSeq(f, 1, n + 1)) = SubSeq(rs, 1, end(n + 1))
    OBVIOUS
  <2> DEFINE u == SubSeq(f, 1, n)
  <2>1. n \in 0..d /\ FlattenSeq(u) = SubSeq(rs, 1, end(n))
    BY <1>1
  <2>2. u \in Seq(S) /\ SubSeq(f, 1, n + 1) = Append(u, f[n + 1])
    <3>1. Len(f) = d + 1 /\ d \in Nat /\ n \in 0..d
      BY <1>1, <1>4, <2>1
    <3>2. n \in 0..Len(f) - 1 /\ n \in 0..Len(f)
      BY ONLY <3>1
    <3> QED
      BY <1>4, <3>2, PrefixIs
  <2> HIDE DEF u
  <2>3. u \in Seq(Seq(T)) /\ f[n + 1] \in Seq(T)
    BY <1>3, <2>1, <2>2 DEF S
  <2>4. FlattenSeq(Append(u, f[n + 1])) = FlattenSeq(u) \o f[n + 1]
    BY <2>3, Flattens
  <2> QED
    BY <1>3, <2>1, <2>2, <2>4
<1>6a. P \subseteq Nat
  OBVIOUS
<1>7. P = Nat
  <2> HIDE DEF P
  <2> QED
    BY <1>5, <1>6, <1>6a, Induction
<1>8. d + 1 \in P
  BY <1>1, <1>7
<1>9. SubSeq(f, 1, d + 1) = f
  BY <1>4, PrefixIs
<1>10. end(d + 1) = L
  <2>1. (d + 1) * size \in Int /\ ~((d + 1) * size < L)
    <3>1. (d + 1) * size \in Int
      BY <1>1
    <3> QED
      BY <1>1, <3>1
  <2> QED
    BY <2>1 DEF end, Smallest
<1>11. SubSeq(rs, 1, L) = rs
  OBVIOUS
<1>12. FlattenSeq(SubSeq(f, 1, d + 1)) = SubSeq(rs, 1, end(d + 1))
  <2>1. d + 1 <= d + 1
    BY <1>1
  <2> QED
    BY <1>8, <2>1
<1> HIDE DEF L
<1> QED
  BY <1>9, <1>10, <1>11, <1>12

(* A LIMIT and an OFFSET cut the answer the query has without them.        *)
LEMMA PageIs ==
  ASSUME NEW q \in Select, q.limit = -1, q.offset = 0, execute_select(q).end = "rows",
         NEW size \in Nat \ {0}, NEW off \in Nat
  PROVE  /\ execute_select(q) = Projected(convert_select(q))
         /\ execute_select([q EXCEPT !.limit = size, !.offset = off]).rows
              = Cut(execute_select(q).rows, [node |-> "Limit", limit |-> size, offset |-> off])
<1> DEFINE r == [q EXCEPT !.limit = size, !.offset = off]  b == convert_select(q)  c == convert_select(r)
           node == [node |-> "Limit", limit |-> size, offset |-> off]
<1>1. /\ r.items = q.items /\ r.where = q.where /\ r.group = q.group /\ r.having = q.having /\ r.order = q.order
      /\ r.limit = size /\ r.offset = off
  BY DEF Select
<1> HIDE DEF r
<1>2. /\ c.items = b.items /\ c.aggregates = b.aggregates /\ c.where = b.where /\ c.group = b.group
      /\ c.having = b.having /\ c.order = b.order /\ c.limit = size /\ c.offset = off
      /\ b.limit = -1 /\ b.offset = 0
  BY <1>1 DEF convert_select
<1>3. execute_select(q) = evaluate_plan(plan_select(b)) /\ execute_select(r) = evaluate_plan(plan_select(c))
  BY DEF execute_select
<1> HIDE DEF b, c
<1>4. Found(c) = Found(b) /\ (Aggregated(c) <=> Aggregated(b))
  BY <1>2 DEF Found, Aggregated
<1>5. Projected(c) = Projected(b)
  BY <1>2, <1>4 DEF Projected, Ordered, Kept, Groups
<1>6. evaluate_plan(plan_select(b)) = Projected(b)
  BY <1>2, SelectRuns
<1>7. evaluate_plan(plan_select(c)) = Then(Projected(c), node)
  <2>1. size # -1
    OBVIOUS
  <2> QED
    BY <1>2, <2>1, SelectRuns
<1>8. Then(Projected(b), node) = NodeResult(node, Projected(b).rows)
  BY <1>3, <1>6 DEF Then
<1>9. NodeResult(node, Projected(b).rows) = Rows(Cut(Projected(b).rows, node))
  BY DEF NodeResult
<1>10. \A s : Rows(s).rows = s
  BY EndsAre
<1> HIDE DEF node
<1>11. execute_select(r).rows = Cut(Projected(b).rows, node)
  BY <1>3, <1>5, <1>7, <1>8, <1>9, <1>10
<1> QED
  BY <1>3, <1>6, <1>11 DEF r, b, node

(* PagesTile holds of every table.                                         *)
LEMMA PagesAreWhole ==
  ASSUME Typed
  PROVE  PagesTile
<1> SUFFICES ASSUME NEW q \in Selects, NEW size \in PageSizes, q.limit = -1, q.offset = 0, execute_select(q).end = "rows"
             PROVE  FlattenSeq([k \in 1..Len(execute_select(q).rows) \div size + 1 |->
                                 execute_select([q EXCEPT !.limit = size, !.offset = (k - 1) * size]).rows])
                      = execute_select(q).rows
  BY DEF PagesTile
<1>1. q \in Select /\ size \in Nat \ {0}
  BY SelectsAssumption, PagesAssumption
<1> DEFINE whole == execute_select(q)  d == Len(whole.rows) \div size
           page(k) == execute_select([q EXCEPT !.limit = size, !.offset = (k - 1) * size]).rows
           f == [k \in 1..d + 1 |-> page(k)]
<1>2. whole = Projected(convert_select(q))
  BY <1>1, PageIs, 0 \in Nat
<1>3. Listed(whole.rows)
  BY <1>1, <1>2, WholeListed
<1>4. PICK T : whole.rows \in Seq(T)
  BY <1>3 DEF Listed
<1>5. d \in Nat /\ \A n \in 0..d : n * size \in Nat
  BY <1>1, <1>4, WholePages, Len(whole.rows) \in Nat
<1>6. ASSUME NEW k \in 1..d + 1
      PROVE  page(k) = Cut(whole.rows, [node |-> "Limit", limit |-> size, offset |-> (k - 1) * size])
  <2>1. k - 1 \in 0..d
    BY <1>5
  <2>2. (k - 1) * size \in Nat
    BY <1>5, <2>1
  <2> QED
    BY <1>1, <2>2, PageIs
<1> HIDE DEF page
<1>7. f = [k \in 1..d + 1 |-> f[k]] /\ \A k \in 1..d + 1 : f[k] = page(k)
  OBVIOUS
<1> HIDE DEF f
<1>8. FlattenSeq(f) = whole.rows
  <2>1. \A k \in 1..Len(whole.rows) \div size + 1 :
          f[k] = Cut(whole.rows, [node |-> "Limit", limit |-> size, offset |-> (k - 1) * size])
    BY <1>6, <1>7, Zenon
  <2>2. f = [k \in 1..Len(whole.rows) \div size + 1 |-> f[k]]
    BY <1>7, Zenon
  <2> HIDE DEF whole
  <2> QED
    BY ONLY <1>1, <1>4, <2>1, <2>2, PagesJoin
<1> QED
  BY <1>8 DEF f, page

-----------------------------------------------------------------------------
(* Conditions and their negations.                                         *)

(* SELECT * with a condition.                                              *)
AllWhere(w) == [All EXCEPT !.where = w]

(* Nothing is kept by a set that has none of the elements.                 *)
LEMMA AmongNone ==
  ASSUME NEW T, NEW s \in Seq(T), NEW S, \A i \in 1..Len(s) : s[i] \notin S
  PROVE  Among(s, S) = <<>>
<1> DEFINE a == Among(s, S)
<1>1. LET b == Among(s, S) IN b \in Seq(T) /\ {b[k] : k \in 1..Len(b)} = {s[i] : i \in 1..Len(s)} \cap S
  BY ONLY s \in Seq(T), AmongElements
<1>2. a \in Seq(T) /\ {a[k] : k \in 1..Len(a)} = {s[i] : i \in 1..Len(s)} \cap S
  BY <1>1
<1> HIDE DEF a
<1>3. \A k \in 1..Len(a) : FALSE
  <2> SUFFICES ASSUME NEW k \in 1..Len(a) PROVE FALSE
    OBVIOUS
  <2>1. a[k] \in {s[i] : i \in 1..Len(s)} \cap S
    BY <1>2
  <2> QED
    BY <2>1
<1>4. a = <<>>
  <2>1. Len(a) \in Nat /\ ~(1 \in 1..Len(a))
    BY <1>2, <1>3
  <2>2. Len(a) = 0
    BY <2>1
  <2> QED
    BY <1>2, <2>2
<1> QED
  BY <1>4 DEF a

(* What convert_select makes of a SELECT *.                                *)
LEMMA AllIs ==
  ASSUME NEW w \in Condition
  PROVE  LET q == AllWhere(w)  c == convert_select(q) IN
         /\ q.where = w /\ q.having = <<>> /\ q.order = <<>> /\ q.limit = -1 /\ q.offset = 0
         /\ c.where = convert_expr_to_where(w) /\ c.having = <<>> /\ c.order = <<>> /\ c.limit = -1 /\ c.offset = 0
         /\ Wanted(c.items) = Columns /\ ~Aggregated(c)
<1> DEFINE q == AllWhere(w)  c == convert_select(q)
           star == [is |-> "col", fn |-> "", arg |-> "*", alias |-> ""]
<1>1. /\ q.items = <<star>> /\ q.where = w /\ q.group = <<>> /\ q.having = <<>> /\ q.order = <<>>
      /\ q.limit = -1 /\ q.offset = 0
  BY DEF AllWhere, All
<1>3. star.is = "col" /\ Display(star) = "*"
  <2>1. star.is = "col" /\ star.alias = "" /\ star.arg = "*"
    OBVIOUS
  <2> HIDE DEF star
  <2> QED
    BY <2>1 DEF Display
<1>4. <<>> \in Condition
  BY DEF Condition
<1> HIDE DEF q, star
<1>5. DOMAIN <<star>> = {1} /\ <<star>>[1] = star
  OBVIOUS
<1>7. /\ c.where = convert_expr_to_where(w) /\ c.order = <<>> /\ c.limit = -1 /\ c.offset = 0
      /\ c.having = convert_expr_to_where(<<>>) /\ c.items = [i \in {1} |-> "*"]
  BY <1>1, <1>3, <1>5 DEF convert_select
<1>8. c.having = <<>>
  BY <1>4, <1>7, ConvertedIs
<1>9. ~Aggregated(c)
  <2> DEFINE F == {item \in ToSet(<<star>>) : item.is = "fn"}
  <2>1. F = {}
    BY <1>3, <1>5 DEF ToSet
  <2>2. c.aggregates = Among(<<star>>, F) /\ c.group = <<>>
    BY <1>1 DEF convert_select
  <2> HIDE DEF F, c
  <2>3. Among(<<star>>, F) = <<>>
    <3>1. <<star>> \in Seq({star})
      OBVIOUS
    <3>2. \A i \in 1..Len(<<star>>) : <<star>>[i] \notin F
      BY <2>1
    <3> QED
      BY ONLY <3>1, <3>2, AmongNone
  <2> QED
    BY <2>2, <2>3 DEF Aggregated
<1>10. Wanted(c.items) = Columns
  <2>1. c.items = <<"*">>
    BY <1>7
  <2> QED
    BY <2>1 DEF Wanted
<1> QED
  BY <1>1, <1>7, <1>8, <1>9, <1>10 DEF q

(* SELECT * projects a row on itself.                                      *)
LEMMA RowsProjected ==
  ASSUME Typed, NEW rs, Rowed(rs)
  PROVE  [k \in DOMAIN rs |-> [i \in DOMAIN Columns |-> rs[k][SortPosition(Columns[i])]]] = rs
<1>1. DOMAIN Columns = 1..2 /\ SortPosition(Columns[1]) = 1 /\ SortPosition(Columns[2]) = 2
  <2>1. DOMAIN Columns = 1..2 /\ Columns[1] = "id" /\ Columns[2] = "c"
    BY DEF Columns
  <2> QED
    BY <2>1, PositionIs DEF SortPosition
<1>2. DOMAIN rs = 1..Len(rs) /\ rs = [k \in 1..Len(rs) |-> rs[k]]
  BY DEF Rowed
<1>3. ASSUME NEW k \in 1..Len(rs) PROVE [i \in DOMAIN Columns |-> rs[k][SortPosition(Columns[i])]] = rs[k]
  <2>1. rs[k] \in rows
    BY DEF Rowed
  <2>2. rs[k] = <<rs[k][1], rs[k][2]>> /\ DOMAIN rs[k] = 1..2
    BY <2>1, RowIs
  <2>3. rs[k] = [i \in 1..2 |-> rs[k][i]]
    BY <2>2
  <2>4. \A i \in 1..2 : SortPosition(Columns[i]) = i
    BY <1>1
  <2> QED
    BY <1>1, <2>3, <2>4
<1> QED
  BY <1>2, <1>3

(* A SELECT * answers what its source finds.                               *)
LEMMA AllRuns ==
  ASSUME Typed, NEW w \in Condition
  PROVE  LET r == execute_select(AllWhere(w))  f == evaluate_plan(Source(convert_expr_to_where(w))) IN
         r.rows = f.rows /\ r.end = f.end
<1> DEFINE q == AllWhere(w)  c == convert_select(q)  f == evaluate_plan(Source(convert_expr_to_where(w)))
           node == [node |-> "Projection", columns |-> Columns]
<1>1. /\ c.where = convert_expr_to_where(w) /\ c.having = <<>> /\ c.order = <<>> /\ c.limit = -1 /\ c.offset = 0
      /\ Wanted(c.items) = Columns /\ ~Aggregated(c)
  BY AllIs
<1>2. execute_select(q) = evaluate_plan(plan_select(c))
  BY DEF execute_select
<1> HIDE DEF c
<1>3. evaluate_plan(plan_select(c)) = Projected(c)
  BY <1>1, SelectRuns
<1>4. Found(c) = f
  BY <1>1 DEF Found
<1>5. Projected(c) = Then(f, node)
  BY <1>1, <1>4 DEF Projected, Ordered, Kept, Groups
<1>6. \/ f.end = "rows" /\ Rowed(f.rows)
      \/ f.end = "panic" /\ f.rows = <<>>
  BY SourceFinds
<1> HIDE DEF f
<1>7. NodeResult(node, f.rows) = Rows([k \in DOMAIN f.rows |-> [i \in DOMAIN Columns |-> f.rows[k][SortPosition(Columns[i])]]])
  BY NodesAre
<1>8. CASE f.end = "rows" /\ Rowed(f.rows)
  <2>1. NodeResult(node, f.rows) = Rows(f.rows)
    BY <1>7, <1>8, RowsProjected
  <2>2. Then(f, node) = Rows(f.rows)
    BY <1>8, <2>1 DEF Then
  <2>3. Rows(f.rows).end = "rows" /\ Rows(f.rows).rows = f.rows
    BY EndsAre
  <2> QED
    BY <1>2, <1>3, <1>5, <1>8, <2>2, <2>3 DEF f
<1>9. CASE f.end = "panic"
  <2>1. Then(f, node) = f
    BY <1>9 DEF Then
  <2> QED
    BY <1>2, <1>3, <1>5, <2>1 DEF f
<1> QED
  BY <1>6, <1>8, <1>9

(* A condition of one node.                                                *)
LEMMA LeafCondition ==
  ASSUME NEW x \in Leaf
  PROVE  /\ <<x>> \in Condition /\ Named(<<x>>) = {x.col} /\ x.is \notin Forks
         /\ convert_expr_to_where(<<x>>) = <<ConvertNode(x)>> /\ Last(<<ConvertNode(x)>>) = ConvertNode(x)
         /\ ConvertNode(x).is \notin Forks /\ ConvertNode(x).col = x.col
<1>1. x.is \notin Forks
  BY DEF Leaf, Forks
<1>2. <<x>> \in Condition
  <2> DEFINE Node == Leaf \cup [is : {"and", "or"}, left : Nat, right : Nat]
  <2>1. x \in Node
    OBVIOUS
  <2> HIDE DEF Node
  <2>2. <<x>> \in Seq(Node) /\ DOMAIN <<x>> = {1} /\ <<x>>[1] = x
    BY <2>1
  <2>3. \A n \in DOMAIN <<x>> : <<x>>[n].is \in {"and", "or"} => {<<x>>[n].left, <<x>>[n].right} \subseteq 1..n - 1
    BY <1>1, <2>2 DEF Forks
  <2> QED
    BY <2>2, <2>3 DEF Condition, Node
<1>3. DOMAIN <<x>> = {1} /\ <<x>>[1] = x /\ Len(<<x>>) = 1
  OBVIOUS
<1>4. Named(<<x>>) = {x.col}
  BY <1>1, <1>3 DEF Named, Forks
<1>5. convert_expr_to_where(<<x>>) = <<ConvertNode(x)>>
  BY <1>3 DEF convert_expr_to_where
<1>6. Last(<<ConvertNode(x)>>) = ConvertNode(x)
  BY DEF Last
<1>7. ConvertNode(x).is \notin Forks /\ ConvertNode(x).col = x.col
  <2> DEFINE c == convert_expr_to_where(<<x>>)
  <2>1. 1 \in 1..Len(<<x>>) /\ <<x>>[1].is \notin Forks
    BY <1>1, <1>3
  <2>2. c[1] = ConvertNode(<<x>>[1]) /\ c[1].is \notin Forks /\ c[1].col = <<x>>[1].col
    BY <1>2, <2>1, ConvertedIs
  <2> QED
    BY <1>3, <2>2
<1> QED
  BY <1>1, <1>2, <1>4, <1>5, <1>6, <1>7

HoldsAre(g, w, row) ==
  g = [n \in DOMAIN w |->
         IF w[n].is = "and" THEN g[w[n].left] /\ g[w[n].right]
         ELSE IF w[n].is = "or" THEN g[w[n].left] \/ g[w[n].right]
         ELSE NodeHolds(w[n], row[Position(w[n].col)])]

(* evaluate_predicate of a condition of one node.                          *)
LEMMA LeafHolds ==
  ASSUME NEW node, node.is \notin Forks, NEW row
  PROVE  evaluate_predicate(<<node>>, row) <=> NodeHolds(node, row[Position(node.col)])
<1> DEFINE w == <<node>>  h == [n \in DOMAIN w |-> NodeHolds(w[n], row[Position(w[n].col)])]
           holds == CHOOSE g : HoldsAre(g, w, row)
<1>1. DOMAIN w = {1} /\ w[1] = node /\ Len(w) = 1
  OBVIOUS
<1>2. Holds(w, row) = holds
  BY DEF Holds, HoldsAre
<1> HIDE DEF w
<1>3. \A n \in DOMAIN w : w[n].is # "and" /\ w[n].is # "or"
  BY <1>1 DEF Forks
<1>4. HoldsAre(h, w, row)
  BY <1>3, Zenon DEF HoldsAre
<1>5. HoldsAre(holds, w, row)
  BY <1>4, Zenon
<1>6. holds[1] <=> NodeHolds(node, row[Position(node.col)])
  <2> HIDE DEF holds
  <2>1. 1 \in DOMAIN w
    BY <1>1
  <2> QED
    BY <1>1, <1>3, <1>5, <2>1, Zenon DEF HoldsAre
<1> QED
  BY <1>1, <1>2, <1>6, Zenon DEF evaluate_predicate, w

(* The rows a filter by one node finds.                                    *)
LEMMA LeafFinds ==
  ASSUME Typed, NEW x \in Leaf, x.col \in ToSet(Columns),
         Source(<<ConvertNode(x)>>) = <<[node |-> "SeqScan"], [node |-> "Filter", predicate |-> <<ConvertNode(x)>>]>>
  PROVE  LET rs == Where(x).rows IN
         /\ Rowed(rs)
         /\ {rs[n] : n \in 1..Len(rs)} = {r \in rows : NodeHolds(ConvertNode(x), r[Position(x.col)])}
<1> DEFINE n == ConvertNode(x)  w == <<x>>  first == [node |-> "SeqScan"]  next == [node |-> "Filter", predicate |-> <<n>>]
           f == evaluate_plan(Source(convert_expr_to_where(w)))  g == NodeResult(next, scan_table)
<1>1. /\ w \in Condition /\ Named(w) = {x.col} /\ convert_expr_to_where(w) = <<n>> /\ n.is \notin Forks /\ n.col = x.col
      /\ w # <<>>
  BY LeafCondition
<1>2. Where(x).rows = f.rows
  <2>1. Where(x) = execute_select(AllWhere(w))
    BY DEF Where, AllWhere
  <2> QED
    BY <1>1, <2>1, AllRuns
<1>3. f = Then(NodeResult(first, <<>>), next)
  BY <1>1, ShortPlans
<1>4. NodeResult(first, <<>>) = Rows(scan_table) /\ Rows(scan_table).end = "rows" /\ Rows(scan_table).rows = scan_table
  BY NodesAre, EndsAre
<1>5. Rowed(scan_table) /\ {scan_table[k] : k \in 1..Len(scan_table)} = rows
  BY EngineFinds
<1> HIDE DEF f, first, w
<1>6. f = g
  BY <1>3, <1>4 DEF Then
<1>7. /\ Rowed(g.rows)
      /\ {g.rows[k] : k \in 1..Len(g.rows)} = {r \in {scan_table[k] : k \in 1..Len(scan_table)} : evaluate_predicate(<<n>>, r)}
  <2>1. LET r == NodeResult([node |-> "Filter", predicate |-> convert_expr_to_where(w)], scan_table) IN
         \/ r.end = "rows" /\ Rowed(r.rows)
            /\ {r.rows[k] : k \in 1..Len(r.rows)}
                 = {y \in {scan_table[k] : k \in 1..Len(scan_table)} : evaluate_predicate(convert_expr_to_where(w), y)}
         \/ r.end = "panic" /\ r.rows = <<>> /\ ~(Named(w) \subseteq ToSet(Columns))
    BY <1>1, <1>5, FilterKeeps
  <2>2. Named(w) \subseteq ToSet(Columns)
    BY <1>1
  <2> QED
    BY <1>1, <2>1, <2>2
<1> HIDE DEF g, n
<1>8. \A r : evaluate_predicate(<<n>>, r) <=> NodeHolds(n, r[Position(x.col)])
  BY <1>1, LeafHolds
<1> QED
  BY <1>2, <1>5, <1>6, <1>7, <1>8 DEF n

(* A negated condition holds where the condition does not.                 *)
LEMMA Negates ==
  ASSUME NEW x \in Leaf, x.is \in {"between", "in", "like", "isnull"}, NEW y, y = [x EXCEPT !.negated = ~x.negated]
  PROVE  /\ y \in Leaf /\ y.col = x.col /\ y.is = x.is
         /\ \A v : NodeHolds(ConvertNode(y), v) <=> ~NodeHolds(ConvertNode(x), v)
<1>1. y \in Leaf /\ y.col = x.col /\ y.is = x.is /\ y.negated = ~x.negated /\ x.negated \in BOOLEAN
  BY DEF Leaf
<1>2. CASE x.is = "between"
  <2> DEFINE lo == expr_to_value(x.low)  hi == expr_to_value(x.high)
  <2>1. y.low = x.low /\ y.high = x.high
    BY <1>2 DEF Leaf
  <2>2. ASSUME NEW z, z.is = "between", z.col = x.col, z.low = x.low, z.high = x.high
        PROVE  ConvertNode(z) = IF z.negated
                                THEN [is |-> "either", col |-> x.col, below |-> Simple(x.col, "<", lo), above |-> Simple(x.col, ">", hi)]
                                ELSE [is |-> "between", col |-> x.col, low |-> lo, high |-> hi]
    BY <2>2 DEF ConvertNode, NotBetween
  <2> HIDE DEF lo, hi
  <2>3. ASSUME NEW v
        PROVE  /\ NodeHolds([is |-> "either", col |-> x.col, below |-> Simple(x.col, "<", lo), above |-> Simple(x.col, ">", hi)], v)
                    <=> (compare_values(v, lo) = -1 \/ compare_values(v, hi) = 1)
               /\ NodeHolds([is |-> "between", col |-> x.col, low |-> lo, high |-> hi], v)
                    <=> (compare_values(v, lo) # -1 /\ compare_values(v, hi) # 1)
    BY DEF NodeHolds, Compares, Simple, Accepted
  <2>4. ConvertNode(x) = IF x.negated
                         THEN [is |-> "either", col |-> x.col, below |-> Simple(x.col, "<", lo), above |-> Simple(x.col, ">", hi)]
                         ELSE [is |-> "between", col |-> x.col, low |-> lo, high |-> hi]
    BY <1>2, <2>2
  <2>5. ConvertNode(y) = IF ~x.negated
                         THEN [is |-> "either", col |-> x.col, below |-> Simple(x.col, "<", lo), above |-> Simple(x.col, ">", hi)]
                         ELSE [is |-> "between", col |-> x.col, low |-> lo, high |-> hi]
    BY <1>1, <1>2, <2>1, <2>2
  <2> QED
    BY <1>1, <2>3, <2>4, <2>5
<1>3. CASE x.is = "in"
  <2> DEFINE vs == [i \in DOMAIN x.list |-> expr_to_value(x.list[i])]
             node(b) == [is |-> "in", col |-> x.col, negated |-> b, values |-> vs]
  <2>1. y.list = x.list
    BY <1>3 DEF Leaf
  <2>2. ConvertNode(x) = node(x.negated) /\ ConvertNode(y) = node(y.negated)
    BY <1>1, <1>3, <2>1 DEF ConvertNode
  <2> HIDE DEF vs
  <2>3. ASSUME NEW v, NEW b PROVE NodeHolds(node(b), v) <=> (b # \E i \in DOMAIN vs : compare_values(v, vs[i]) = 0)
    BY Zenon DEF NodeHolds
  <2> HIDE DEF node
  <2> QED
    BY <1>1, <2>2, <2>3, Zenon
<1>4. CASE x.is = "isnull"
  <2>1. ConvertNode(x) = x /\ ConvertNode(y) = y
    BY <1>1, <1>4 DEF ConvertNode
  <2>2. ASSUME NEW v, NEW z, z.is = "isnull" PROVE NodeHolds(z, v) <=> (z.negated # (v = Null))
    BY <2>2, Zenon DEF NodeHolds
  <2>3. ASSUME NEW v, NEW z, z.is = "isnull", z.negated \in BOOLEAN
        PROVE  NodeHolds(z, v) <=> IF z.negated THEN v # Null ELSE v = Null
    <3>1. NodeHolds(z, v) <=> (z.negated # (v = Null))
      BY <2>2, <2>3
    <3>2. CASE z.negated = TRUE
      BY <3>1, <3>2, Zenon
    <3>3. CASE z.negated = FALSE
      BY <3>1, <3>3, Zenon
    <3> QED
      BY <2>3, <3>2, <3>3
  <2>4. y.is = "isnull" /\ y.negated \in BOOLEAN
    BY <1>1, <1>4
  <2> QED
    BY <1>1, <1>4, <2>1, <2>3, <2>4
<1>5. CASE x.is = "like"
  <2>1. ConvertNode(x) = x /\ ConvertNode(y) = y
    BY <1>1, <1>5 DEF ConvertNode
  <2> DEFINE like(i, p, v) == v.type = "Text" /\ IF i THEN like_match(lower(p), lower(v.data)) ELSE like_match(p, v.data)
  <2>2. y.insensitive = x.insensitive /\ y.pattern = x.pattern /\ y.is = "like" /\ y.negated \in BOOLEAN
    BY <1>1, <1>5 DEF Leaf
  <2>3. ASSUME NEW v, NEW z, z.is = "like", z.negated \in BOOLEAN
        PROVE  NodeHolds(z, v) <=> IF z.negated THEN ~like(z.insensitive, z.pattern, v) ELSE like(z.insensitive, z.pattern, v)
    <3>1. NodeHolds(z, v) <=> (z.negated # like(z.insensitive, z.pattern, v))
      BY <2>3, Zenon DEF NodeHolds
    <3>2. CASE z.negated = TRUE
      BY <3>1, <3>2, Zenon
    <3>3. CASE z.negated = FALSE
      BY <3>1, <3>3, Zenon
    <3> QED
      BY <2>3, <3>2, <3>3
  <2> HIDE DEF like
  <2>4. \A v : NodeHolds(x, v) <=> IF x.negated THEN ~like(x.insensitive, x.pattern, v) ELSE like(x.insensitive, x.pattern, v)
    BY <1>1, <1>5, <2>3
  <2>5. \A v : NodeHolds(y, v) <=> IF y.negated THEN ~like(x.insensitive, x.pattern, v) ELSE like(x.insensitive, x.pattern, v)
    BY <2>2, <2>3
  <2> QED
    BY <1>1, <2>1, <2>4, <2>5
<1> QED
  BY <1>1, <1>2, <1>3, <1>4, <1>5

(* NegationSplits holds of every table.                                    *)
LEMMA NegationsSplit ==
  ASSUME Typed
  PROVE  NegationSplits
<1> SUFFICES ASSUME NEW x \in Wheres, x.is \in {"between", "in", "like", "isnull"}
             PROVE  Complementary(ToSet(Where(x).rows), ToSet(Where([x EXCEPT !.negated = ~x.negated]).rows))
  BY DEF NegationSplits
<1> DEFINE y == [x EXCEPT !.negated = ~x.negated]
<1>1. x \in Leaf /\ x.col \in ToSet(Columns)
  BY WheresAssumption
<1>2. /\ y \in Leaf /\ y.col = x.col /\ y.is = x.is
      /\ \A v : NodeHolds(ConvertNode(y), v) <=> ~NodeHolds(ConvertNode(x), v)
  BY <1>1, Negates
<1> HIDE DEF y
<1>3. ASSUME NEW z \in Leaf, z.is = x.is, z.col = x.col
      PROVE  ToSet(Where(z).rows) = {r \in rows : NodeHolds(ConvertNode(z), r[Position(x.col)])}
  <2> DEFINE n == ConvertNode(z)  rs == Where(z).rows
  <2>1. n.is # "simple"
    BY <1>3 DEF ConvertNode, NotBetween
  <2>2. Last(<<n>>) = n /\ <<n>> # <<>>
    BY DEF Last
  <2>3. Source(<<n>>) = <<[node |-> "SeqScan"], [node |-> "Filter", predicate |-> <<n>>]>>
    <3> HIDE DEF n
    <3> QED
      BY <2>1, <2>2 DEF Source, IsEquals
  <2>4. Rowed(rs) /\ {rs[k] : k \in 1..Len(rs)} = {r \in rows : NodeHolds(n, r[Position(z.col)])}
    BY <1>1, <1>3, <2>3, LeafFinds
  <2>5. DOMAIN rs = 1..Len(rs)
    BY <2>4 DEF Rowed
  <2> QED
    BY <1>3, <2>4, <2>5 DEF ToSet
<1>4. ToSet(Where(x).rows) = {r \in rows : NodeHolds(ConvertNode(x), r[Position(x.col)])}
  BY <1>1, <1>3
<1>5. ToSet(Where(y).rows) = {r \in rows : ~NodeHolds(ConvertNode(x), r[Position(x.col)])}
  BY <1>2, <1>3
<1> QED
  BY <1>4, <1>5 DEF y, Complementary

-----------------------------------------------------------------------------
(* Comparisons and what they mean.                                         *)

(* What a literal stands for.                                              *)
LEMMA LiteralIs ==
  ASSUME NEW e \in LiteralExpr, e.kind # "null", NEW v, v = expr_to_value(e), v.type \in Types
  PROVE  v \in Of(v.type) /\ v.type \in {"Integer", "Float", "Text", "Boolean"}
<1>1. ASSUME NEW t \in {"Integer", "Float", "Text", "Boolean"}, NEW d \in Data(t), v = Val(t, d)
      PROVE  v \in Of(v.type) /\ v.type \in {"Integer", "Float", "Text", "Boolean"}
  <2>1. v.type = t
    BY <1>1 DEF Val
  <2> QED
    BY <1>1, <2>1 DEF Of
<1>2. CASE e.kind = "number"
  <2> DEFINE h == e.data[1]  k == h \div 2  f == Rounded(h)
  <2>1. h \in Nat
    <3>1. e.data \in [1..1 -> Nat]
      BY <1>2 DEF LiteralExpr
    <3> QED
      BY <3>1
  <2>2. k \in Nat
    <3> HIDE DEF h
    <3> QED
      BY <2>1
  <2>3. f \in Nat
    <3> HIDE DEF h
    <3> QED
      BY <2>1, RoundedIs
  <2>4. v = IF e.dec \/ k > MaxInt THEN Float(IF e.sign # "" THEN Opposite(f) ELSE f)
            ELSE Integer(IF e.sign # "" THEN -k ELSE k)
    BY <1>2 DEF expr_to_value, Number
  <2> HIDE DEF h, k, f
  <2>5. CASE e.dec \/ k > MaxInt
    <3> DEFINE n == IF e.sign # "" THEN Opposite(f) ELSE f
    <3>1. n \in Int
      BY <2>3 DEF Opposite
    <3>2. v = Float(n)
      BY <2>4, <2>5
    <3> HIDE DEF n
    <3>3. <<n>> \in Data("Float")
      BY <3>1 DEF Data
    <3> QED
      BY <1>1, <3>2, <3>3 DEF Float
  <2>6. CASE ~(e.dec \/ k > MaxInt)
    <3> DEFINE n == IF e.sign # "" THEN -k ELSE k
    <3>1. n \in Int64
      <4>1. k \in 0..MaxInt /\ MaxInt \in Int
        BY <2>2, <2>6, MaxIntAssumption
      <4>2. k \in Int64 /\ -k \in Int64
        BY <4>1 DEF Int64
      <4> QED
        BY <4>2
    <3>2. v = Integer(n)
      BY <2>4, <2>6
    <3> HIDE DEF n
    <3>3. <<n>> \in Data("Integer")
      BY <3>1 DEF Data
    <3> QED
      BY <1>1, <3>2, <3>3 DEF Integer
  <2> QED
    BY <2>5, <2>6
<1>3. CASE e.kind = "string"
  <2>1. e.data \in Data("Text") /\ v = Val("Text", e.data)
    BY <1>3 DEF LiteralExpr, expr_to_value, Text, Data
  <2> QED
    BY <1>1, <2>1
<1>4. CASE e.kind = "bool"
  <2>1. v = Val("Boolean", e.data) /\ e.data \in [1..1 -> {0, 1}]
    BY <1>4 DEF LiteralExpr, expr_to_value
  <2>2. e.data = <<e.data[1]>> /\ e.data[1] \in Int
    BY <2>1
  <2>3. e.data \in Data("Boolean")
    BY <2>2 DEF Data
  <2> QED
    BY <1>1, <2>1, <2>3
<1>5. CASE e.kind \notin {"number", "string", "bool"}
  <2>0. e.kind = "blob"
    BY <1>5 DEF LiteralExpr
  <2>1. v = Val("error", <<>>)
    BY <2>0 DEF expr_to_value, ParseError
  <2>2. v.type = "error"
    BY <2>1 DEF Val
  <2> QED
    BY <2>2 DEF Types
<1> QED
  BY <1>2, <1>3, <1>4, <1>5

(* The order of two numbers.                                               *)
LEMMA OrderOfOne ==
  ASSUME NEW m \in Int, NEW n \in Int
  PROVE  Order(<<m>>, <<n>>) = IF m < n THEN -1 ELSE IF n < m THEN 1 ELSE 0
<1>1. ASSUME NEW i \in Int, NEW j \in Int PROVE LexLess(<<i>>, <<j>>) <=> i < j
  <2> DEFINE s == <<i>>  t == <<j>>
  <2>1. Len(s) = 1 /\ Len(t) = 1 /\ s[1] = i /\ t[1] = j
    OBVIOUS
  <2> HIDE DEF s, t
  <2>2. ASSUME i < j PROVE LexLess(s, t)
    <3>1. 0 \in 0..Len(s) /\ 0 <= Len(t) /\ (\A k \in 1..0 : s[k] = t[k]) /\ 0 < Len(s) /\ 0 < Len(t) /\ s[0 + 1] < t[0 + 1]
      BY <2>1, <2>2
    <3> QED
      BY <3>1 DEF LexLess
  <2>3. ASSUME LexLess(s, t) PROVE i < j
    <3>1. PICK k \in 0..1 : \/ k = 1 /\ k < 1
                            \/ k < 1 /\ s[k + 1] < t[k + 1]
      BY <2>1, <2>3 DEF LexLess
    <3>2. k = 0
      BY <3>1
    <3> QED
      BY <2>1, <3>1, <3>2
  <2> QED
    BY <2>2, <2>3 DEF s, t
<1>2. LexLess(<<m>>, <<n>>) <=> m < n
  BY <1>1
<1>3. LexLess(<<n>>, <<m>>) <=> n < m
  BY <1>1
<1> QED
  BY <1>2, <1>3 DEF Order

(* A comparison with a literal of the column's type tells what it means.   *)
LEMMA ComparesAsMeant ==
  ASSUME NEW t \in {"Integer", "Float", "Text", "Boolean"}, NEW v \in Of(t), NEW w \in Of(t),
         NEW op \in {"=", "<>", "<", "<=", ">", ">="}
  PROVE  /\ v.type = t /\ w.type = t
         /\ t \in Numeric => /\ compare_values(v, w) \in Accepted(op) <=> Meant(op, Num(v), Num(w))
                             /\ Num(v) = Num(w) <=> v = w
         /\ t \notin Numeric /\ op = "=" => (compare_values(v, w) \in Accepted(op) <=> v = w)
         /\ t \notin Numeric /\ op = "<>" => (compare_values(v, w) \in Accepted(op) <=> v # w)
<1>1. /\ v.type = t /\ w.type = t
      /\ v = Val(t, v.data) /\ w = Val(t, w.data) /\ v.data \in Data(t) /\ w.data \in Data(t)
  BY DEF Of, Val
<1>2. CASE t \in Numeric
  <2>1. /\ \E m \in Int : v.data = <<m>>
        /\ \E m \in Int : w.data = <<m>>
    <3>1. Int64 \subseteq Int
      BY MaxIntAssumption DEF Int64
    <3> QED
      BY <1>1, <1>2, <3>1 DEF Numeric, Data
  <2>2. PICK m \in Int, n \in Int : v.data = <<m>> /\ w.data = <<n>>
    BY <2>1
  <2>3. Num(v) = m /\ Num(w) = n
    BY <2>2 DEF Num
  <2>4. compare_values(v, w) = IF m < n THEN -1 ELSE IF n < m THEN 1 ELSE 0
    <3>1. compare_values(v, w) = Order(v.data, w.data)
      BY <1>1, <1>2 DEF compare_values, Sortable
    <3> QED
      BY <2>2, <3>1, OrderOfOne
  <2>5. compare_values(v, w) \in Accepted(op) <=> Meant(op, m, n)
    <3>1. CASE op = "="
      BY <2>4, <3>1 DEF Accepted, Meant
    <3>2. CASE op = "<>"
      BY <2>4, <3>2 DEF Accepted, Meant
    <3>3. CASE op = "<"
      BY <2>4, <3>3 DEF Accepted, Meant
    <3>4. CASE op = "<="
      BY <2>4, <3>4 DEF Accepted, Meant
    <3>5. CASE op = ">"
      BY <2>4, <3>5 DEF Accepted, Meant
    <3>6. CASE op = ">="
      BY <2>4, <3>6 DEF Accepted, Meant
    <3> QED
      BY <3>1, <3>2, <3>3, <3>4, <3>5, <3>6
  <2>6. m = n <=> v = w
    <3>1. <<m>> = <<n>> <=> m = n
      OBVIOUS
    <3> QED
      BY <1>1, <2>2, <3>1
  <2> QED
    BY <1>1, <1>2, <2>3, <2>5, <2>6
<1>3. CASE t \notin Numeric
  <2>1. t \in {"Text", "Boolean"}
    BY <1>3 DEF Numeric
  <2>2. v.data \in Seq(Int) /\ w.data \in Seq(Int)
    <3>1. CASE t = "Text"
      BY <1>1, <3>1 DEF Data
    <3>2. CASE t = "Boolean"
      <4>1. (\E m \in Int : v.data = <<m>>) /\ (\E m \in Int : w.data = <<m>>)
        BY <1>1, <3>2 DEF Data
      <4> QED
        BY <4>1
    <3> QED
      BY <2>1, <3>1, <3>2
  <2>3. compare_values(v, w) = Order(v.data, w.data)
    BY <1>1, <2>1 DEF compare_values, Sortable
  <2>4. compare_values(v, w) \in {-1, 0, 1} /\ (compare_values(v, w) = 0 <=> v.data = w.data)
    BY <2>2, <2>3, OrderOf
  <2>5. v.data = w.data <=> v = w
    BY <1>1
  <2>6. Accepted("=") = {0} /\ Accepted("<>") = {-1, 1}
    BY DEF Accepted
  <2> QED
    BY <1>1, <1>3, <2>4, <2>5, <2>6
<1> QED
  BY <1>2, <1>3

(* Rows none of which is there twice.                                      *)
LEMMA RowedCounts ==
  ASSUME Typed, NEW rs, Rowed(rs)
  PROVE  Cardinality(ToSet(rs)) = Len(rs)
<1> DEFINE n == Len(rs)  S == {rs[k] : k \in 1..n}
<1>1. rs \in Seq(rows) /\ n \in Nat /\ DOMAIN rs = 1..n
  BY DEF Rowed
<1>2. ToSet(rs) = S
  BY <1>1 DEF ToSet
<1>3. rs \in Bijection(1..n, S)
  <2>1. rs \in [1..n -> S]
    BY <1>1
  <2>2. \A i, j \in 1..n : rs[i] = rs[j] => i = j
    BY DEF Rowed
  <2>3. \A y \in S : \E i \in 1..n : rs[i] = y
    OBVIOUS
  <2> HIDE DEF n, S
  <2> QED
    BY <2>1, <2>2, <2>3 DEF Injection, Surjection, Bijection, IsInjective
<1>4. IsFiniteSet(1..n) /\ Cardinality(1..n) = n
  BY <1>1, UpTo
<1> HIDE DEF n, S
<1>5. Cardinality(S) = Cardinality(1..n)
  BY <1>3, <1>4, FS_Bijection DEF ExistsBijection
<1> QED
  BY <1>2, <1>4, <1>5 DEF n

(* The rows a comparison with a literal finds, whatever the plan.          *)
LEMMA ComparisonFinds ==
  ASSUME Typed, NEW x \in Wheres, Decided(x)
  PROVE  LET rs == Where(x).rows  has(r) == r[Position(x.col)] # Null IN
         /\ Rowed(rs)
         /\ {r \in {rs[n] : n \in 1..Len(rs)} : has(r)} = {r \in rows : has(r) /\ Means(x, r[Position(x.col)])}
<1> DEFINE n == ConvertNode(x)  w == <<x>>  val == expr_to_value(x.lit)  i == Position(x.col)  t == val.type
           f == evaluate_plan(Source(convert_expr_to_where(w)))  rs == Where(x).rows
           found == {rs[k] : k \in 1..Len(rs)}
           has(r) == r[i] # Null
<1>1. x \in Leaf /\ x.col \in {"id", "c"} /\ x.col \in ToSet(Columns)
  <2>1. x \in Leaf /\ x.col \in ToSet(Columns)
    BY WheresAssumption
  <2>2. DOMAIN Columns = 1..2 /\ Columns[1] = "id" /\ Columns[2] = "c"
    BY DEF Columns
  <2> QED
    BY <2>1, <2>2 DEF ToSet
<1>2. /\ x.is = "cmp" /\ x.lit.kind # "null" /\ TypeOf(x.col) = val.type
      /\ TypeOf(x.col) \in Numeric \/ x.op \in {"=", "<>"}
      /\ ~(indexed /\ x.col = "c" /\ coltype = "Text" /\ x.op = "=")
  BY DEF Decided
<1>3. x.lit \in LiteralExpr /\ x.op \in {"=", "<>", "<", "<=", ">", ">="}
  BY <1>1, <1>2 DEF Leaf, Compare
<1>4. val \in Of(t) /\ t \in {"Integer", "Float", "Text", "Boolean"}
  <2>1. TypeOf(x.col) \in Types
    BY DEF Typed, TypeOf, Types
  <2> HIDE DEF val
  <2>2. val.type \in Types /\ val = expr_to_value(x.lit)
    BY <1>2, <2>1 DEF val
  <2> QED
    BY <1>2, <1>3, <2>2, LiteralIs
<1>5. n = Simple(x.col, x.op, val)
  BY <1>2 DEF ConvertNode
<1>6. n.is = "simple" /\ n.col = x.col /\ n.op = x.op /\ n.value = val
  BY <1>5 DEF Simple
<1>7. i = IF x.col = "id" THEN 1 ELSE 2
  BY <1>1, PositionIs
<1>8. /\ w \in Condition /\ convert_expr_to_where(w) = <<n>> /\ Last(<<n>>) = n /\ <<n>> # <<>>
  <2> HIDE DEF n
  <2>1. <<n>> # <<>>
    OBVIOUS
  <2> QED
    BY <1>1, <2>1, LeafCondition DEF n
<1>9. rs = f.rows
  <2>1. Where(x) = execute_select(AllWhere(w))
    BY DEF Where, AllWhere
  <2> QED
    BY <1>8, <2>1, AllRuns
<1>10. ASSUME NEW r \in rows, has(r)
       PROVE  /\ r[i] \in Of(t) /\ r[i].type = t
              /\ Means(x, r[i]) <=> compare_values(r[i], val) \in Accepted(x.op)
              /\ x.op = "=" => (Means(x, r[i]) <=> r[i] = val)
  <2>1. r[i] \in Of(t)
    <3>1. CASE x.col = "id"
      <4>1. i = 1 /\ t = "Integer"
        BY <1>2, <1>7, <3>1 DEF TypeOf
      <4> QED
        BY <4>1, RowIs
    <3>2. CASE x.col = "c"
      <4>1. i = 2 /\ t = coltype
        BY <1>2, <1>7, <3>2 DEF TypeOf
      <4>2. r[2] \in Cells /\ coltype \in Types
        BY RowIs DEF Typed
      <4> HIDE DEF i, t
      <4> QED
        BY <1>10, <4>1, <4>2, CellIs
    <3> QED
      BY <1>1, <3>1, <3>2
  <2> HIDE DEF val, i
  <2>2. r[i].type = t
    BY <2>1 DEF Of, Val
  <2>3. Means(x, r[i]) <=> IF t \in Numeric THEN Meant(x.op, Num(r[i]), Num(val))
                           ELSE (r[i] = val) = (x.op = "=")
    BY <2>2 DEF Means, val
  <2>4. /\ t \in Numeric => /\ compare_values(r[i], val) \in Accepted(x.op) <=> Meant(x.op, Num(r[i]), Num(val))
                            /\ Num(r[i]) = Num(val) <=> r[i] = val
        /\ t \notin Numeric /\ x.op = "=" => (compare_values(r[i], val) \in Accepted(x.op) <=> r[i] = val)
        /\ t \notin Numeric /\ x.op = "<>" => (compare_values(r[i], val) \in Accepted(x.op) <=> r[i] # val)
    BY <1>3, <1>4, <2>1, ComparesAsMeant
  <2>5. CASE t \in Numeric
    <3>1. x.op = "=" => (Meant(x.op, Num(r[i]), Num(val)) <=> Num(r[i]) = Num(val))
      BY DEF Meant
    <3> QED
      BY <2>1, <2>2, <2>3, <2>4, <2>5, <3>1
  <2>6. CASE t \notin Numeric
    <3>1. x.op \in {"=", "<>"}
      BY <1>2, <2>6
    <3>2. CASE x.op = "="
      BY <2>1, <2>2, <2>3, <2>4, <2>6, <3>2
    <3>3. CASE x.op = "<>"
      BY <2>1, <2>2, <2>3, <2>4, <2>6, <3>3
    <3> QED
      BY <3>1, <3>2, <3>3
  <2> QED
    BY <2>5, <2>6
<1>11. /\ Rowed(rs)
       /\ \A r \in rows : has(r) => \/ r \in found <=> compare_values(r[i], val) \in Accepted(x.op)
                                    \/ x.op = "=" /\ (r \in found <=> r[i] = val)
  <2>1. CASE n.op = "=" /\ n.col = "id"
    <3> DEFINE node == [node |-> "PointLookup", key |-> val]  g == ByKey(get_row(val))
    <3>1. Source(<<n>>) = <<node>>
      <4>1. IsEquals(Last(<<n>>), "id") /\ Last(<<n>>).value = val
        BY <1>6, <1>8, <2>1 DEF IsEquals
      <4> HIDE DEF n, val
      <4> QED
        BY <1>8, <4>1 DEF Source
    <3>2. NodeResult(node, <<>>) = Rows(g) /\ Rows(g).rows = g
      BY NodesAre, EndsAre
    <3> HIDE DEF node, n, rs, f, w
    <3>3. f = Rows(g)
      BY <1>8, <3>1, <3>2, ShortPlans DEF f
    <3>4. rs = g
      BY <1>9, <3>2, <3>3
    <3>5. Rowed(g) /\ {g[k] : k \in 1..Len(g)} = get_row(val)
      BY EngineFinds
    <3>6. val \in Of("Integer")
      BY <1>2, <1>4, <1>6, <2>1 DEF TypeOf
    <3>7. ASSUME NEW r \in rows PROVE r \in get_row(val) <=> r[1] = val
      <4>1. r \in get_row(val) <=> serialize_value(r[1]) = serialize_value(val)
        BY DEF get_row
      <4>2. r[1] \in Of("Integer")
        BY RowIs
      <4> HIDE DEF val
      <4> QED
        BY <3>6, <4>1, <4>2, KeysIdentify
    <3>8. i = 1 /\ x.op = "="
      BY <1>6, <1>7, <2>1
    <3> HIDE DEF val, i, g
    <3> QED
      BY <3>4, <3>5, <3>7, <3>8 DEF found
  <2>2. CASE n.op = "=" /\ n.col = "c" /\ indexed
    <3> DEFINE node == [node |-> "IndexScan", key |-> val]  g == index_scan(val)
    <3>1. Source(<<n>>) = <<node>>
      <4>1. IsEquals(Last(<<n>>), "c") /\ ~IsEquals(Last(<<n>>), "id") /\ Last(<<n>>).value = val
        BY <1>6, <1>8, <2>2 DEF IsEquals
      <4> HIDE DEF n, val
      <4> QED
        BY <1>8, <2>2, <4>1 DEF Source
    <3>2. NodeResult(node, <<>>) = Rows(g) /\ Rows(g).rows = g
      BY NodesAre, EndsAre
    <3> HIDE DEF node, n, rs, f, w
    <3>3. f = Rows(g)
      BY <1>8, <3>1, <3>2, ShortPlans DEF f
    <3>4. rs = g
      BY <1>9, <3>2, <3>3
    <3>5. Rowed(g) /\ {g[k] : k \in 1..Len(g)} = {r \in rows : Starts(serialize_value(val), Composite(r))}
      BY EngineFinds
    <3>6. t = coltype /\ coltype # "Text" /\ i = 2 /\ x.op = "="
      BY <1>2, <1>6, <1>7, <2>2 DEF TypeOf
    <3>7. ASSUME NEW r \in rows, has(r) PROVE Starts(serialize_value(val), Composite(r)) <=> r[i] = val
      <4>1. r[2] \in Of(t) /\ Composite(r) = serialize_value(r[2]) \o serialize_value(r[1]) /\ serialize_value(r[1]) \in Seq(Int)
        BY <1>10, <3>6, <3>7, EntryIs
      <4>2. t \in Types
        BY <1>4 DEF Types
      <4> HIDE DEF val, t, i
      <4>3. Starts(serialize_value(val), serialize_value(r[2]) \o serialize_value(r[1])) <=> val = r[2]
        BY <1>4, <3>6, <4>1, <4>2, IndexFindsValue
      <4> QED
        BY <3>6, <4>1, <4>3
    <3> HIDE DEF val, i, g
    <3> QED
      BY <3>4, <3>5, <3>6, <3>7 DEF found
  <2>3. CASE ~(n.op = "=" /\ n.col = "id") /\ ~(n.op = "=" /\ n.col = "c" /\ indexed)
    <3>1. Source(<<n>>) = <<[node |-> "SeqScan"], [node |-> "Filter", predicate |-> <<n>>]>>
      <4>1. ~IsEquals(Last(<<n>>), "id") /\ ~(indexed /\ IsEquals(Last(<<n>>), "c"))
        BY <1>8, <2>3 DEF IsEquals
      <4> HIDE DEF n
      <4> QED
        BY <1>8, <4>1 DEF Source
    <3>2. Rowed(rs) /\ found = {r \in rows : NodeHolds(n, r[i])}
      BY <1>1, <3>1, LeafFinds
    <3>3. ASSUME NEW v PROVE NodeHolds(n, v) <=> compare_values(v, val) \in Accepted(x.op)
      <4> HIDE DEF n
      <4> QED
        BY <1>6 DEF NodeHolds, Compares
    <3> HIDE DEF n, val, i, rs
    <3> QED
      BY <3>2, <3>3
  <2> QED
    BY <1>1, <1>6, <2>1, <2>2, <2>3
<1> HIDE DEF val, i, t, rs, n, w, f
<1>12. ASSUME NEW r \in rows, has(r) PROVE r \in found <=> Means(x, r[i])
  BY <1>10, <1>11, <1>12
<1>13. found \subseteq rows
  BY <1>11 DEF Rowed
<1> QED
  BY <1>11, <1>12, <1>13 DEF rs, i

(* PlanKeepsAnswer holds of every table.                                   *)
LEMMA PlansKeepAnswer ==
  ASSUME Typed
  PROVE  PlanKeepsAnswer
<1> SUFFICES ASSUME NEW x \in Wheres, Decided(x)
             PROVE  LET answer == Where(x).rows  has(r) == r[Position(x.col)] # Null IN
                    /\ {r \in ToSet(answer) : has(r)} = {r \in rows : has(r) /\ Means(x, r[Position(x.col)])}
                    /\ Cardinality(ToSet(answer)) = Len(answer)
  BY DEF PlanKeepsAnswer
<1> DEFINE rs == Where(x).rows
<1>1. /\ Rowed(rs)
      /\ {r \in {rs[n] : n \in 1..Len(rs)} : r[Position(x.col)] # Null}
           = {r \in rows : r[Position(x.col)] # Null /\ Means(x, r[Position(x.col)])}
  BY ComparisonFinds
<1> HIDE DEF rs
<1>2. ToSet(rs) = {rs[n] : n \in 1..Len(rs)}
  BY <1>1 DEF Rowed, ToSet
<1>3. Cardinality(ToSet(rs)) = Len(rs)
  BY <1>1, RowedCounts
<1> QED
  BY <1>1, <1>2, <1>3 DEF rs

-----------------------------------------------------------------------------
(* LIKE: what a pattern matches.                                           *)

(* The pattern from its i-th character on matches the text from its j-th.  *)
Piece(x, s, j, k) == IF x = Percent THEN k >= j ELSE k = j + 1 /\ x \in {Underscore, s[k - 1]}
CutsAs(cut, p, s, i, j) ==
  /\ DOMAIN cut = i - 1..Len(p) /\ cut[i - 1] = j - 1 /\ cut[Len(p)] = Len(s)
  /\ \A n \in i - 1..Len(p) : cut[n] \in 0..Len(s)
  /\ \A n \in i..Len(p) : Piece(p[n], s, cut[n - 1] + 1, cut[n] + 1)
Suits(p, s, i, j) == \E cut : CutsAs(cut, p, s, i, j)

(* From the first characters on: what Matches says.                        *)
LEMMA SuitsFirst ==
  ASSUME NEW p, NEW s, Len(p) \in Nat, Len(s) \in Nat
  PROVE  Matches(p, s) <=> Suits(p, s, 1, 1)
<1>1. ASSUME NEW cut, DOMAIN cut = 0..Len(p), \A n \in 0..Len(p) : cut[n] \in 0..Len(s)
      PROVE  (\A n \in 1..Len(p) : Piece(p[n], s, cut[n - 1] + 1, cut[n] + 1))
               <=> \A n \in 1..Len(p) : IF p[n] = Percent THEN cut[n] >= cut[n - 1]
                                        ELSE cut[n] = cut[n - 1] + 1 /\ p[n] \in {Underscore, s[cut[n]]}
  <2>1. ASSUME NEW n \in 1..Len(p)
        PROVE  Piece(p[n], s, cut[n - 1] + 1, cut[n] + 1)
                 <=> IF p[n] = Percent THEN cut[n] >= cut[n - 1]
                     ELSE cut[n] = cut[n - 1] + 1 /\ p[n] \in {Underscore, s[cut[n]]}
    <3> DEFINE a == cut[n]  b == cut[n - 1]
    <3>1. a \in Int /\ b \in Int
      BY <1>1
    <3> HIDE DEF a, b
    <3>2. a + 1 - 1 = a /\ (a + 1 >= b + 1 <=> a >= b) /\ (a + 1 = b + 1 + 1 <=> a = b + 1)
      BY <3>1
    <3>3. Piece(p[n], s, b + 1, a + 1)
            <=> IF p[n] = Percent THEN a >= b ELSE a = b + 1 /\ p[n] \in {Underscore, s[a]}
      <4>1. s[a + 1 - 1] = s[a]
        BY <3>2, Zenon
      <4>2. CASE p[n] = Percent
        BY <3>1, <3>2, <4>2 DEF Piece
      <4>3. CASE p[n] # Percent
        BY <3>1, <3>2, <4>1, <4>3 DEF Piece
      <4> QED
        BY <4>2, <4>3
    <3> QED
      BY <3>3 DEF a, b
  <2> QED
    BY <2>1
<1>2. ASSUME Matches(p, s) PROVE Suits(p, s, 1, 1)
  <2>1. PICK cut \in [0..Len(p) -> 0..Len(s)] :
          /\ cut[0] = 0 /\ cut[Len(p)] = Len(s)
          /\ \A i \in 1..Len(p) : IF p[i] = Percent THEN cut[i] >= cut[i - 1]
                                  ELSE cut[i] = cut[i - 1] + 1 /\ p[i] \in {Underscore, s[cut[i]]}
    BY <1>2 DEF Matches
  <2>2. DOMAIN cut = 0..Len(p) /\ \A n \in 0..Len(p) : cut[n] \in 0..Len(s)
    BY <2>1
  <2>3. \A n \in 1..Len(p) : Piece(p[n], s, cut[n - 1] + 1, cut[n] + 1)
    BY <1>1, <2>1, <2>2
  <2>4. CutsAs(cut, p, s, 1, 1)
    BY <2>1, <2>2, <2>3 DEF CutsAs
  <2> QED
    BY <2>4 DEF Suits
<1>3. ASSUME Suits(p, s, 1, 1) PROVE Matches(p, s)
  <2>1. PICK c : CutsAs(c, p, s, 1, 1)
    BY <1>3 DEF Suits
  <2> DEFINE cut == [n \in 0..Len(p) |-> c[n]]
  <2>2. cut \in [0..Len(p) -> 0..Len(s)] /\ DOMAIN cut = 0..Len(p) /\ \A n \in 0..Len(p) : cut[n] = c[n] /\ c[n] \in 0..Len(s)
    BY <2>1 DEF CutsAs
  <2>3. c[0] = 0 /\ c[Len(p)] = Len(s)
    BY <2>1 DEF CutsAs
  <2> HIDE DEF cut
  <2>4. \A n \in 1..Len(p) : Piece(p[n], s, cut[n - 1] + 1, cut[n] + 1)
    <3> SUFFICES ASSUME NEW n \in 1..Len(p) PROVE Piece(p[n], s, cut[n - 1] + 1, cut[n] + 1)
      OBVIOUS
    <3>1. cut[n] = c[n] /\ cut[n - 1] = c[n - 1]
      BY <2>2
    <3>2. Piece(p[n], s, c[n - 1] + 1, c[n] + 1)
      BY <2>1 DEF CutsAs
    <3> QED
      BY <3>1, <3>2
  <2>5. \A n \in 1..Len(p) : IF p[n] = Percent THEN cut[n] >= cut[n - 1]
                             ELSE cut[n] = cut[n - 1] + 1 /\ p[n] \in {Underscore, s[cut[n]]}
    BY <1>1, <2>2, <2>4
  <2>6. cut[0] = 0 /\ cut[Len(p)] = Len(s)
    BY <2>2, <2>3
  <2> QED
    BY <2>2, <2>5, <2>6 DEF Matches
<1> QED
  BY <1>2, <1>3

(* The end of the pattern matches the end of the text only.                *)
LEMMA SuitsEnd ==
  ASSUME NEW p, NEW s, Len(p) \in Nat, Len(s) \in Nat, NEW j \in 1..Len(s) + 1
  PROVE  Suits(p, s, Len(p) + 1, j) <=> j = Len(s) + 1
<1>1. ASSUME Suits(p, s, Len(p) + 1, j) PROVE j = Len(s) + 1
  <2>1. PICK cut : CutsAs(cut, p, s, Len(p) + 1, j)
    BY <1>1 DEF Suits
  <2>2. Len(p) + 1 - 1 = Len(p)
    OBVIOUS
  <2>3. cut[Len(p) + 1 - 1] = j - 1 /\ cut[Len(p)] = Len(s)
    BY <2>1 DEF CutsAs
  <2>4. cut[Len(p)] = j - 1
    BY <2>2, <2>3, Zenon
  <2> QED
    BY <2>3, <2>4
<1>2. ASSUME j = Len(s) + 1 PROVE Suits(p, s, Len(p) + 1, j)
  <2> DEFINE cut == [n \in Len(p) + 1 - 1..Len(p) |-> Len(s)]
  <2>1. CutsAs(cut, p, s, Len(p) + 1, j)
    BY <1>2 DEF CutsAs
  <2> QED
    BY <2>1 DEF Suits
<1> QED
  BY <1>1, <1>2

(* One character of the pattern more.                                      *)
LEMMA SuitsOn ==
  ASSUME NEW p, NEW s, Len(p) \in Nat, Len(s) \in Nat, NEW i \in 1..Len(p), NEW j \in 1..Len(s) + 1
  PROVE  Suits(p, s, i, j) <=> \E k \in 1..Len(s) + 1 : Suits(p, s, i + 1, k) /\ Piece(p[i], s, j, k)
<1>1. ASSUME Suits(p, s, i, j) PROVE \E k \in 1..Len(s) + 1 : Suits(p, s, i + 1, k) /\ Piece(p[i], s, j, k)
  <2>1. PICK c : CutsAs(c, p, s, i, j)
    BY <1>1 DEF Suits
  <2> DEFINE k == c[i] + 1  cut == [n \in i..Len(p) |-> c[n]]
  <2>2. c[i] \in 0..Len(s) /\ c[i - 1] = j - 1 /\ Piece(p[i], s, c[i - 1] + 1, c[i] + 1)
    BY <2>1 DEF CutsAs
  <2>3. k \in 1..Len(s) + 1 /\ Piece(p[i], s, j, k) /\ k - 1 = c[i] /\ i + 1 - 1 = i
    BY <2>2
  <2>4. DOMAIN cut = i..Len(p) /\ \A n \in i..Len(p) : cut[n] = c[n] /\ c[n] \in 0..Len(s)
    BY <2>1 DEF CutsAs
  <2>5. c[Len(p)] = Len(s)
    BY <2>1 DEF CutsAs
  <2> HIDE DEF cut, k
  <2>6. \A n \in i + 1..Len(p) : Piece(p[n], s, cut[n - 1] + 1, cut[n] + 1)
    <3> SUFFICES ASSUME NEW n \in i + 1..Len(p) PROVE Piece(p[n], s, cut[n - 1] + 1, cut[n] + 1)
      OBVIOUS
    <3>1. cut[n] = c[n] /\ cut[n - 1] = c[n - 1]
      BY <2>4
    <3>2. Piece(p[n], s, c[n - 1] + 1, c[n] + 1)
      BY <2>1 DEF CutsAs
    <3> QED
      BY <3>1, <3>2
  <2>7. CutsAs(cut, p, s, i + 1, k)
    BY <2>3, <2>4, <2>5, <2>6 DEF CutsAs
  <2> QED
    BY <2>3, <2>7 DEF Suits
<1>2. ASSUME NEW k \in 1..Len(s) + 1, Suits(p, s, i + 1, k), Piece(p[i], s, j, k) PROVE Suits(p, s, i, j)
  <2>1. PICK c : CutsAs(c, p, s, i + 1, k)
    BY <1>2 DEF Suits
  <2> DEFINE cut == [n \in i - 1..Len(p) |-> IF n = i - 1 THEN j - 1 ELSE c[n]]
  <2>2. /\ DOMAIN cut = i - 1..Len(p) /\ cut[i - 1] = j - 1 /\ \A n \in i..Len(p) : cut[n] = c[n]
        /\ cut[i - 1] \in 0..Len(s)
    OBVIOUS
  <2>3. i + 1 - 1 = i /\ c[i] = k - 1 /\ c[Len(p)] = Len(s) /\ \A n \in i..Len(p) : c[n] \in 0..Len(s)
    BY <2>1 DEF CutsAs
  <2> HIDE DEF cut
  <2>4. ASSUME NEW n \in i..Len(p) PROVE Piece(p[n], s, cut[n - 1] + 1, cut[n] + 1)
    <3>1. CASE n = i
      <4>1. cut[n - 1] + 1 = j /\ cut[n] + 1 = k
        BY <2>2, <2>3, <3>1
      <4> QED
        BY <1>2, <3>1, <4>1
    <3>2. CASE n # i
      <4>1. n \in i + 1..Len(p) /\ cut[n] = c[n] /\ cut[n - 1] = c[n - 1]
        BY <2>2, <3>2
      <4>2. Piece(p[n], s, c[n - 1] + 1, c[n] + 1)
        BY <2>1, <4>1 DEF CutsAs
      <4> QED
        BY <4>1, <4>2
    <3> QED
      BY <3>1, <3>2
  <2>5. \A n \in i - 1..Len(p) : cut[n] \in 0..Len(s)
    BY <2>2, <2>3
  <2>6. CutsAs(cut, p, s, i, j)
    BY <2>2, <2>3, <2>4, <2>5 DEF CutsAs
  <2> QED
    BY <2>6 DEF Suits
<1> QED
  BY <1>1, <1>2

(* Characters that stand for one character each.                           *)
LEMMA SuitsAlong ==
  ASSUME NEW p, NEW s, Len(p) \in Nat, Len(s) \in Nat, NEW i \in 1..Len(p) + 1, NEW j \in 1..Len(s) + 1,
         Suits(p, s, i, j), NEW m \in Nat, i + m <= Len(p) + 1, \A n \in i..i + m - 1 : p[n] # Percent
  PROVE  j + m <= Len(s) + 1 /\ Suits(p, s, i + m, j + m)
<1> DEFINE Q(k) == i + k <= Len(p) + 1 /\ (\A n \in i..i + k - 1 : p[n] # Percent)
                     => j + k <= Len(s) + 1 /\ Suits(p, s, i + k, j + k)
           P == {k \in Nat : Q(k)}
<1>1. 0 \in P
  <2>1. i + 0 = i /\ j + 0 = j
    OBVIOUS
  <2> QED
    BY <2>1
<1>2. ASSUME NEW k \in P PROVE k + 1 \in P
  <2> SUFFICES ASSUME i + (k + 1) <= Len(p) + 1, \A n \in i..i + (k + 1) - 1 : p[n] # Percent
               PROVE  j + (k + 1) <= Len(s) + 1 /\ Suits(p, s, i + (k + 1), j + (k + 1))
    OBVIOUS
  <2>1. i + k <= Len(p) + 1 /\ \A n \in i..i + k - 1 : p[n] # Percent
    OBVIOUS
  <2>2. j + k <= Len(s) + 1 /\ Suits(p, s, i + k, j + k)
    BY <2>1
  <2> DEFINE a == i + k  b == j + k
  <2>3. a \in 1..Len(p) /\ b \in 1..Len(s) + 1 /\ p[a] # Percent /\ i + (k + 1) = a + 1 /\ j + (k + 1) = b + 1
    BY <2>2
  <2> HIDE DEF a, b
  <2>4. Suits(p, s, a, b)
    BY <2>2 DEF a, b
  <2>5. PICK e \in 1..Len(s) + 1 : Suits(p, s, a + 1, e) /\ Piece(p[a], s, b, e)
    BY <2>3, <2>4, SuitsOn
  <2>6. e = b + 1
    BY <2>3, <2>5 DEF Piece
  <2>7. b + 1 <= Len(s) + 1 /\ Suits(p, s, a + 1, b + 1)
    BY <2>5, <2>6
  <2> QED
    BY <2>3, <2>7
<1>3. P = Nat
  <2> HIDE DEF Q
  <2> QED
    BY <1>1, <1>2, Induction
<1> QED
  BY <1>3

(* Only percent signs match the end of the text.                           *)
LEMMA SuitsNothing ==
  ASSUME NEW p, NEW s, Len(p) \in Nat, Len(s) \in Nat, NEW i \in 1..Len(p) + 1
  PROVE  Suits(p, s, i, Len(s) + 1) <=> \A n \in i..Len(p) : p[n] = Percent
<1> DEFINE end == Len(s) + 1
           Q(k) == \A x \in 1..Len(p) + 1 : x + k = Len(p) + 1 =>
                     (Suits(p, s, x, end) <=> \A n \in x..Len(p) : p[n] = Percent)
           P == {k \in Nat : Q(k)}
<1>0. end \in 1..Len(s) + 1
  OBVIOUS
<1>1. 0 \in P
  <2> SUFFICES ASSUME NEW x \in 1..Len(p) + 1, x + 0 = Len(p) + 1
               PROVE  Suits(p, s, x, end) <=> \A n \in x..Len(p) : p[n] = Percent
    OBVIOUS
  <2>1. x = Len(p) + 1
    OBVIOUS
  <2>2. Suits(p, s, x, end)
    BY <1>0, <2>1, SuitsEnd
  <2> QED
    BY <2>1, <2>2
<1>2. ASSUME NEW k \in P PROVE k + 1 \in P
  <2> SUFFICES ASSUME NEW x \in 1..Len(p) + 1, x + (k + 1) = Len(p) + 1
               PROVE  Suits(p, s, x, end) <=> \A n \in x..Len(p) : p[n] = Percent
    OBVIOUS
  <2>1. x \in 1..Len(p) /\ x + 1 \in 1..Len(p) + 1 /\ (x + 1) + k = Len(p) + 1
    OBVIOUS
  <2>2. Suits(p, s, x + 1, end) <=> \A n \in x + 1..Len(p) : p[n] = Percent
    BY <2>1
  <2>3. \A e \in 1..Len(s) + 1 : Piece(p[x], s, end, e) <=> p[x] = Percent /\ e = end
    BY DEF Piece
  <2>4. Suits(p, s, x, end) <=> \E e \in 1..Len(s) + 1 : Suits(p, s, x + 1, e) /\ Piece(p[x], s, end, e)
    <3> HIDE DEF end
    <3> QED
      BY <1>0, <2>1, SuitsOn
  <2>5. Suits(p, s, x, end) <=> p[x] = Percent /\ Suits(p, s, x + 1, end)
    <3> HIDE DEF end
    <3> QED
      BY <1>0, <2>3, <2>4
  <2>6. (\A n \in x..Len(p) : p[n] = Percent) <=> p[x] = Percent /\ \A n \in x + 1..Len(p) : p[n] = Percent
    BY <2>1
  <2> HIDE DEF end
  <2> QED
    BY <2>2, <2>5, <2>6
<1>3. P = Nat
  <2> HIDE DEF Q
  <2> QED
    BY <1>1, <1>2, Induction
<1>4. Len(p) + 1 - i \in Nat /\ i + (Len(p) + 1 - i) = Len(p) + 1
  OBVIOUS
<1> HIDE DEF end
<1>5. Suits(p, s, i, end) <=> \A n \in i..Len(p) : p[n] = Percent
  BY <1>3, <1>4
<1> QED
  BY <1>5 DEF end

-----------------------------------------------------------------------------
(* LIKE: the loop.                                                         *)

(* The loop of like_match, and what ends it.                               *)
Goes(l, p, s) == ~LoopEnds(l, p, s) /\ ~GivesUp(l, p, s)
Left(l, p, s) == (Len(s) + 1 - l.mark) * (Len(p) + 2) + (Len(p) + 1 - l.pi)

(* The places the loop can be at.                                          *)
LEMMA LoopIs ==
  ASSUME NEW p, NEW s, Len(p) \in Nat, Len(s) \in Nat, NEW l \in Loop(p, s)
  PROVE  /\ l.pi \in 1..Len(p) + 1 /\ l.si \in 1..Len(s) + 1 /\ l.star \in 0..Len(p) /\ l.mark \in 0..Len(s) + 1
         /\ l.mark <= l.si
BY DEF Loop

(* What a turn of the loop does: go on, meet a %, or go back to the last   *)
(* one.                                                                    *)
LEMMA FurtherIs ==
  ASSUME NEW p, NEW s, Len(p) \in Nat, Len(s) \in Nat, NEW l \in Loop(p, s), Goes(l, p, s)
  PROVE  LET f == Further(l, p, s) IN
         /\ f \in Loop(p, s)
         /\ \/ Same(l, p, s) /\ l.pi <= Len(p) /\ f.pi = l.pi + 1 /\ f.si = l.si + 1 /\ f.star = l.star /\ f.mark = l.mark
            \/ ~Same(l, p, s) /\ AtPercent(l, p) /\ f.pi = l.pi + 1 /\ f.si = l.si /\ f.star = l.pi /\ f.mark = l.si
            \/ ~Same(l, p, s) /\ ~AtPercent(l, p) /\ l.star # 0 /\ f.pi = l.star + 1 /\ f.si = l.mark + 1
               /\ f.star = l.star /\ f.mark = l.mark + 1
<1> DEFINE f == Further(l, p, s)  A == Len(p)  B == Len(s)
           R == [pi : 1..A + 1, si : 1..B + 1, star : 0..A, mark : 0..B + 1]
<1>0. l \in R /\ l.mark <= l.si /\ A \in Nat /\ B \in Nat /\ l.si <= B
  BY DEF Loop, Goes, LoopEnds
<1>1. CASE Same(l, p, s)
  <2>1. l.pi <= A /\ f = [l EXCEPT !.pi = l.pi + 1, !.si = l.si + 1]
    BY <1>1 DEF Same, Further
  <2> HIDE DEF f, A, B
  <2>3. f = [pi |-> l.pi + 1, si |-> l.si + 1, star |-> l.star, mark |-> l.mark]
    BY <1>0, <2>1
  <2>4. l.pi + 1 \in 1..A + 1 /\ l.si + 1 \in 1..B + 1 /\ l.star \in 0..A /\ l.mark \in 0..B + 1 /\ l.mark <= l.si + 1
    BY <1>0, <2>1
  <2>2. f \in R /\ f.mark <= f.si /\ f.pi = l.pi + 1 /\ f.si = l.si + 1 /\ f.star = l.star /\ f.mark = l.mark
    BY <2>3, <2>4
  <2> QED
    BY <1>1, <2>1, <2>2 DEF Loop, A, B, f
<1>2. CASE ~Same(l, p, s) /\ AtPercent(l, p)
  <2>1. l.pi <= A /\ f = [l EXCEPT !.pi = l.pi + 1, !.star = l.pi, !.mark = l.si]
    BY <1>2 DEF AtPercent, Further
  <2> HIDE DEF f, A, B
  <2>3. f = [pi |-> l.pi + 1, si |-> l.si, star |-> l.pi, mark |-> l.si]
    BY <1>0, <2>1
  <2>4. l.pi + 1 \in 1..A + 1 /\ l.si \in 1..B + 1 /\ l.pi \in 0..A /\ l.si \in 0..B + 1 /\ l.si <= l.si
    BY <1>0, <2>1
  <2>2. f \in R /\ f.mark <= f.si /\ f.pi = l.pi + 1 /\ f.si = l.si /\ f.star = l.pi /\ f.mark = l.si
    BY <2>3, <2>4
  <2> QED
    BY <1>2, <2>1, <2>2 DEF Loop, A, B, f
<1>3. CASE ~Same(l, p, s) /\ ~AtPercent(l, p)
  <2>1. l.star # 0 /\ f = [l EXCEPT !.pi = l.star + 1, !.si = l.mark + 1, !.mark = l.mark + 1]
    BY <1>3 DEF Goes, GivesUp, Further
  <2> HIDE DEF f, A, B
  <2>3. f = [pi |-> l.star + 1, si |-> l.mark + 1, star |-> l.star, mark |-> l.mark + 1]
    BY <1>0, <2>1
  <2>4. l.star + 1 \in 1..A + 1 /\ l.mark + 1 \in 1..B + 1 /\ l.star \in 0..A /\ l.mark + 1 \in 0..B + 1 /\ l.mark + 1 <= l.mark + 1
    BY <1>0, <2>1
  <2>2. f \in R /\ f.mark <= f.si /\ f.pi = l.star + 1 /\ f.si = l.mark + 1 /\ f.star = l.star /\ f.mark = l.mark + 1
    BY <2>3, <2>4
  <2> QED
    BY <1>3, <2>1, <2>2 DEF Loop, A, B, f
<1> QED
  BY <1>1, <1>2, <1>3

(* A product grows with its factor.                                        *)
LEMMA Product ==
  ASSUME NEW a \in Nat, NEW b \in Nat, NEW c \in Nat, b < a
  PROVE  b * c \in Nat /\ a * c \in Nat /\ b * c + c <= a * c
OBVIOUS

(* Every turn of the loop makes less of what is left.                      *)
LEMMA LoopFalls ==
  ASSUME NEW p, NEW s, Len(p) \in Nat, Len(s) \in Nat, NEW l \in Loop(p, s)
  PROVE  /\ Left(l, p, s) \in Nat /\ Left(l, p, s) < (Len(s) + 2) * (Len(p) + 2)
         /\ Goes(l, p, s) => Left(Further(l, p, s), p, s) < Left(l, p, s)
<1> DEFINE f == Further(l, p, s)  K == Len(p) + 2
           a == Len(s) + 1 - l.mark  c == Len(p) + 1 - l.pi  b == Len(s) + 1 - f.mark  d == Len(p) + 1 - f.pi
<1>1. /\ l.pi \in 1..Len(p) + 1 /\ l.si \in 1..Len(s) + 1 /\ l.star \in 0..Len(p) /\ l.mark \in 0..Len(s) + 1
      /\ l.mark <= l.si
  BY LoopIs
<1>2. a \in Nat /\ c \in Nat /\ K \in Nat /\ c < K /\ a < Len(s) + 2 /\ Len(s) + 2 \in Nat
  BY <1>1
<1>3. ASSUME Goes(l, p, s)
      PROVE  b \in Nat /\ d \in Nat /\ d < K /\ (b < a \/ (b = a /\ d < c))
  <2> HIDE DEF f
  <2>1. f \in Loop(p, s)
    BY <1>3, FurtherIs DEF f
  <2>2. \/ f.pi = l.pi + 1 /\ f.mark = l.mark
        \/ f.pi = l.pi + 1 /\ f.mark = l.si
        \/ f.pi = l.star + 1 /\ f.mark = l.mark + 1
    BY <1>3, FurtherIs DEF f
  <2>3. f.pi \in 1..Len(p) + 1 /\ f.mark \in 0..Len(s) + 1
    BY <2>1, LoopIs
  <2> DEFINE u == l.pi  v == l.mark  w == l.si  x == l.star  i == f.pi  j == f.mark  A == Len(p)  B == Len(s)
  <2>4. /\ u \in 1..A + 1 /\ w \in 1..B + 1 /\ x \in 0..A /\ v \in 0..B + 1 /\ v <= w /\ i \in 1..A + 1 /\ j \in 0..B + 1
        /\ \/ i = u + 1 /\ j = v
           \/ i = u + 1 /\ j = w
           \/ i = x + 1 /\ j = v + 1
        /\ A \in Nat /\ B \in Nat
    BY <1>1, <2>2, <2>3
  <2> HIDE DEF u, v, w, x, i, j, A, B
  <2>5. /\ B + 1 - j \in Nat /\ A + 1 - i \in Nat /\ A + 1 - i < A + 2
        /\ B + 1 - j < B + 1 - v \/ (B + 1 - j = B + 1 - v /\ A + 1 - i < A + 1 - u)
    BY <2>4
  <2> QED
    BY <2>5 DEF u, v, i, j, A, B
<1>4. Left(l, p, s) = a * K + c /\ Left(f, p, s) = b * K + d
  BY DEF Left
<1>5. a * K \in Nat /\ (Len(s) + 2) * K \in Nat /\ a * K + K <= (Len(s) + 2) * K
  <2> HIDE DEF a, K
  <2> QED
    BY <1>2, Product
<1>6. ASSUME Goes(l, p, s) PROVE b * K + d < a * K + c
  <2>1. b \in Nat /\ d \in Nat /\ d < K /\ (b < a \/ (b = a /\ d < c))
    BY <1>3, <1>6
  <2> HIDE DEF a, b, c, d, K
  <2>2. CASE b < a
    <3>1. b * K \in Nat /\ a * K \in Nat /\ b * K + K <= a * K
      BY <1>2, <2>1, <2>2, Product
    <3> DEFINE x == b * K  y == a * K
    <3> HIDE DEF x, y
    <3>2. x \in Nat /\ y \in Nat /\ x + K <= y
      BY <3>1 DEF x, y
    <3>3. x + d < y + c
      BY <1>2, <2>1, <3>2
    <3> QED
      BY <3>3 DEF x, y
  <2>3. CASE b = a /\ d < c
    <3> DEFINE y == a * K
    <3> HIDE DEF y
    <3>1. y \in Nat
      BY <1>5 DEF y
    <3>2. y + d < y + c
      BY <1>2, <2>1, <2>3, <3>1
    <3>3. b * K = y
      BY <2>3 DEF y
    <3> QED
      BY <3>2, <3>3 DEF y
  <2> QED
    BY <2>1, <2>2, <2>3
<1> DEFINE y == a * K  z == (Len(s) + 2) * K
<1>7. y \in Nat /\ z \in Nat /\ y + K <= z
  BY <1>5
<1> HIDE DEF y, z, a, c, K
<1>8. y + c \in Nat /\ y + c < z
  BY <1>2, <1>7
<1> QED
  BY <1>4, <1>6, <1>8 DEF y, z, K

(* like_match, as the loop computes it.                                    *)
LoopUpTo(g, p, s, m) ==
  g = [l \in Loop(p, s) |-> IF Left(l, p, s) < m
                            THEN IF LoopEnds(l, p, s) THEN \A i \in l.pi..Len(p) : p[i] = Percent
                                 ELSE IF GivesUp(l, p, s) THEN FALSE
                                 ELSE g[Further(l, p, s)]
                            ELSE FALSE]
LoopRun(g, p, s) ==
  g = [l \in Loop(p, s) |-> IF LoopEnds(l, p, s) THEN \A i \in l.pi..Len(p) : p[i] = Percent
                            ELSE IF GivesUp(l, p, s) THEN FALSE
                            ELSE g[Further(l, p, s)]]

(* The loop ends, however much is left.                                    *)
LEMMA LoopUpToExists ==
  ASSUME NEW p, NEW s, Len(p) \in Nat, Len(s) \in Nat, NEW n \in Nat
  PROVE  \E g : LoopUpTo(g, p, s, n)
<1> DEFINE P == {m \in Nat : \E g : LoopUpTo(g, p, s, m)}
           V(g, l) == IF LoopEnds(l, p, s) THEN \A i \in l.pi..Len(p) : p[i] = Percent
                      ELSE IF GivesUp(l, p, s) THEN FALSE
                      ELSE g[Further(l, p, s)]
<1>1. 0 \in P
  <2> DEFINE g == [l \in Loop(p, s) |-> FALSE]
  <2>1. \A l \in Loop(p, s) : ~(Left(l, p, s) < 0)
    BY LoopFalls
  <2>2. LoopUpTo(g, p, s, 0)
    BY <2>1, Zenon DEF LoopUpTo
  <2> QED
    BY <2>2
<1>2. ASSUME NEW m \in P PROVE m + 1 \in P
  <2>1. PICK g : LoopUpTo(g, p, s, m)
    OBVIOUS
  <2> DEFINE h == [l \in Loop(p, s) |-> IF Left(l, p, s) < m + 1 THEN V(g, l) ELSE FALSE]
  <2>2. \A l \in Loop(p, s) : g[l] = IF Left(l, p, s) < m THEN V(g, l) ELSE FALSE
    BY <2>1, Zenon DEF LoopUpTo
  <2>3. \A l \in Loop(p, s) : h[l] = IF Left(l, p, s) < m + 1 THEN V(g, l) ELSE FALSE
    BY Zenon
  <2> HIDE DEF h
  <2>4. ASSUME NEW l \in Loop(p, s), Left(l, p, s) < m + 1, Goes(l, p, s)
        PROVE  h[Further(l, p, s)] = g[Further(l, p, s)]
    <3> DEFINE f == Further(l, p, s)
    <3>1. f \in Loop(p, s) /\ Left(f, p, s) < Left(l, p, s)
      BY <2>4, FurtherIs, LoopFalls
    <3>2. Left(f, p, s) < m /\ Left(f, p, s) < m + 1
      <4>1. Left(f, p, s) \in Nat /\ Left(l, p, s) \in Nat /\ m \in Nat
        BY <3>1, LoopFalls
      <4> HIDE DEF f
      <4> QED
        BY <2>4, <3>1, <4>1
    <3> HIDE DEF f, V
    <3>3. h[f] = g[f]
      BY <2>2, <2>3, <3>1, <3>2, Zenon
    <3> QED
      BY <3>3 DEF f
  <2>5. ASSUME NEW l \in Loop(p, s), Left(l, p, s) < m + 1
        PROVE  V(g, l) = V(h, l)
    BY <2>4, <2>5, Zenon DEF Goes
  <2> HIDE DEF V
  <2>6. \A l \in Loop(p, s) : (IF Left(l, p, s) < m + 1 THEN V(g, l) ELSE FALSE) = (IF Left(l, p, s) < m + 1 THEN V(h, l) ELSE FALSE)
    BY <2>5, Zenon
  <2>7. h = [l \in Loop(p, s) |-> IF Left(l, p, s) < m + 1 THEN V(h, l) ELSE FALSE]
    BY <2>6, Zenon DEF h
  <2>8. LoopUpTo(h, p, s, m + 1)
    BY <2>7, Zenon DEF LoopUpTo, V
  <2> QED
    BY <2>8
<1>3. P = Nat
  <2> HIDE DEF V
  <2> QED
    BY <1>1, <1>2, Induction
<1> QED
  BY <1>3

(* like_match is what the loop says from the first characters on.          *)
LEMMA LoopRuns ==
  ASSUME NEW p, NEW s, Len(p) \in Nat, Len(s) \in Nat
  PROVE  \E g : LoopRun(g, p, s) /\ like_match(p, s) = g[[pi |-> 1, si |-> 1, star |-> 0, mark |-> 0]]
<1> DEFINE m == (Len(s) + 2) * (Len(p) + 2)  start == [pi |-> 1, si |-> 1, star |-> 0, mark |-> 0]
<1>1. m \in Nat
  <2>1. Len(s) + 2 \in Nat /\ Len(p) + 2 \in Nat /\ 0 < Len(s) + 2 /\ 0 \in Nat
    OBVIOUS
  <2> QED
    BY <2>1, Product
<1>2. \A l \in Loop(p, s) : Left(l, p, s) < m
  BY LoopFalls
<1> HIDE DEF m
<1>3. PICK g : LoopUpTo(g, p, s, m)
  BY <1>1, LoopUpToExists
<1>4. LoopRun(g, p, s)
  <2>1. \A l \in Loop(p, s) : (Left(l, p, s) < m) = TRUE
    BY <1>2
  <2> QED
    BY <1>3, <1>2, Zenon DEF LoopUpTo, LoopRun
<1> DEFINE h == CHOOSE x : LoopRun(x, p, s)
<1>5. LoopRun(h, p, s)
  BY <1>4, Zenon
<1>6. like_match(p, s) = h[start]
  BY DEF like_match, LoopRun
<1> HIDE DEF h
<1> QED
  BY <1>5, <1>6

-----------------------------------------------------------------------------
(* LIKE: the loop finds what the pattern matches.                          *)

(* Where the loop is: after its last %, it has matched the characters of   *)
(* the pattern one for one with those of the text.                         *)
OnTrack(l, p) ==
  l.star # 0 => /\ p[l.star] = Percent /\ l.star < l.pi /\ l.mark >= 1
                /\ l.si - l.mark = l.pi - l.star - 1
                /\ \A n \in l.star + 1..l.pi - 1 : p[n] # Percent
(* What is left to match, here or with the last % taking more.             *)
Open(l, p, s) ==
  \/ Suits(p, s, l.pi, l.si)
  \/ l.star # 0 /\ \E k \in 1..Len(s) + 1 : k > l.mark /\ Suits(p, s, l.star + 1, k)

(* What the last % may match by taking more, the rest of the pattern       *)
(* matches later in the text.                                              *)
LEMMA Along ==
  ASSUME NEW p, NEW s, Len(p) \in Nat, Len(s) \in Nat, NEW l \in Loop(p, s), OnTrack(l, p), l.star # 0,
         NEW k \in 1..Len(s) + 1, k > l.mark, Suits(p, s, l.star + 1, k)
  PROVE  \E j \in 1..Len(s) + 1 : j > l.si /\ Suits(p, s, l.pi, j)
<1>1. /\ l.pi \in 1..Len(p) + 1 /\ l.si \in 1..Len(s) + 1 /\ l.star \in 0..Len(p) /\ l.mark \in 0..Len(s) + 1
      /\ l.mark <= l.si
  BY LoopIs
<1> DEFINE i == l.star + 1  m == l.pi - l.star - 1
<1>2. /\ i \in 1..Len(p) + 1 /\ m \in Nat /\ i + m = l.pi /\ i + m <= Len(p) + 1 /\ i + m - 1 = l.pi - 1
      /\ l.si = l.mark + m
  <2>1. l.star < l.pi /\ l.si - l.mark = l.pi - l.star - 1
    BY DEF OnTrack
  <2> DEFINE x == l.star  y == l.pi  u == l.si  v == l.mark
  <2>2. x \in Nat /\ y \in 1..Len(p) + 1 /\ u \in Nat /\ v \in Nat /\ x < y /\ u - v = y - x - 1
    BY <1>1, <2>1
  <2> HIDE DEF x, y, u, v
  <2>3. /\ x + 1 \in 1..Len(p) + 1 /\ y - x - 1 \in Nat /\ x + 1 + (y - x - 1) = y /\ x + 1 + (y - x - 1) <= Len(p) + 1
        /\ x + 1 + (y - x - 1) - 1 = y - 1 /\ u = v + (y - x - 1)
    BY <2>2
  <2> QED
    BY <2>3 DEF x, y, u, v
<1>3. \A n \in i..l.pi - 1 : p[n] # Percent
  BY DEF OnTrack
<1>4. Suits(p, s, i, k)
  OBVIOUS
<1> HIDE DEF i, m
<1>5. \A n \in i..i + m - 1 : p[n] # Percent
  BY <1>2, <1>3
<1>6. k + m <= Len(s) + 1 /\ Suits(p, s, i + m, k + m)
  BY <1>2, <1>4, <1>5, SuitsAlong
<1>7. k + m \in 1..Len(s) + 1 /\ k + m > l.si
  BY <1>1, <1>2, <1>6
<1>8. Suits(p, s, l.pi, k + m)
  BY <1>2, <1>6, Zenon
<1> QED
  BY <1>7, <1>8

(* A turn of the loop keeps it on track.                                   *)
LEMMA StaysOnTrack ==
  ASSUME NEW p, NEW s, Len(p) \in Nat, Len(s) \in Nat, \A n \in 1..Len(s) : s[n] # Percent,
         NEW l \in Loop(p, s), OnTrack(l, p), Goes(l, p, s)
  PROVE  OnTrack(Further(l, p, s), p)
<1> DEFINE f == Further(l, p, s)
<1>1. /\ l.pi \in 1..Len(p) + 1 /\ l.si \in 1..Len(s) /\ l.star \in 0..Len(p) /\ l.mark \in 0..Len(s) + 1
      /\ l.mark <= l.si
  BY LoopIs DEF Goes, LoopEnds
<1> HIDE DEF f
<1>2. CASE Same(l, p, s)
  <2>1. l.pi <= Len(p) /\ f.pi = l.pi + 1 /\ f.si = l.si + 1 /\ f.star = l.star /\ f.mark = l.mark
    BY <1>2, FurtherIs DEF f
  <2>2. p[l.pi] # Percent
    BY <1>1, <1>2, LikeAssumption DEF Same
  <2> SUFFICES ASSUME f.star # 0
               PROVE  /\ p[f.star] = Percent /\ f.star < f.pi /\ f.mark >= 1 /\ f.si - f.mark = f.pi - f.star - 1
                      /\ \A n \in f.star + 1..f.pi - 1 : p[n] # Percent
    BY DEF OnTrack, f
  <2>3. /\ p[l.star] = Percent /\ l.star < l.pi /\ l.mark >= 1 /\ l.si - l.mark = l.pi - l.star - 1
        /\ \A n \in l.star + 1..l.pi - 1 : p[n] # Percent
    BY <2>1 DEF OnTrack
  <2>4. ASSUME NEW n \in f.star + 1..f.pi - 1 PROVE p[n] # Percent
    <3>1. n \in l.star + 1..l.pi - 1 \/ n = l.pi
      BY <1>1, <2>1
    <3> QED
      BY <2>2, <2>3, <3>1
  <2>5. f.star < f.pi /\ f.si - f.mark = f.pi - f.star - 1
    <3> DEFINE x == l.star  y == l.pi  u == l.si  v == l.mark
    <3>1. x \in Nat /\ y \in Nat /\ u \in Nat /\ v \in Nat /\ x < y /\ u - v = y - x - 1
      BY <1>1, <2>3
    <3>2. f.star = x /\ f.pi = y + 1 /\ f.si = u + 1 /\ f.mark = v
      BY <2>1
    <3> HIDE DEF x, y, u, v
    <3>3. x < y + 1 /\ (u + 1) - v = (y + 1) - x - 1
      BY <3>1
    <3> QED
      BY <3>2, <3>3
  <2> QED
    BY <2>1, <2>3, <2>4, <2>5
<1>3. CASE ~Same(l, p, s) /\ AtPercent(l, p)
  <2>1. f.pi = l.pi + 1 /\ f.si = l.si /\ f.star = l.pi /\ f.mark = l.si
    BY <1>3, FurtherIs DEF f
  <2>2. p[l.pi] = Percent
    BY <1>3 DEF AtPercent
  <2>3. \A n : n \notin f.star + 1..f.pi - 1
    BY <1>1, <2>1
  <2>4. f.star < f.pi /\ f.mark >= 1 /\ f.si - f.mark = f.pi - f.star - 1
    BY <1>1, <2>1
  <2>5. OnTrack(f, p)
    BY <2>1, <2>2, <2>3, <2>4 DEF OnTrack
  <2> QED
    BY <2>5 DEF f
<1>4. CASE ~Same(l, p, s) /\ ~AtPercent(l, p)
  <2>1. f.pi = l.star + 1 /\ f.si = l.mark + 1 /\ f.star = l.star /\ f.mark = l.mark + 1 /\ l.star # 0
    BY <1>4, FurtherIs DEF f
  <2>2. p[l.star] = Percent
    BY <2>1 DEF OnTrack
  <2>3. \A n : n \notin f.star + 1..f.pi - 1
    BY <1>1, <2>1
  <2>4. f.star < f.pi /\ f.mark >= 1 /\ f.si - f.mark = f.pi - f.star - 1
    BY <1>1, <2>1
  <2>5. OnTrack(f, p)
    BY <2>1, <2>2, <2>3, <2>4 DEF OnTrack
  <2> QED
    BY <2>5 DEF f
<1> QED
  BY <1>2, <1>3, <1>4

(* A step of the loop loses no match and finds none too many.              *)
LEMMA StaysOpen ==
  ASSUME NEW p, NEW s, Len(p) \in Nat, Len(s) \in Nat, \A n \in 1..Len(s) : s[n] # Percent,
         NEW l \in Loop(p, s), OnTrack(l, p), Goes(l, p, s)
  PROVE  Open(l, p, s) <=> Open(Further(l, p, s), p, s)
<1> DEFINE f == Further(l, p, s)  E == 1..Len(s) + 1
<1>1. /\ l.pi \in 1..Len(p) + 1 /\ l.si \in 1..Len(s) /\ l.star \in 0..Len(p) /\ l.mark \in 0..Len(s) + 1
      /\ l.mark <= l.si /\ l.si \in E
  BY LoopIs DEF Goes, LoopEnds
<1>2. l.pi \in 1..Len(p) => (Suits(p, s, l.pi, l.si) <=> \E k \in E : Suits(p, s, l.pi + 1, k) /\ Piece(p[l.pi], s, l.si, k))
  BY <1>1, SuitsOn
<1> HIDE DEF f
<1>3. CASE Same(l, p, s)
  <2>1. l.pi \in 1..Len(p) /\ f.pi = l.pi + 1 /\ f.si = l.si + 1 /\ f.star = l.star /\ f.mark = l.mark
    BY <1>1, <1>3, FurtherIs DEF f
  <2>2. p[l.pi] # Percent /\ p[l.pi] \in {Underscore, s[l.si]}
    BY <1>1, <1>3, LikeAssumption DEF Same
  <2>3. \A k \in E : Piece(p[l.pi], s, l.si, k) <=> k = l.si + 1
    <3> SUFFICES ASSUME NEW k \in E PROVE Piece(p[l.pi], s, l.si, k) <=> k = l.si + 1
      OBVIOUS
    <3>1. k = l.si + 1 => k - 1 = l.si
      BY <1>1
    <3> QED
      BY <2>2, <3>1 DEF Piece
  <2>4. l.si + 1 \in E
    BY <1>1
  <2>5. Suits(p, s, l.pi, l.si) <=> Suits(p, s, l.pi + 1, l.si + 1)
    BY <1>2, <2>1, <2>3, <2>4
  <2>6. Open(l, p, s) <=> Open(f, p, s)
    BY <2>1, <2>5 DEF Open
  <2> QED
    BY <2>6 DEF f
<1>4. CASE ~Same(l, p, s) /\ AtPercent(l, p)
  <2>1. f.pi = l.pi + 1 /\ f.si = l.si /\ f.star = l.pi /\ f.mark = l.si
    BY <1>4, FurtherIs DEF f
  <2>2. l.pi \in 1..Len(p) /\ p[l.pi] = Percent
    BY <1>1, <1>4 DEF AtPercent
  <2>3. Suits(p, s, l.pi, l.si) <=> \E k \in E : Suits(p, s, l.pi + 1, k) /\ k >= l.si
    BY <1>2, <2>2 DEF Piece
  <2>4. ASSUME Open(l, p, s) PROVE Suits(p, s, l.pi, l.si)
    <3> SUFFICES ASSUME l.star # 0, NEW k \in E, k > l.mark, Suits(p, s, l.star + 1, k)
                 PROVE  Suits(p, s, l.pi, l.si)
      BY <2>4 DEF Open
    <3>1. PICK j \in E : j > l.si /\ Suits(p, s, l.pi, j)
      BY Along
    <3>2. PICK e \in E : Suits(p, s, l.pi + 1, e) /\ Piece(p[l.pi], s, j, e)
      BY <2>2, <3>1, SuitsOn
    <3>3. e >= l.si
      BY <1>1, <2>2, <3>1, <3>2 DEF Piece
    <3> QED
      BY <2>3, <3>2, <3>3
  <2>5. Open(f, p, s) <=> Suits(p, s, l.pi + 1, l.si) \/ \E k \in E : k > l.si /\ Suits(p, s, l.pi + 1, k)
    BY <1>1, <2>1, <2>2 DEF Open
  <2>6. \A k \in E : k >= l.si <=> k > l.si \/ k = l.si
    BY <1>1
  <2>7. Open(f, p, s) <=> \E k \in E : Suits(p, s, l.pi + 1, k) /\ k >= l.si
    <3> HIDE DEF E
    <3> QED
      BY <1>1, <2>5, <2>6
  <2>8. Suits(p, s, l.pi, l.si) => Open(l, p, s)
    BY DEF Open
  <2>9. Open(l, p, s) <=> Open(f, p, s)
    BY <2>3, <2>4, <2>7, <2>8
  <2> QED
    BY <2>9 DEF f
<1>5. CASE ~Same(l, p, s) /\ ~AtPercent(l, p)
  <2>1. f.pi = l.star + 1 /\ f.si = l.mark + 1 /\ f.star = l.star /\ f.mark = l.mark + 1 /\ l.star # 0
    BY <1>5, FurtherIs DEF f
  <2>2. ~Suits(p, s, l.pi, l.si)
    <3>1. CASE l.pi = Len(p) + 1
      <4>1. l.si # Len(s) + 1
        BY <1>1
      <4> QED
        BY <1>1, <3>1, <4>1, SuitsEnd
    <3>2. CASE l.pi \in 1..Len(p)
      <4>1. p[l.pi] # Percent /\ p[l.pi] # Underscore /\ p[l.pi] # s[l.si]
        BY <1>1, <1>5, <3>2 DEF Same, AtPercent
      <4>2. \A k \in E : ~Piece(p[l.pi], s, l.si, k)
        <5> SUFFICES ASSUME NEW k \in E, k = l.si + 1 PROVE p[l.pi] \notin {Underscore, s[k - 1]}
          BY <4>1 DEF Piece
        <5>1. k - 1 = l.si
          BY <1>1
        <5> QED
          BY <4>1, <5>1
      <4> QED
        BY <1>2, <3>2, <4>2
    <3> QED
      BY <1>1, <3>1, <3>2
  <2>3. \A k \in E : k > l.mark <=> k = l.mark + 1 \/ k > l.mark + 1
    BY <1>1
  <2>4. l.mark + 1 \in E
    BY <1>1
  <2> HIDE DEF E
  <2>5. Open(l, p, s) <=> \E k \in E : k > l.mark /\ Suits(p, s, l.star + 1, k)
    BY <2>1, <2>2 DEF Open, E
  <2>6. Open(f, p, s) <=> Suits(p, s, l.star + 1, l.mark + 1) \/ \E k \in E : k > l.mark + 1 /\ Suits(p, s, l.star + 1, k)
    BY <2>1 DEF Open, E
  <2>7. Open(l, p, s) <=> Open(f, p, s)
    BY <2>3, <2>4, <2>5, <2>6
  <2> QED
    BY <2>7 DEF f
<1> QED
  BY <1>3, <1>4, <1>5

(* Where the loop ends, it says whether something is left to match.        *)
LEMMA EndsOpen ==
  ASSUME NEW p, NEW s, Len(p) \in Nat, Len(s) \in Nat, NEW l \in Loop(p, s), OnTrack(l, p)
  PROVE  /\ LoopEnds(l, p, s) => (Open(l, p, s) <=> \A i \in l.pi..Len(p) : p[i] = Percent)
         /\ ~LoopEnds(l, p, s) /\ GivesUp(l, p, s) => ~Open(l, p, s)
<1>1. /\ l.pi \in 1..Len(p) + 1 /\ l.si \in 1..Len(s) + 1 /\ l.star \in 0..Len(p) /\ l.mark \in 0..Len(s) + 1
      /\ l.mark <= l.si
  BY LoopIs
<1>2. ASSUME LoopEnds(l, p, s) PROVE Open(l, p, s) <=> \A i \in l.pi..Len(p) : p[i] = Percent
  <2>1. l.si = Len(s) + 1
    BY <1>1, <1>2 DEF LoopEnds
  <2>2. Suits(p, s, l.pi, l.si) <=> \A i \in l.pi..Len(p) : p[i] = Percent
    BY <1>1, <2>1, SuitsNothing
  <2>3. ~(l.star # 0 /\ \E k \in 1..Len(s) + 1 : k > l.mark /\ Suits(p, s, l.star + 1, k))
    <3> SUFFICES ASSUME l.star # 0, NEW k \in 1..Len(s) + 1, k > l.mark, Suits(p, s, l.star + 1, k) PROVE FALSE
      OBVIOUS
    <3>1. PICK j \in 1..Len(s) + 1 : j > l.si
      BY Along
    <3> QED
      BY <2>1, <3>1
  <2> QED
    BY <2>2, <2>3 DEF Open
<1>3. ASSUME ~LoopEnds(l, p, s), GivesUp(l, p, s) PROVE ~Open(l, p, s)
  <2>1. l.star = 0 /\ l.si \in 1..Len(s)
    BY <1>1, <1>3 DEF GivesUp, LoopEnds
  <2>2. ~Suits(p, s, l.pi, l.si)
    <3>1. CASE l.pi = Len(p) + 1
      <4>1. l.si # Len(s) + 1
        BY <2>1
      <4> QED
        BY <1>1, <3>1, <4>1, SuitsEnd
    <3>2. CASE l.pi \in 1..Len(p)
      <4>1. p[l.pi] # Percent /\ p[l.pi] # Underscore /\ p[l.pi] # s[l.si]
        BY <1>1, <1>3, <3>2 DEF Same, AtPercent, GivesUp
      <4>2. \A k \in 1..Len(s) + 1 : ~Piece(p[l.pi], s, l.si, k)
        <5> SUFFICES ASSUME NEW k \in 1..Len(s) + 1, k = l.si + 1 PROVE p[l.pi] \notin {Underscore, s[k - 1]}
          BY <4>1 DEF Piece
        <5>1. k - 1 = l.si
          BY <1>1
        <5> QED
          BY <4>1, <5>1
      <4> QED
        BY <1>1, <3>2, <4>2, SuitsOn
    <3> QED
      BY <1>1, <3>1, <3>2
  <2> QED
    BY <2>1, <2>2 DEF Open
<1> QED
  BY <1>2, <1>3

(* The loop says whether something is left to match.                       *)
LEMMA LoopFinds ==
  ASSUME NEW p, NEW s, Len(p) \in Nat, Len(s) \in Nat, \A n \in 1..Len(s) : s[n] # Percent,
         NEW g, LoopRun(g, p, s), NEW l \in Loop(p, s), OnTrack(l, p)
  PROVE  g[l] <=> Open(l, p, s)
<1> DEFINE Q(x) == OnTrack(x, p) => (g[x] <=> Open(x, p, s))
           P == {m \in Nat : \A x \in Loop(p, s) : Left(x, p, s) < m => Q(x)}
<1>1. 0 \in P
  BY LoopFalls
<1>2. ASSUME NEW m \in P PROVE m + 1 \in P
  <2> SUFFICES ASSUME NEW x \in Loop(p, s), Left(x, p, s) < m + 1, OnTrack(x, p)
               PROVE  g[x] <=> Open(x, p, s)
    OBVIOUS
  <2>1. g[x] = IF LoopEnds(x, p, s) THEN \A i \in x.pi..Len(p) : p[i] = Percent
               ELSE IF GivesUp(x, p, s) THEN FALSE
               ELSE g[Further(x, p, s)]
    BY Zenon DEF LoopRun
  <2>2. CASE LoopEnds(x, p, s)
    <3>1. Open(x, p, s) <=> \A i \in x.pi..Len(p) : p[i] = Percent
      BY <2>2, EndsOpen
    <3> QED
      BY <2>1, <2>2, <3>1, Zenon
  <2>3. CASE ~LoopEnds(x, p, s) /\ GivesUp(x, p, s)
    <3>1. ~Open(x, p, s)
      BY <2>3, EndsOpen
    <3> QED
      BY <2>1, <2>3, <3>1, Zenon
  <2>4. CASE Goes(x, p, s)
    <3> DEFINE f == Further(x, p, s)
    <3>1. f \in Loop(p, s) /\ Left(f, p, s) < Left(x, p, s) /\ OnTrack(f, p)
      BY <2>4, FurtherIs, LoopFalls, StaysOnTrack
    <3>2. Left(f, p, s) < m
      <4>1. Left(f, p, s) \in Nat /\ Left(x, p, s) \in Nat /\ m \in Nat
        BY <3>1, LoopFalls
      <4> HIDE DEF f
      <4> QED
        BY <3>1, <4>1
    <3>3. g[f] <=> Open(f, p, s)
      <4> HIDE DEF f
      <4> QED
        BY <3>1, <3>2
    <3>4. Open(x, p, s) <=> Open(f, p, s)
      BY <2>4, StaysOpen
    <3> QED
      BY <2>1, <2>4, <3>3, <3>4, Zenon DEF Goes
  <2> QED
    BY <2>2, <2>3, <2>4 DEF Goes
<1>3. P = Nat
  <2> HIDE DEF Q
  <2> QED
    BY <1>1, <1>2, Induction
<1>4. Left(l, p, s) + 1 \in P /\ Left(l, p, s) < Left(l, p, s) + 1
  BY <1>3, LoopFalls
<1> QED
  BY <1>4

(* like_match is Matches, for texts without a percent sign.                *)
LEMMA LikeIsMatching ==
  ASSUME NEW p, NEW s, Len(p) \in Nat, Len(s) \in Nat, \A n \in 1..Len(s) : s[n] # Percent
  PROVE  like_match(p, s) <=> Matches(p, s)
<1> DEFINE start == [pi |-> 1, si |-> 1, star |-> 0, mark |-> 0]
<1>1. start \in Loop(p, s)
  BY DEF Loop
<1>2. OnTrack(start, p) /\ (Open(start, p, s) <=> Suits(p, s, 1, 1))
  BY DEF OnTrack, Open
<1>3. PICK g : LoopRun(g, p, s) /\ like_match(p, s) = g[start]
  BY LoopRuns
<1> HIDE DEF start
<1>4. g[start] <=> Open(start, p, s)
  BY <1>1, <1>2, <1>3, LoopFinds
<1>5. Matches(p, s) <=> Suits(p, s, 1, 1)
  BY SuitsFirst
<1> QED
  BY <1>2, <1>3, <1>4, <1>5, Zenon

(* LikeFinds holds of every table.                                         *)
LEMMA LikesFind ==
  ASSUME Typed
  PROVE  LikeFinds
<1> SUFFICES ASSUME NEW r \in rows, NEW p \in Patterns, r[2].type = "Text", Percent \notin ToSet(r[2].data)
             PROVE  like_match(p, r[2].data) <=> Matches(p, r[2].data)
  BY DEF LikeFinds
<1>1. r[2].data \in Seq(Int)
  BY RowIs, CellIs DEF Typed
<1>2. Len(p) \in Nat
  <2>1. PICK n \in 0..MaxPattern : p \in [1..n -> {Percent, Underscore} \cup DOMAIN Lower]
    BY DEF Patterns
  <2>2. p \in Seq({Percent, Underscore} \cup DOMAIN Lower)
    BY <2>1, LikeAssumption
  <2> QED
    BY <2>2
<1>3. \A n \in 1..Len(r[2].data) : r[2].data[n] # Percent
  BY <1>1 DEF ToSet
<1>4. Len(r[2].data) \in Nat
  BY <1>1
<1> QED
  BY <1>2, <1>3, <1>4, LikeIsMatching

-----------------------------------------------------------------------------
(* Groups: values of one type, their least, their greatest and their sum.  *)

(* The sign of a number, kept from being worked out.                       *)
Neg(n) == -n

LEMMA Minus == \A n \in Int : Neg(n) = 0 - n
BY DEF Neg

(* Values of one type compare without a contradiction.                     *)
LEMMA OneTypeCompares ==
  ASSUME NEW t \in Types, NEW a \in Of(t), NEW b \in Of(t), NEW c \in Of(t)
  PROVE  /\ compare_values(a, b) \in {-1, 0, 1} /\ compare_values(b, a) = -compare_values(a, b)
         /\ compare_values(a, b) <= 0 /\ compare_values(b, c) <= 0 => compare_values(a, c) <= 0
<1>1. CASE t = "Blob"
  <2>1. a.type = "Blob" /\ b.type = "Blob" /\ c.type = "Blob"
    BY <1>1 DEF Of, Val
  <2>2. compare_values(a, b) = 0 /\ compare_values(b, a) = 0 /\ compare_values(b, c) = 0 /\ compare_values(a, c) = 0
    BY <2>1 DEF compare_values, Sortable, Numeric
  <2>3. 0 = -0 /\ 0 \in {-1, 0, 1} /\ 0 <= 0
    <3>1. Neg(0) = 0 /\ 0 \in {-1, 0, 1} /\ 0 <= 0
      BY Minus
    <3> QED
      BY <3>1, Zenon DEF Neg
  <2> QED
    BY <2>2, <2>3, Zenon
<1>2. CASE t # "Blob"
  <2>1. t \in Sortable
    BY <1>2 DEF Types, Sortable, Numeric
  <2> QED
    BY <2>1, CompareIsOrder
<1> QED
  BY <1>1, <1>2

(* The first of the least, by a comparison without a contradiction.        *)
Consistent(c, n) ==
  /\ \A i, j \in 1..n : c[<<i, j>>] \in {-1, 0, 1} /\ c[<<j, i>>] = -c[<<i, j>>]
  /\ \A i, j, k \in 1..n : c[<<i, j>>] <= 0 /\ c[<<j, k>>] <= 0 => c[<<i, k>>] <= 0
FirstLeast(c, m, i) ==
  /\ \A j \in 1..m : c[<<j, i>>] # -1
  /\ \A j \in 1..i - 1 : c[<<j, i>>] # 0

(* By a consistent comparison there is a first of the least.               *)
LEMMA LeastExists ==
  ASSUME NEW n \in Nat \ {0}, NEW c, Consistent(c, n)
  PROVE  \E i \in 1..n : FirstLeast(c, n, i)
<1> DEFINE P == {m \in Nat : m >= 1 /\ m <= n => \E i \in 1..m : FirstLeast(c, m, i)}
<1>1. 0 \in P
  OBVIOUS
<1>2. ASSUME NEW m \in P PROVE m + 1 \in P
  <2> SUFFICES ASSUME m + 1 <= n PROVE \E i \in 1..m + 1 : FirstLeast(c, m + 1, i)
    OBVIOUS
  <2>1. CASE m = 0
    <3>1. c[<<1, 1>>] \in {-1, 0, 1} /\ c[<<1, 1>>] = -c[<<1, 1>>]
      BY DEF Consistent
    <3>2. FirstLeast(c, 1, 1)
      BY <3>1 DEF FirstLeast
    <3> QED
      BY <2>1, <3>2
  <2>2. CASE m # 0
    <3>1. PICK i \in 1..m : FirstLeast(c, m, i)
      BY <2>2
    <3> DEFINE x == m + 1
    <3>2. x \in 1..n /\ i \in 1..n /\ 1..m \subseteq 1..n /\ \A j \in 1..x : j \in 1..m \/ j = x
      OBVIOUS
    <3>3. c[<<x, i>>] \in {-1, 0, 1} /\ c[<<i, x>>] = -c[<<x, i>>] /\ c[<<x, x>>] = 0
      <4>1. c[<<x, x>>] \in {-1, 0, 1} /\ c[<<x, x>>] = -c[<<x, x>>]
        BY <3>2 DEF Consistent
      <4>2. c[<<x, i>>] \in {-1, 0, 1} /\ c[<<i, x>>] = -c[<<x, i>>]
        BY <3>2 DEF Consistent
      <4> QED
        BY <4>1, <4>2
    <3>4. CASE c[<<x, i>>] # -1
      <4>1. FirstLeast(c, x, i)
        BY <3>1, <3>2, <3>4 DEF FirstLeast
      <4> QED
        BY <4>1
    <3>5. CASE c[<<x, i>>] = -1
      <4>1. ASSUME NEW j \in 1..m PROVE c[<<j, x>>] = 1
        <5>1. j \in 1..n
          BY <3>2
        <5>2. c[<<j, i>>] # -1 /\ c[<<j, i>>] \in {-1, 0, 1} /\ c[<<i, j>>] = -c[<<j, i>>]
          BY <3>1, <3>2, <5>1 DEF FirstLeast, Consistent
        <5>3. c[<<x, j>>] \in {-1, 0, 1} /\ c[<<j, x>>] = -c[<<x, j>>]
          BY <3>2, <5>1 DEF Consistent
        <5>4. ASSUME c[<<j, x>>] <= 0 PROVE FALSE
          <6>1. c[<<j, x>>] <= 0 /\ c[<<x, i>>] <= 0 => c[<<j, i>>] <= 0
            BY <3>2, <5>1 DEF Consistent
          <6>2. c[<<i, j>>] <= 0 /\ c[<<j, x>>] <= 0 => c[<<i, x>>] <= 0
            BY <3>2, <5>1 DEF Consistent
          <6>3. c[<<j, i>>] = 0 /\ c[<<i, x>>] = 1
            <7> DEFINE p == c[<<j, i>>]  q == c[<<x, i>>]  r == c[<<i, x>>]
            <7>1. p \in {-1, 0, 1} /\ p # -1 /\ p <= 0 /\ q = -1 /\ r = -q
              BY <3>3, <3>5, <5>2, <5>4, <6>1
            <7> HIDE DEF p, q, r
            <7>2. Neg(q) = 1 /\ p = 0
              BY <7>1, Minus
            <7>3. p = 0 /\ r = 1
              BY <7>1, <7>2, Zenon DEF Neg
            <7> QED
              BY <7>3 DEF p, r
          <6> QED
            BY <5>2, <5>4, <6>2, <6>3
        <5> QED
          BY <5>3, <5>4
      <4>2. FirstLeast(c, x, x)
        BY <3>2, <3>3, <4>1 DEF FirstLeast
      <4> QED
        BY <4>2
    <3> QED
      BY <3>4, <3>5
  <2> QED
    BY <2>1, <2>2
<1>3. P = Nat
  BY <1>1, <1>2, Induction
<1> QED
  BY <1>3

(* MIN and MAX are some of the values.                                     *)
LEMMA LeastIsMember ==
  ASSUME NEW t \in Types, NEW vs \in Seq(Of(t)), vs # <<>>
  PROVE  Least(vs) \in Of(t) /\ Greatest(vs) \in Of(t)
<1> DEFINE n == Len(vs)
           c == [p \in (1..n) \X (1..n) |-> compare_values(vs[p[1]], vs[p[2]])]
           d == [p \in (1..n) \X (1..n) |-> compare_values(vs[n + 1 - p[2]], vs[n + 1 - p[1]])]
           LeastAt(i) == /\ \A j \in DOMAIN vs : compare_values(vs[j], vs[i]) # -1
                         /\ \A j \in 1..i - 1 : compare_values(vs[j], vs[i]) # 0
           GreatestAt(i) == /\ \A j \in DOMAIN vs : compare_values(vs[j], vs[i]) # 1
                            /\ \A j \in i + 1..Len(vs) : compare_values(vs[j], vs[i]) # 0
<1>1. n \in Nat \ {0} /\ DOMAIN vs = 1..n /\ \A i \in 1..n : vs[i] \in Of(t)
  OBVIOUS
<1> DEFINE v(i) == vs[i]
<1>2. /\ \A i, j \in 1..n : compare_values(v(i), v(j)) \in {-1, 0, 1} /\ compare_values(v(j), v(i)) = -compare_values(v(i), v(j))
      /\ \A i, j, k \in 1..n : compare_values(v(i), v(j)) <= 0 /\ compare_values(v(j), v(k)) <= 0 => compare_values(v(i), v(k)) <= 0
  BY <1>1, OneTypeCompares
<1>3. /\ \A i, j \in 1..n : c[<<i, j>>] = compare_values(v(i), v(j))
      /\ \A i, j \in 1..n : d[<<i, j>>] = compare_values(v(n + 1 - j), v(n + 1 - i))
  OBVIOUS
<1> HIDE DEF c, d, v
<1>4. Consistent(c, n)
  BY <1>2, <1>3 DEF Consistent
<1>5. Consistent(d, n)
  <2>1. \A i \in 1..n : n + 1 - i \in 1..n
    BY <1>1
  <2> HIDE DEF n
  <2>2. ASSUME NEW i \in 1..n, NEW j \in 1..n PROVE d[<<i, j>>] \in {-1, 0, 1} /\ d[<<j, i>>] = -d[<<i, j>>]
    <3> DEFINE a == n + 1 - j  b == n + 1 - i
    <3>1. a \in 1..n /\ b \in 1..n /\ d[<<i, j>>] = compare_values(v(a), v(b)) /\ d[<<j, i>>] = compare_values(v(b), v(a))
      BY <1>3, <2>1
    <3> HIDE DEF a, b
    <3> QED
      BY <1>2, <3>1
  <2>3. ASSUME NEW i \in 1..n, NEW j \in 1..n, NEW k \in 1..n, d[<<i, j>>] <= 0, d[<<j, k>>] <= 0
        PROVE  d[<<i, k>>] <= 0
    <3> DEFINE a == n + 1 - k  b == n + 1 - j  e == n + 1 - i
    <3>1. /\ a \in 1..n /\ b \in 1..n /\ e \in 1..n /\ d[<<i, j>>] = compare_values(v(b), v(e))
          /\ d[<<j, k>>] = compare_values(v(a), v(b)) /\ d[<<i, k>>] = compare_values(v(a), v(e))
      BY <1>3, <2>1
    <3> HIDE DEF a, b, e
    <3>2. compare_values(v(a), v(b)) <= 0 /\ compare_values(v(b), v(e)) <= 0
      BY <2>3, <3>1
    <3> QED
      BY <1>2, <3>1, <3>2
  <2> QED
    BY <2>2, <2>3 DEF Consistent
<1>6. \E i \in 1..n : LeastAt(i)
  <2>1. PICK i \in 1..n : FirstLeast(c, n, i)
    BY <1>1, <1>4, LeastExists
  <2>2. ASSUME NEW j \in 1..n PROVE compare_values(vs[j], vs[i]) # -1
    <3>1. c[<<j, i>>] # -1 /\ c[<<j, i>>] = compare_values(v(j), v(i))
      BY <1>3, <2>1 DEF FirstLeast
    <3> QED
      BY <3>1 DEF v
  <2>3. ASSUME NEW j \in 1..i - 1 PROVE compare_values(vs[j], vs[i]) # 0
    <3>1. j \in 1..n
      BY <1>1
    <3>2. c[<<j, i>>] # 0 /\ c[<<j, i>>] = compare_values(v(j), v(i))
      BY <1>3, <2>1, <3>1 DEF FirstLeast
    <3> QED
      BY <3>2 DEF v
  <2>4. LeastAt(i)
    BY <1>1, <2>2, <2>3
  <2> QED
    BY <2>4
<1>7. \E i \in 1..n : GreatestAt(i)
  <2>1. PICK i \in 1..n : FirstLeast(d, n, i)
    BY <1>1, <1>5, LeastExists
  <2> DEFINE g == n + 1 - i
  <2>2. g \in 1..n /\ n + 1 - g = i
    BY <1>1
  <2>3. ASSUME NEW j \in 1..n PROVE compare_values(v(j), v(g)) # 1
    <3>1. n + 1 - j \in 1..n /\ n + 1 - (n + 1 - j) = j
      BY <1>1
    <3>2. d[<<n + 1 - j, i>>] # -1 /\ d[<<n + 1 - j, i>>] = compare_values(v(n + 1 - i), v(n + 1 - (n + 1 - j)))
      BY <1>3, <2>1, <3>1 DEF FirstLeast
    <3>3. compare_values(v(g), v(j)) # -1
      BY <3>1, <3>2
    <3> HIDE DEF g
    <3>4. compare_values(v(g), v(j)) \in {-1, 0, 1} /\ compare_values(v(j), v(g)) = -compare_values(v(g), v(j))
      BY <1>2, <2>2
    <3> QED
      BY <3>3, <3>4
  <2>4. ASSUME NEW j \in g + 1..n PROVE compare_values(v(j), v(g)) # 0
    <3>1. n + 1 - j \in 1..i - 1 /\ n + 1 - j \in 1..n /\ n + 1 - (n + 1 - j) = j /\ j \in 1..n
      BY <1>1
    <3>2. d[<<n + 1 - j, i>>] # 0 /\ d[<<n + 1 - j, i>>] = compare_values(v(n + 1 - i), v(n + 1 - (n + 1 - j)))
      BY <1>3, <2>1, <3>1 DEF FirstLeast
    <3>3. compare_values(v(g), v(j)) # 0
      BY <3>1, <3>2
    <3>4. j \in 1..n
      BY <3>1
    <3> HIDE DEF g
    <3>5. compare_values(v(g), v(j)) \in {-1, 0, 1} /\ compare_values(v(j), v(g)) = -compare_values(v(g), v(j))
      BY <1>2, <2>2, <3>4
    <3> QED
      BY <3>3, <3>5
  <2>5. GreatestAt(g)
    BY <1>1, <2>3, <2>4 DEF v
  <2> QED
    BY <2>2, <2>5
<1> HIDE DEF LeastAt, GreatestAt
<1>8. Least(vs) = vs[CHOOSE i \in 1..n : LeastAt(i)] /\ Greatest(vs) = vs[CHOOSE i \in 1..n : GreatestAt(i)]
  BY <1>1 DEF Least, Greatest, LeastAt, GreatestAt
<1> QED
  BY <1>1, <1>6, <1>7, <1>8

(* A sum, term by term.                                                    *)
LEMMA PlusIs ==
  ASSUME NEW m \in Int, NEW n \in Int
  PROVE  Plus(m, n) \in Int
<1>1. NaN \in Int
  BY FloatAssumption DEF NaN
<1>2. Halves(m) + Halves(n) \in Int
  BY DEF Halves
<1>3. Nearest(Halves(m) + Halves(n)) \in Int
  BY <1>2, NearestIs
<1> QED
  BY <1>1, <1>3 DEF Plus

Summed(x, v) == IF v.type \in Numeric THEN Plus(x, AsFloat(v)) ELSE x
SumUpTo(g, vs, m) == g = [n \in 0..m |-> IF n = 0 THEN 0 ELSE Summed(g[n - 1], vs[n])]

(* There is such a function, so that Total has its value.                  *)
LEMMA SumExists ==
  ASSUME NEW vs, NEW k \in Nat
  PROVE  \E g : SumUpTo(g, vs, k)
<1> DEFINE P == {m \in Nat : \E g : SumUpTo(g, vs, m)}
<1>1. 0 \in P
  <2>1. SumUpTo([n \in 0..0 |-> 0], vs, 0)
    BY DEF SumUpTo
  <2> QED
    BY <2>1
<1>2. ASSUME NEW m \in P PROVE m + 1 \in P
  <2>1. PICK g : SumUpTo(g, vs, m)
    OBVIOUS
  <2> DEFINE next == Summed(g[m], vs[m + 1])
             h == [n \in 0..m + 1 |-> IF n = m + 1 THEN next ELSE g[n]]
  <2>2. ASSUME NEW n \in 0..m + 1
        PROVE  h[n] = IF n = 0 THEN 0 ELSE Summed(h[n - 1], vs[n])
    <3>1. CASE n = m + 1
      BY <3>1
    <3>2. CASE n \in 0..m
      <4>1. g[n] = IF n = 0 THEN 0 ELSE Summed(g[n - 1], vs[n])
        BY <2>1, <3>2 DEF SumUpTo
      <4>2. h[n] = g[n] /\ (n # 0 => h[n - 1] = g[n - 1])
        BY <3>2
      <4> HIDE DEF h
      <4> QED
        BY <4>1, <4>2
    <3> QED
      BY <3>1, <3>2
  <2>3. DOMAIN h = 0..m + 1 /\ h = [n \in 0..m + 1 |-> h[n]]
    OBVIOUS
  <2> HIDE DEF h
  <2>4. SumUpTo(h, vs, m + 1)
    BY <2>2, <2>3 DEF SumUpTo
  <2> QED
    BY <2>4
<1>3. P = Nat
  BY <1>1, <1>2, Induction
<1> QED
  BY <1>3

(* A sum of sums is a number.                                              *)
LEMMA TotalIs ==
  ASSUME NEW vs, NEW l \in Nat, l = Len(vs), \A n \in 1..l : vs[n].type \in Numeric => Num(vs[n]) \in Int
  PROVE  Total(vs) \in Int
<1> DEFINE sum == CHOOSE g : SumUpTo(g, vs, l)
<1>1. SumUpTo(sum, vs, l)
  BY SumExists
<1>2. Total(vs) = sum[l]
  BY DEF Total, SumUpTo, Summed
<1> HIDE DEF sum
<1> DEFINE P == {n \in Nat : n <= l => sum[n] \in Int}
<1>3. 0 \in P
  BY <1>1 DEF SumUpTo
<1>4. ASSUME NEW n \in P PROVE n + 1 \in P
  <2> SUFFICES ASSUME n + 1 <= l PROVE sum[n + 1] \in Int
    OBVIOUS
  <2>1. n + 1 \in 1..l /\ n + 1 \in 0..l /\ n + 1 # 0 /\ (n + 1) - 1 = n /\ sum[n] \in Int
    OBVIOUS
  <2>2. sum[n + 1] = Summed(sum[(n + 1) - 1], vs[n + 1])
    BY <1>1, <2>1 DEF SumUpTo
  <2>3. Summed(sum[n], vs[n + 1]) \in Int
    <3>1. vs[n + 1].type \in Numeric => AsFloat(vs[n + 1]) \in Int
      BY <2>1, AsFloatIs
    <3> QED
      BY <2>1, <3>1, PlusIs DEF Summed
  <2> QED
    BY <2>1, <2>2, <2>3
<1>5. P = Nat
  BY <1>3, <1>4, Induction
<1> QED
  BY <1>2, <1>5

(* What the functions compute of the rows of a group.                      *)
LEMMA TypedCell ==
  ASSUME NEW t \in Types, NEW v \in Of(t)
  PROVE  IsCell(v) /\ v.type = t /\ (t \in Numeric => Num(v) \in Int)
<1>1. PICK d \in Data(t) : v = Val(t, d)
  BY DEF Of
<1>2. v.type = t /\ v.data = d
  BY <1>1 DEF Val
<1>3. CASE t = "Integer"
  <2>1. PICK n \in Int64 : d = <<n>>
    BY <1>3 DEF Data
  <2>2. n \in Int
    BY DEF Int64
  <2>3. d \in Seq(Int) /\ d[1] = n
    BY <2>1, <2>2
  <2> QED
    BY <1>2, <2>2, <2>3 DEF IsCell, Num
<1>4. CASE t \in {"Float", "Boolean", "Timestamp"}
  <2>1. PICK n \in Int : d = <<n>>
    BY <1>4 DEF Data
  <2> QED
    BY <1>2, <1>4, <2>1 DEF IsCell, Num, Numeric
<1>5. CASE t = "Text"
  BY <1>2, <1>5 DEF IsCell, Numeric, Data
<1>6. CASE t = "Blob"
  <2>1. d \in Seq(Int)
    BY <1>6 DEF Data
  <2> QED
    BY <1>2, <1>6, <2>1 DEF IsCell, Numeric
<1> QED
  BY <1>3, <1>4, <1>5, <1>6 DEF Types

LEMMA AsIntegerIs ==
  ASSUME NEW n \in Int
  PROVE  AsInteger(n) \in Int
<1>1. Halves(n) \in Int
  BY DEF Halves
<1>2. \A h \in Int : Truncated(h) \in Int
  <2> SUFFICES ASSUME NEW h \in Int PROVE Truncated(h) \in Int
    OBVIOUS
  <2>1. h \div 2 \in Int /\ (-h) \div 2 \in Int
    OBVIOUS
  <2> QED
    BY <2>1 DEF Truncated
<1>3. Clamped(Truncated(Halves(n))) \in Int
  BY <1>1, <1>2, MaxIntAssumption DEF Clamped
<1> QED
  BY <1>3 DEF AsInteger

(* What a function over groups is computed of: the values that are not     *)
(* NULL, of one type.                                                      *)
LEMMA PresentIs ==
  ASSUME Typed, NEW rs \in Seq(rows), NEW i \in 1..2
  PROVE  \E t \in Types : Present(rs, i) \in Seq(Of(t))
<1> DEFINE t == IF i = 1 THEN "Integer" ELSE coltype
           vs == [k \in DOMAIN rs |-> rs[k][i]]
           V == {vs[k] : k \in 1..Len(rs)}
           S == ToSet(vs) \ {Null}
           p == Present(rs, i)
<1>0. DOMAIN rs = 1..Len(rs) /\ Len(rs) \in Nat /\ t \in Types /\ \A k \in 1..Len(rs) : rs[k] \in rows
  BY DEF Typed, Types
<1>1. vs \in Seq(V) /\ Len(vs) = Len(rs)
  BY <1>0
<1>2. ASSUME NEW v \in V, v # Null PROVE v \in Of(t)
  <2>1. PICK k \in 1..Len(rs) : v = rs[k][i]
    BY <1>0
  <2>2. rs[k] \in rows
    BY <1>0
  <2>3. rs[k][1] \in Of("Integer") /\ rs[k][2] \in Cells
    BY <2>2, RowIs
  <2>4. rs[k][2] = Null \/ rs[k][2] \in Of(coltype)
    BY <2>3, CellIs DEF Typed
  <2> QED
    BY <1>2, <2>1, <2>3, <2>4
<1>3. p = Among(vs, S) /\ Null \notin S
  BY DEF Present
<1> HIDE DEF vs, V, p, S
<1>4. p \in Seq(V) /\ {p[k] : k \in 1..Len(p)} = {vs[k] : k \in 1..Len(vs)} \cap S
  <2>1. vs \in Seq(V)
    BY <1>1
  <2>2. LET a == Among(vs, S) IN
        a \in Seq(V) /\ {a[k] : k \in 1..Len(a)} = {vs[k] : k \in 1..Len(vs)} \cap S
    BY ONLY <2>1, AmongElements
  <2> QED
    BY <1>3, <2>2
<1>5. \A k \in 1..Len(p) : p[k] \in V /\ p[k] # Null
  <2> SUFFICES ASSUME NEW k \in 1..Len(p) PROVE p[k] \in V /\ p[k] # Null
    OBVIOUS
  <2>1. p[k] \in S
    BY <1>4
  <2> QED
    BY <1>3, <1>4, <2>1
<1>6. p \in Seq(Of(t))
  <2>1. \A k \in 1..Len(p) : p[k] \in Of(t)
    BY <1>2, <1>5
  <2> HIDE DEF t
  <2> QED
    BY <1>4, <2>1
<1> QED
  BY <1>0, <1>6 DEF p

(* What a function over groups computes can be compared, and a count of all*)
(* rows is their number.                                                   *)
LEMMA AggregateIs ==
  ASSUME Typed, NEW rs \in Seq(rows), NEW agg \in Item, agg.is = "fn"
  PROVE  /\ IsCell(compute_aggregate(agg, rs))
         /\ CountsRows(agg) => compute_aggregate(agg, rs) = Integer(Len(rs))
<1> DEFINE i == Position(agg.arg)  vs == Present(rs, i)  v == compute_aggregate(agg, rs)
<1>1. agg.fn \in {"COUNT", "SUM", "AVG", "MIN", "MAX"}
  BY DEF Item
<1>2. i \in {0, 1, 2} /\ (agg.arg = "*" => i = 0)
  BY PositionIs
<1>3. Len(rs) \in Nat
  OBVIOUS
<1>4. \A n \in Int : IsCell(Integer(n)) /\ IsCell(Float(n))
  <2> SUFFICES ASSUME NEW n \in Int PROVE IsCell(Integer(n)) /\ IsCell(Float(n))
    OBVIOUS
  <2>1. <<n>> \in Seq(Int) /\ <<n>>[1] = n
    OBVIOUS
  <2> QED
    BY <2>1 DEF IsCell, Integer, Float, Val, Num
<1>5. IsCell(Null)
  BY NullIsCell
<1>6. CountsRows(agg) => v = Integer(Len(rs))
  BY <1>2 DEF CountsRows, compute_aggregate
<1>7. CASE i = 0
  <2>1. v \in {Integer(Len(rs)), Integer(0), Null}
    BY <1>1, <1>7 DEF compute_aggregate
  <2> HIDE DEF v
  <2> QED
    BY <1>3, <1>4, <1>5, <1>6, <2>1 DEF v
<1>8. CASE i # 0
  <2>0. i \in 1..2 /\ agg.arg # "*"
    BY <1>2, <1>8
  <2>1. PICK t \in Types : vs \in Seq(Of(t))
    BY <2>0, PresentIs
  <2> DEFINE N == CountNumeric(vs)  L == Len(vs)
  <2>2. v \in {Null, Integer(L), Integer(AsInteger(Total(vs))), Float(Total(vs)),
               Val("Float", <<Total(vs), N>>)}
        \/ (vs # <<>> /\ v \in {Least(vs), Greatest(vs)})
    BY <1>1, <1>8, <2>0 DEF compute_aggregate
  <2>3. L \in Nat /\ DOMAIN vs = 1..L /\ \A n \in 1..L : vs[n] \in Of(t)
    BY <2>1
  <2>4. N \in Int
    <3>1. IsFiniteSet(1..L)
      BY <2>3, UpTo
    <3>2. IsFiniteSet({k \in 1..L : vs[k].type \in Numeric})
      BY <3>1, FS_Subset
    <3> QED
      BY <2>3, <3>2, FS_CardinalityType DEF CountNumeric
  <2>5. Total(vs) \in Int
    <3>1. ASSUME NEW n \in 1..L PROVE vs[n].type \in Numeric => Num(vs[n]) \in Int
      <4>1. vs[n] \in Of(t)
        BY <2>3
      <4> QED
        BY <4>1, TypedCell
    <3> HIDE DEF vs
    <3> QED
      BY <2>3, <3>1, TotalIs
  <2>6. vs # <<>> => IsCell(Least(vs)) /\ IsCell(Greatest(vs))
    <3> SUFFICES ASSUME vs # <<>> PROVE IsCell(Least(vs)) /\ IsCell(Greatest(vs))
      OBVIOUS
    <3>1. Least(vs) \in Of(t) /\ Greatest(vs) \in Of(t)
      <4> HIDE DEF vs
      <4> QED
        BY <2>1, LeastIsMember
    <3> QED
      BY <3>1, TypedCell
  <2>7. AsInteger(Total(vs)) \in Int
    <3> DEFINE a == Total(vs)
    <3>1. a \in Int
      BY <2>5
    <3> HIDE DEF a
    <3>2. AsInteger(a) \in Int
      BY <3>1, AsIntegerIs
    <3> QED
      BY <3>2 DEF a
  <2>8. IsCell(Val("Float", <<Total(vs), N>>))
    <3> DEFINE a == Total(vs)
    <3> HIDE DEF a, N
    <3>1. <<a, N>> \in Seq(Int)
      BY <2>4, <2>5 DEF a
    <3>2. IsCell(Val("Float", <<a, N>>))
      <4>1. <<a, N>>[1] \in Int
        BY <2>5 DEF a
      <4> QED
        BY <3>1, <4>1 DEF IsCell, Val, Num
    <3> QED
      BY <3>2 DEF a
  <2> HIDE DEF v, vs, N, L
  <2>9. IsCell(v)
    BY <1>4, <1>5, <2>2, <2>3, <2>5, <2>6, <2>7, <2>8
  <2> QED
    BY <1>6, <2>9 DEF v
<1> QED
  BY <1>7, <1>8

-----------------------------------------------------------------------------
(* Groups: a row for each.                                                 *)

(* Values are equal for a group in both directions, and through a third;   *)
(* so are keys.                                                            *)
LEMMA EqualIs ==
  /\ \A v, w : Equal(v, w) => Equal(w, v)
  /\ \A v, w, u : Equal(v, w) /\ Equal(w, u) => Equal(v, u)
<1>1. ASSUME NEW v, NEW w, Equal(v, w) PROVE Equal(w, v)
  BY <1>1 DEF Equal
<1>2. ASSUME NEW v, NEW w, NEW u, Equal(v, w), Equal(w, u) PROVE Equal(v, u)
  <2>1. CASE v.type = "Float" /\ w.type = "Float"
    BY <1>2, <2>1 DEF Equal
  <2>2. CASE ~(v.type = "Float" /\ w.type = "Float")
    BY <1>2, <2>2 DEF Equal
  <2> QED
    BY <2>1, <2>2
<1> QED
  BY <1>1, <1>2

LEMMA SameKeyIs ==
  /\ \A k, l : SameKey(k, l) => SameKey(l, k)
  /\ \A k, l, m : SameKey(k, l) /\ SameKey(l, m) => SameKey(k, m)
<1>1. ASSUME NEW k, NEW l, SameKey(k, l) PROVE SameKey(l, k)
  BY <1>1, EqualIs DEF SameKey
<1>2. ASSUME NEW k, NEW l, NEW m, SameKey(k, l), SameKey(l, m) PROVE SameKey(k, m)
  BY <1>2, EqualIs DEF SameKey
<1> QED
  BY <1>1, <1>2

(* Every row is in the group of a row that begins one, and if no row is    *)
(* there twice in no other.                                                *)
LEMMA BeginningsPart ==
  ASSUME NEW T, NEW rs \in Seq(T), NEW group, \A i, j \in 1..Len(rs) : rs[i] = rs[j] => i = j
  PROVE  LET S == Beginnings(rs, group) IN
         /\ S \subseteq 1..Len(rs)
         /\ \A i \in 1..Len(rs) : \E j \in S : i \in GroupOf(rs, group, j)
         /\ \A j, k \in S : j # k => GroupOf(rs, group, j) \cap GroupOf(rs, group, k) = {}
<1> DEFINE S == Beginnings(rs, group)
           same(j, i) == SameKey(GroupKey(rs[j], group), GroupKey(rs[i], group))
<1>0. DOMAIN rs = 1..Len(rs) /\ Len(rs) \in Nat
  OBVIOUS
<1>1. /\ S \subseteq 1..Len(rs)
      /\ \A k \in 1..Len(rs) : k \in S <=> \A j \in 1..k - 1 : ~same(j, k)
  BY <1>0 DEF Beginnings, Begins
<1>2. \A j, i \in 1..Len(rs) : i \in GroupOf(rs, group, j) <=> (i = j \/ same(j, i))
  BY <1>0 DEF GroupOf, Gathers
<1>3. /\ \A j, i : same(j, i) => same(i, j)
      /\ \A j, i, k : same(j, i) /\ same(i, k) => same(j, k)
  BY SameKeyIs
<1> HIDE DEF S, same
<1>4. ASSUME NEW i \in 1..Len(rs) PROVE \E j \in S : i \in GroupOf(rs, group, j)
  <2> DEFINE J == {j \in 1..Len(rs) : j = i \/ same(j, i)}
  <2>1. PICK j \in J : \A m \in J : j <= m
    <3>1. J \subseteq Nat /\ i \in J
      OBVIOUS
    <3> HIDE DEF J
    <3> QED
      BY <3>1, LeastNumber
  <2>2. ASSUME NEW m \in 1..j - 1, same(m, j) PROVE FALSE
    <3>1. m \in 1..Len(rs) /\ ~(j <= m)
      BY <1>0, <2>1
    <3>2. same(m, i)
      BY <1>3, <2>1, <2>2
    <3> QED
      BY <2>1, <3>1, <3>2
  <2>3. j \in S
    BY <1>1, <2>1, <2>2
  <2>4. i \in GroupOf(rs, group, j)
    BY <1>2, <2>1
  <2> QED
    BY <2>3, <2>4
<1>5. ASSUME NEW j \in S, NEW k \in S, j < k, NEW i, i \in GroupOf(rs, group, j), i \in GroupOf(rs, group, k) PROVE FALSE
  <2>1. j \in 1..Len(rs) /\ k \in 1..Len(rs) /\ i \in 1..Len(rs)
    BY <1>0, <1>1, <1>5 DEF GroupOf
  <2>2. j \in 1..k - 1
    BY <1>5, <2>1
  <2>3. ~same(j, k)
    BY <1>1, <2>1, <2>2
  <2>4. (i = j \/ same(j, i)) /\ (i = k \/ same(k, i)) /\ j # k
    BY <1>2, <1>5, <2>1
  <2> QED
    BY <1>3, <2>3, <2>4
<1>6. ASSUME NEW j \in S, NEW k \in S, j # k PROVE GroupOf(rs, group, j) \cap GroupOf(rs, group, k) = {}
  <2>1. j \in 1..Len(rs) /\ k \in 1..Len(rs)
    BY <1>1
  <2>2. j < k \/ k < j
    BY <1>6, <2>1
  <2> QED
    BY <1>5, <2>2
<1> QED
  BY <1>1, <1>4, <1>6 DEF S

(* The cells of a row of the table can be compared.                        *)
LEMMA RowCells ==
  ASSUME Typed, NEW r \in rows, NEW i \in 1..2
  PROVE  IsCell(r[i])
<1>1. r[1] \in Of("Integer") /\ r[2] \in Cells
  BY RowIs
<1>2. IsCell(r[1])
  BY <1>1, TypedCell DEF Types
<1>3. IsCell(Null)
  BY NullIsCell
<1>4. r[2] = Null \/ r[2] \in Of(coltype)
  BY <1>1, CellIs DEF Typed
<1>5. IsCell(r[2])
  <2>1. coltype \in Types
    BY DEF Typed
  <2> QED
    BY <1>3, <1>4, <2>1, TypedCell
<1> QED
  BY <1>2, <1>5

(* The front of two sequences in one.                                      *)
LEMMA FrontIs ==
  ASSUME NEW T, NEW a \in Seq(T), NEW b \in Seq(T)
  PROVE  SubSeq(a \o b, 1, Len(a)) = a
OBVIOUS

(* The columns of GROUP BY that the table has.                             *)
LEMMA GroupByIs ==
  ASSUME NEW group \in Seq(STRING)
  PROVE  LET g == GroupBy(group) IN
         /\ DOMAIN g = 1..Len(g) /\ Len(g) \in Nat
         /\ \A k \in 1..Len(g) : Position(g[k]) \in 1..2
<1> DEFINE S == ToSet(Columns)  g == GroupBy(group)
<1>1. g = Among(group, S)
  BY DEF GroupBy
<1> HIDE DEF S, g
<1>2. LET a == Among(group, S) IN
      a \in Seq(STRING) /\ {a[k] : k \in 1..Len(a)} = {group[k] : k \in 1..Len(group)} \cap S
  BY ONLY group \in Seq(STRING), AmongElements
<1>3. DOMAIN g = 1..Len(g) /\ Len(g) \in Nat
  BY <1>1, <1>2
<1>4. ASSUME NEW k \in 1..Len(g) PROVE g[k] \in S
  BY <1>1, <1>2
<1>5. ASSUME NEW k \in 1..Len(g) PROVE Position(g[k]) \in 1..2
  <2>1. g[k] \in ToSet(Columns)
    BY <1>4 DEF S
  <2> QED
    BY <2>1, PositionIs
<1> QED
  BY <1>3, <1>5 DEF g

(* The key of a group is as wide as its columns, and can be compared.      *)
LEMMA KeyIs ==
  ASSUME Typed, NEW group \in Seq(STRING), NEW r \in rows
  PROVE  LET g == GroupBy(group)  key == GroupKey(r, group) IN
         DOMAIN key = 1..Len(g) /\ Len(key) = Len(g) /\ \A i \in 1..Len(g) : IsCell(key[i])
<1> DEFINE g == GroupBy(group)  at(i) == r[Position(g[i])]  key == [i \in 1..Len(g) |-> at(i)]
<1>1. DOMAIN g = 1..Len(g) /\ Len(g) \in Nat /\ \A k \in 1..Len(g) : Position(g[k]) \in 1..2
  BY GroupByIs
<1>2. GroupKey(r, group) = key
  BY <1>1 DEF GroupKey
<1>3. \A i \in 1..Len(g) : IsCell(at(i))
  BY <1>1, RowCells
<1> HIDE DEF g, at
<1>4. DOMAIN key = 1..Len(g) /\ Len(key) = Len(g) /\ \A i \in 1..Len(g) : key[i] = at(i)
  BY <1>1
<1> HIDE DEF key
<1> QED
  BY <1>2, <1>3, <1>4 DEF g

(* The rows of a group are rows of the table.                              *)
LEMMA MembersAre ==
  ASSUME NEW T, NEW rs \in Seq(T), NEW group, NEW j
  PROVE  LET m == Among(rs, {row \in ToSet(rs) : Gathers(rs[j], row, group)}) IN
         m \in Seq(T) /\ Len(m) = Cardinality(GroupOf(rs, group, j))
<1> DEFINE S == {row \in ToSet(rs) : Gathers(rs[j], row, group)}
<1>1. {i \in 1..Len(rs) : rs[i] \in S} = GroupOf(rs, group, j)
  <2>1. DOMAIN rs = 1..Len(rs)
    OBVIOUS
  <2> QED
    BY <2>1 DEF GroupOf, ToSet
<1> HIDE DEF S
<1>2. LET a == Among(rs, S) IN a \in Seq(T) /\ Len(a) = Cardinality({i \in 1..Len(rs) : rs[i] \in S})
  BY ONLY rs \in Seq(T), AmongElements
<1>3. Among(rs, S) \in Seq(T) /\ Len(Among(rs, S)) = Cardinality(GroupOf(rs, group, j))
  BY <1>1, <1>2
<1> QED
  BY <1>3 DEF S

(* The row of a group: the key of the row that begins it, then what the    *)
(* functions compute of it.                                                *)
LEMMA GroupRowIs ==
  ASSUME Typed, NEW rs \in Seq(rows), NEW group \in Seq(STRING), NEW j \in 1..Len(rs),
         NEW aggs \in Seq(Item), \A n \in 1..Len(aggs) : aggs[n].is = "fn"
  PROVE  LET r == GroupRow(rs, aggs, group, rs[j])  w == Len(GroupBy(group)) IN
         /\ w \in Nat /\ Len(r) = w + Len(aggs) /\ \A i \in 1..Len(r) : IsCell(r[i])
         /\ SubSeq(r, 1, w) = GroupKey(rs[j], group)
         /\ \A n \in 1..Len(aggs) : CountsRows(aggs[n]) =>
              r[w + n] = Integer(Cardinality(GroupOf(rs, group, j)))
<1> DEFINE w == Len(GroupBy(group))
           members == Among(rs, {row \in ToSet(rs) : Gathers(rs[j], row, group)})
           value(n) == compute_aggregate(aggs[n], members)
           cells == [n \in 1..Len(aggs) |-> value(n)]
           key == GroupKey(rs[j], group)
           r == GroupRow(rs, aggs, group, rs[j])
           T == {key[i] : i \in 1..w} \cup {value(n) : n \in 1..Len(aggs)}
<1>0. DOMAIN aggs = 1..Len(aggs) /\ Len(aggs) \in Nat /\ DOMAIN rs = 1..Len(rs) /\ \A n \in 1..Len(aggs) : aggs[n] \in Item
  OBVIOUS
<1>2. rs[j] \in rows
  OBVIOUS
<1>3. DOMAIN key = 1..w /\ Len(key) = w /\ \A i \in 1..w : IsCell(key[i])
  BY <1>2, KeyIs
<1>4. w \in Nat
  BY GroupByIs
<1>5. members \in Seq(rows) /\ Len(members) = Cardinality(GroupOf(rs, group, j))
  BY MembersAre
<1>6. r = key \o cells
  BY <1>0 DEF GroupRow
<1> HIDE DEF members
<1>7. ASSUME NEW n \in 1..Len(aggs)
      PROVE  IsCell(value(n)) /\ (CountsRows(aggs[n]) => value(n) = Integer(Cardinality(GroupOf(rs, group, j))))
  <2>1. aggs[n] \in Item /\ aggs[n].is = "fn"
    BY <1>0
  <2> QED
    BY <1>5, <2>1, AggregateIs
<1>8. key = [i \in 1..w |-> key[i]]
  <2>1. key = [i \in DOMAIN GroupBy(group) |-> rs[j][Position(GroupBy(group)[i])]]
    BY DEF GroupKey
  <2> QED
    BY <1>3, <2>1
<1> HIDE DEF value, w, r
<1>9. cells \in Seq(T) /\ Len(cells) = Len(aggs) /\ \A n \in 1..Len(aggs) : cells[n] = value(n)
  BY <1>0
<1>10. key \in Seq(T)
  <2>1. key \in Seq({key[i] : i \in 1..w})
    BY <1>4, <1>8, ListedIs
  <2> QED
    BY <1>3, <1>4, <2>1
<1> HIDE DEF cells, T
<1>11. /\ Len(r) = Len(key) + Len(cells)
       /\ \A i \in 1..Len(key) : r[i] = key[i]
       /\ \A i \in 1..Len(cells) : r[Len(key) + i] = cells[i]
  <2> DEFINE all == key \o cells
  <2>1. key \in Seq(T) /\ cells \in Seq(T)
    BY <1>9, <1>10
  <2>2. /\ all \in Seq(T) /\ Len(all) = Len(key) + Len(cells)
        /\ \A i \in 1..Len(key) : all[i] = key[i]
        /\ \A i \in 1..Len(cells) : all[Len(key) + i] = cells[i]
    BY ONLY <2>1, Concatenates DEF all
  <2> HIDE DEF all
  <2>3. r = all
    BY <1>6 DEF all
  <2> QED
    BY <2>2, <2>3
<1>12. SubSeq(r, 1, Len(key)) = key
  BY <1>6, <1>9, <1>10, FrontIs
<1>13. Len(r) = w + Len(aggs) /\ SubSeq(r, 1, w) = key
       /\ (\A i \in 1..w : r[i] = key[i]) /\ \A n \in 1..Len(aggs) : r[w + n] = value(n)
  BY <1>3, <1>9, <1>11, <1>12
<1>14. ASSUME NEW i \in 1..Len(r) PROVE IsCell(r[i])
  <2>1. CASE i <= w
    <3>1. i \in 1..w
      BY <1>4, <2>1
    <3> QED
      BY <1>3, <1>13, <3>1
  <2>2. CASE i > w
    <3>1. i - w \in 1..Len(aggs) /\ i = w + (i - w)
      BY <1>0, <1>4, <1>13, <2>2
    <3> QED
      BY <1>7, <1>13, <3>1
  <2> QED
    BY <1>0, <1>4, <1>13, <2>1, <2>2
<1> QED
  BY <1>4, <1>7, <1>13, <1>14 DEF r, w

(* Rows of one width, which hold what can be compared.                     *)
Wide(s, n) == Listed(s) /\ \A k \in 1..Len(s) : Len(s[k]) = n /\ \A i \in 1..n : IsCell(s[k][i])

(* Grouping gives rows of one width, a row for every beginning.            *)
LEMMA GroupsAre ==
  ASSUME Typed, NEW rs, Rowed(rs), rs # <<>>, NEW group \in Seq(STRING),
         NEW aggs \in Seq(Item), \A n \in 1..Len(aggs) : aggs[n].is = "fn"
  PROVE  LET e == execute_aggregate(rs, aggs, group) IN
         Wide(e, Len(GroupBy(group)) + Len(aggs)) /\ Grouped(e, rs, group, aggs)
<1> DEFINE w == Len(GroupBy(group))  first == BeginningsAsMet(rs, group)  S == Beginnings(rs, group)
           row(n) == GroupRow(rs, aggs, group, rs[first[n]])
           e == execute_aggregate(rs, aggs, group)
           count(j) == Integer(Cardinality(GroupOf(rs, group, j)))
           good(r, j) == /\ Len(r) = w + Len(aggs) /\ (\A i \in 1..Len(r) : IsCell(r[i]))
                         /\ SubSeq(r, 1, w) = GroupKey(rs[j], group)
                         /\ \A n \in 1..Len(aggs) : CountsRows(aggs[n]) => r[w + n] = count(j)
<1>0. rs \in Seq(rows) /\ (\A i, j \in 1..Len(rs) : rs[i] = rs[j] => i = j) /\ DOMAIN rs = 1..Len(rs) /\ DOMAIN aggs = 1..Len(aggs)
  BY DEF Rowed
<1>1. /\ first \in Seq(S) /\ DOMAIN first = 1..Len(first) /\ Len(first) \in Nat
      /\ {first[n] : n \in 1..Len(first)} = S
      /\ \A m, n \in 1..Len(first) : first[m] = first[n] => m = n
  BY <1>0, BeginningsListed
<1>2. e = [n \in 1..Len(first) |-> row(n)]
  BY <1>1 DEF execute_aggregate
<1>3. /\ S \subseteq 1..Len(rs)
      /\ \A i \in 1..Len(rs) : \E j \in S : i \in GroupOf(rs, group, j)
      /\ \A j, k \in S : j # k => GroupOf(rs, group, j) \cap GroupOf(rs, group, k) = {}
  BY <1>0, BeginningsPart
<1> HIDE DEF first, S
<1>4. \A k \in 1..Len(first) : first[k] \in S /\ first[k] \in 1..Len(rs)
  BY <1>1, <1>3
<1>5. ASSUME NEW k \in 1..Len(first) PROVE good(row(k), first[k]) /\ w \in Nat
  <2>1. first[k] \in 1..Len(rs) /\ rs \in Seq(rows)
    BY <1>0, <1>4
  <2> QED
    BY <2>1, GroupRowIs
<1> HIDE DEF good, row
<1>6. e = [n \in 1..Len(first) |-> e[n]] /\ \A k \in 1..Len(first) : e[k] = row(k)
  BY <1>2
<1> HIDE DEF e
<1>7. Listed(e) /\ Len(e) = Len(first) /\ DOMAIN e = 1..Len(e)
  BY <1>1, <1>6, ListedIs
<1>8. ASSUME NEW k \in 1..Len(e)
      PROVE  /\ Len(e[k]) = w + Len(aggs) /\ (\A i \in 1..w + Len(aggs) : IsCell(e[k][i]))
             /\ SubSeq(e[k], 1, w) = GroupKey(rs[first[k]], group)
             /\ \A n \in 1..Len(aggs) : CountsRows(aggs[n]) => e[k][w + n] = count(first[k])
  <2>1. good(e[k], first[k])
    BY <1>5, <1>6, <1>7
  <2> HIDE DEF w, count
  <2> QED
    BY <2>1 DEF good
<1> HIDE DEF count
<1>9. Wide(e, w + Len(aggs))
  <2> HIDE DEF w
  <2> QED
    BY <1>7, <1>8 DEF Wide
<1>10. first \in [DOMAIN e -> DOMAIN rs]
  <2>1. first \in [1..Len(first) -> S]
    BY <1>1
  <2> QED
    BY <1>0, <1>3, <1>7, <2>1
<1>11. \A i \in DOMAIN rs : \E k \in DOMAIN e : i \in GroupOf(rs, group, first[k])
  <2> SUFFICES ASSUME NEW i \in DOMAIN rs PROVE \E k \in DOMAIN e : i \in GroupOf(rs, group, first[k])
    OBVIOUS
  <2>1. PICK j \in S : i \in GroupOf(rs, group, j)
    BY <1>0, <1>3
  <2>2. PICK k \in 1..Len(first) : first[k] = j
    BY <1>1
  <2> QED
    BY <1>7, <2>1, <2>2
<1>12. \A j, k \in DOMAIN e : j # k => GroupOf(rs, group, first[j]) \cap GroupOf(rs, group, first[k]) = {}
  BY <1>1, <1>3, <1>4, <1>7
<1>13. \A k \in DOMAIN e :
         /\ SubSeq(e[k], 1, w) = GroupKey(rs[first[k]], group)
         /\ \A n \in DOMAIN aggs : CountsRows(aggs[n]) => e[k][w + n] = Integer(Cardinality(GroupOf(rs, group, first[k])))
  <2> HIDE DEF w
  <2> QED
    BY <1>0, <1>7, <1>8 DEF count
<1>14. Grouped(e, rs, group, aggs)
  BY <1>10, <1>11, <1>12, <1>13, Zenon DEF Grouped
<1> QED
  BY <1>9, <1>14 DEF e, w

(* A sort of groups that does not panic compares columns they have.        *)
LEMMA GroupsCompare ==
  ASSUME NEW s, NEW n \in Nat, Wide(s, n), NEW order \in Seq([col : STRING, asc : BOOLEAN]),
         ~ReadsMissing(s, order)
  PROVE  \A j, k \in 1..Len(s) : j # k => Comparable(s[j], s[k], order)
<1>0. DOMAIN s = 1..Len(s) /\ Len(s) \in Nat /\ DOMAIN order = 1..Len(order) /\ Len(order) \in Nat
  BY DEF Wide, Listed
<1> SUFFICES ASSUME NEW j \in 1..Len(s), NEW k \in 1..Len(s), j # k,
                    NEW i \in 1..Len(order),
                    \A m \in 1..i - 1 : compare_values(At(s[j], order, m), At(s[k], order, m)) = 0
             PROVE  IsCell(At(s[j], order, i)) /\ IsCell(At(s[k], order, i))
  BY <1>0 DEF Comparable
<1> DEFINE place(m) == SortPosition(order[m].col)
           Beyond == {m \in 1..i : place(m) > n}
<1>1. \A m \in 1..Len(order) : place(m) \in 1..2
  BY PositionIs
<1>2. Len(s[j]) = n /\ Len(s[k]) = n /\ \A m \in 1..n : IsCell(s[j][m]) /\ IsCell(s[k][m])
  BY DEF Wide
<1>3. ASSUME NEW m \in 1..i - 1 PROVE CompareBy(s[j], s[k], <<order[m]>>) = 0
  <2>1. compare_values(s[j][place(m)], s[k][place(m)]) = 0
    BY <1>3 DEF At
  <2>2. DOMAIN <<order[m]>> = {1} /\ <<order[m]>>[1] = order[m]
    OBVIOUS
  <2>3. {x \in DOMAIN <<order[m]>> : compare_values(s[j][SortPosition(<<order[m]>>[x].col)],
                                                    s[k][SortPosition(<<order[m]>>[x].col)]) # 0} = {}
    BY <2>1, <2>2
  <2> QED
    BY <2>3, Zenon DEF CompareBy, CompareItem
<1>4. Beyond = {}
  <2> SUFFICES ASSUME Beyond # {} PROVE FALSE
    OBVIOUS
  <2>1. PICK m \in Beyond : \A x \in Beyond : m <= x
    <3>1. Beyond \subseteq Nat
      OBVIOUS
    <3> HIDE DEF Beyond
    <3> QED
      BY <3>1, LeastNumber
  <2>2. m \in DOMAIN order /\ m \in 1..i /\ place(m) > Len(s[j])
    BY <1>0, <1>2
  <2>3. ASSUME NEW x \in 1..m - 1 PROVE place(x) <= Len(s[j]) /\ CompareBy(s[j], s[k], <<order[x]>>) = 0
    <3>1. x \in 1..i /\ x \in 1..i - 1 /\ x \in 1..Len(order) /\ ~(m <= x)
      BY <1>0, <2>2
    <3>2. x \notin Beyond
      BY <2>1, <3>1
    <3>3. ~(place(x) > n) /\ place(x) \in 1..2
      BY <1>1, <3>1, <3>2
    <3>4. place(x) <= n
      <4> HIDE DEF place
      <4> QED
        BY <3>3
    <3> QED
      BY <1>2, <1>3, <3>1, <3>4
  <2> QED
    BY <1>0, <2>2, <2>3 DEF ReadsMissing
<1>5. place(i) \in 1..n
  <2>1. i \notin Beyond /\ i \in 1..i /\ place(i) \in 1..2
    BY <1>0, <1>1, <1>4
  <2>2. ~(place(i) > n)
    BY <2>1
  <2> HIDE DEF place
  <2> QED
    BY <2>1, <2>2
<1>6. At(s[j], order, i) = s[j][place(i)] /\ At(s[k], order, i) = s[k][place(i)]
  BY DEF At
<1> HIDE DEF place
<1> QED
  BY <1>2, <1>5, <1>6

(* Sorting keeps the width of the rows, and the groups.                    *)
LEMMA SortKeeps ==
  ASSUME NEW s, NEW n \in Nat, Wide(s, n), NEW order \in Seq([col : STRING, asc : BOOLEAN]),
         ~ReadsMissing(s, order), ~(Len(s) > 1 /\ Contradictory(s, order)), NEW t, t = Sorted(s, order)
  PROVE  /\ Wide(t, n) /\ Len(t) = Len(s)
         /\ \A rs, aggs, group : Grouped(s, rs, group, aggs) => Grouped(t, rs, group, aggs)
<1>1. PICK T : s \in Seq(T)
  BY DEF Wide, Listed
<1>2. PICK at : Permutes(at, Len(s)) /\ t = [m \in 1..Len(s) |-> s[at[m]]]
  BY <1>1, GroupsCompare, SortPermutes
<1>3. Len(s) \in Nat
  BY <1>1
<1>4. Listed(t) /\ Len(t) = Len(s)
  BY <1>1, SortedListed DEF Listed
<1>5. /\ \A m \in 1..Len(s) : at[m] \in 1..Len(s) /\ t[m] = s[at[m]]
      /\ \A i, j \in 1..Len(s) : at[i] = at[j] => i = j
      /\ \A i \in 1..Len(s) : \E j \in 1..Len(s) : at[j] = i
  BY <1>2 DEF Permutes
<1>6. Wide(t, n)
  <2>1. ASSUME NEW m \in 1..Len(t) PROVE Len(t[m]) = n /\ \A i \in 1..n : IsCell(t[m][i])
    <3>1. t[m] = s[at[m]] /\ at[m] \in 1..Len(s)
      BY <1>4, <1>5
    <3>2. Len(s[at[m]]) = n /\ \A i \in 1..n : IsCell(s[at[m]][i])
      BY <3>1 DEF Wide
    <3> QED
      BY <3>1, <3>2
  <2> QED
    BY <1>4, <2>1 DEF Wide
<1>7. ASSUME NEW rs, NEW aggs, NEW group, Grouped(s, rs, group, aggs) PROVE Grouped(t, rs, group, aggs)
  <2> DEFINE w == Len(GroupBy(group))  of(j) == GroupOf(rs, group, j)
             tells(r, j) == /\ SubSeq(r, 1, w) = GroupKey(rs[j], group)
                            /\ \A m \in DOMAIN aggs : CountsRows(aggs[m]) => r[w + m] = Integer(Cardinality(of(j)))
  <2>1. PICK first \in [DOMAIN s -> DOMAIN rs] :
          /\ \A i \in DOMAIN rs : \E k \in DOMAIN s : i \in of(first[k])
          /\ \A j, k \in DOMAIN s : j # k => of(first[j]) \cap of(first[k]) = {}
          /\ \A k \in DOMAIN s : tells(s[k], first[k])
    BY <1>7, Zenon DEF Grouped
  <2> DEFINE next == [k \in DOMAIN t |-> first[at[k]]]
  <2>2. DOMAIN s = 1..Len(s) /\ DOMAIN t = 1..Len(s)
    BY <1>1, <1>4 DEF Listed
  <2>3. next \in [DOMAIN t -> DOMAIN rs] /\ \A k \in DOMAIN t : next[k] = first[at[k]] /\ t[k] = s[at[k]] /\ at[k] \in DOMAIN s
    BY <1>5, <2>2
  <2> HIDE DEF of, tells, next
  <2>4. \A i \in DOMAIN rs : \E k \in DOMAIN t : i \in of(next[k])
    <3> SUFFICES ASSUME NEW i \in DOMAIN rs PROVE \E k \in DOMAIN t : i \in of(next[k])
      OBVIOUS
    <3>1. PICK k \in DOMAIN s : i \in of(first[k])
      BY <2>1
    <3>2. PICK j \in DOMAIN t : at[j] = k
      BY <1>5, <2>2
    <3> QED
      BY <2>3, <3>1, <3>2
  <2>5. \A j, k \in DOMAIN t : j # k => of(next[j]) \cap of(next[k]) = {}
    <3> SUFFICES ASSUME NEW j \in DOMAIN t, NEW k \in DOMAIN t, j # k PROVE of(next[j]) \cap of(next[k]) = {}
      OBVIOUS
    <3>1. at[j] # at[k] /\ at[j] \in DOMAIN s /\ at[k] \in DOMAIN s
      BY <1>5, <2>2, <2>3
    <3> QED
      BY <2>1, <2>3, <3>1
  <2>6. \A k \in DOMAIN t : tells(t[k], next[k])
    BY <2>1, <2>3
  <2> QED
    BY <2>3, <2>4, <2>5, <2>6, Zenon DEF Grouped, tells, of
<1> QED
  BY <1>4, <1>6, <1>7

-----------------------------------------------------------------------------
(* What a stage keeps of the rows.                                         *)

(* The rows of t are some of s, as often as they may be.                   *)
Taken(t, s) == Listed(t) /\ \A k \in 1..Len(t) : \E j \in 1..Len(s) : t[k] = s[j]

(* A part of a list is a list.                                             *)
LEMMA PartListed ==
  ASSUME NEW T, NEW s \in Seq(T), NEW a \in Nat, NEW b \in Nat, a >= 1, b <= Len(s), NEW t, t = SubSeq(s, a, b)
  PROVE  /\ t \in Seq(T) /\ Len(t) \in Nat /\ Taken(t, s)
<1>1. t \in Seq(T) /\ Len(t) \in Nat /\ Len(t) <= Len(s)
      /\ \A k \in 1..Len(t) : k + a - 1 \in 1..Len(s) /\ t[k] = s[k + a - 1]
  OBVIOUS
<1> QED
  BY <1>1 DEF Taken, Listed

(* LIMIT takes rows of what it cuts.                                       *)
LEMMA CutTakes ==
  ASSUME NEW s, Listed(s), NEW node, node.limit \in Nat \cup {-1}, node.offset \in Nat
  PROVE  Taken(Cut(s, node), s)
<1>1. PICK T : s \in Seq(T)
  BY DEF Listed
<1> DEFINE rest == SubSeq(s, node.offset + 1, Len(s))  m == Smallest(node.limit, Len(rest))
           page == SubSeq(rest, 1, m)
<1>2. Len(s) \in Nat /\ node.offset + 1 \in Nat /\ node.offset + 1 >= 1
  BY <1>1
<1>3. rest \in Seq(T) /\ Len(rest) \in Nat /\ Taken(rest, s)
  <2> DEFINE a == node.offset + 1  b == Len(s)
  <2>1. a \in Nat /\ a >= 1 /\ b \in Nat /\ b <= Len(s) /\ rest = SubSeq(s, a, b)
    BY <1>2
  <2> HIDE DEF a, b, rest
  <2> QED
    BY ONLY <1>1, <2>1, PartListed
<1>4. CASE node.limit = -1
  <2>1. Cut(s, node) = rest
    BY <1>4 DEF Cut
  <2> QED
    BY <1>3, <2>1
<1>5. CASE node.limit # -1
  <2>1. Cut(s, node) = page
    BY <1>5 DEF Cut
  <2> HIDE DEF rest
  <2>2. m \in Nat /\ m <= Len(rest)
    BY <1>3, <1>5 DEF Smallest
  <2> HIDE DEF m
  <2>3. page \in Seq(T) /\ Len(page) \in Nat /\ Taken(page, rest)
    <3> DEFINE a == 1
    <3>1. a \in Nat /\ a >= 1 /\ page = SubSeq(rest, a, m)
      OBVIOUS
    <3>2. rest \in Seq(T)
      BY <1>3
    <3> HIDE DEF page, a
    <3> QED
      BY ONLY <2>2, <3>1, <3>2, PartListed
  <2> HIDE DEF page
  <2>4. Taken(page, s)
    <3> SUFFICES ASSUME NEW k \in 1..Len(page) PROVE \E j \in 1..Len(s) : page[k] = s[j]
      BY <2>3 DEF Taken
    <3>1. PICK i \in 1..Len(rest) : page[k] = rest[i]
      BY <2>3 DEF Taken
    <3> QED
      BY <1>3, <3>1 DEF Taken
  <2> QED
    BY <2>1, <2>4
<1> QED
  BY <1>4, <1>5

(* A filter takes rows of what it filters.                                 *)
LEMMA AmongTakes ==
  ASSUME NEW s, Listed(s), NEW S
  PROVE  Taken(Among(s, S), s)
<1>1. PICK T : s \in Seq(T)
  BY DEF Listed
<1>2. LET a == Among(s, S) IN a \in Seq(T) /\ {a[k] : k \in 1..Len(a)} = {s[i] : i \in 1..Len(s)} \cap S
  BY ONLY <1>1, AmongElements
<1> DEFINE a == Among(s, S)
<1>3. a \in Seq(T) /\ {a[k] : k \in 1..Len(a)} = {s[i] : i \in 1..Len(s)} \cap S
  BY <1>2
<1> HIDE DEF a
<1>4. ASSUME NEW k \in 1..Len(a) PROVE \E j \in 1..Len(s) : a[k] = s[j]
  <2>1. a[k] \in {s[i] : i \in 1..Len(s)} \cap S
    BY <1>3
  <2> QED
    BY <2>1
<1>5. Listed(a)
  BY <1>3 DEF Listed
<1> QED
  BY <1>4, <1>5 DEF Taken, a

(* What is taken of rows of one width has that width.                      *)
LEMMA TakenWide ==
  ASSUME NEW s, NEW t, Taken(t, s), NEW n
  PROVE  /\ Wide(s, n) => Wide(t, n)
         /\ (\A k \in 1..Len(s) : Len(s[k]) = n) => \A k \in 1..Len(t) : Len(t[k]) = n
<1>1. ASSUME Wide(s, n), NEW k \in 1..Len(t) PROVE Len(t[k]) = n /\ \A i \in 1..n : IsCell(t[k][i])
  <2>1. PICK j \in 1..Len(s) : t[k] = s[j]
    BY DEF Taken
  <2>2. Len(s[j]) = n /\ \A i \in 1..n : IsCell(s[j][i])
    BY <1>1 DEF Wide
  <2> QED
    BY <2>1, <2>2
<1>2. ASSUME \A k \in 1..Len(s) : Len(s[k]) = n, NEW k \in 1..Len(t) PROVE Len(t[k]) = n
  <2>1. PICK j \in 1..Len(s) : t[k] = s[j]
    BY DEF Taken
  <2> QED
    BY <1>2, <2>1
<1>3. Listed(t)
  BY DEF Taken
<1> QED
  BY <1>1, <1>2, <1>3 DEF Wide

(* A filter and a sort keep the width of the rows.                         *)
LEMMA ThenWide ==
  ASSUME NEW r, NEW n \in Nat, Wide(r.rows, n), NEW p, NEW order \in Seq([col : STRING, asc : BOOLEAN])
  PROVE  /\ Wide(Then(r, [node |-> "Having", predicate |-> p]).rows, n)
         /\ Wide(Then(r, [node |-> "Sort", order |-> order]).rows, n)
<1> DEFINE s == r.rows  S == {row \in ToSet(s) : evaluate_predicate(p, row)}
           h == NodeResult([node |-> "Having", predicate |-> p], s)
           o == NodeResult([node |-> "Sort", order |-> order], s)
<1>1. Wide(<<>>, n)
  BY <<>> \in Seq({}) DEF Wide, Listed
<1>2. Listed(s)
  BY DEF Wide
<1>3. h = Panic \/ h = Rows(Among(s, S))
  BY NodesAre
<1>4. o = Panic \/ o = Unspecified
      \/ (o = Rows(Sorted(s, order)) /\ ~ReadsMissing(s, order) /\ ~(Len(s) > 1 /\ Contradictory(s, order)))
  BY NodesAre
<1> HIDE DEF S, h, o
<1>5. Wide(Among(s, S), n)
  <2>1. Taken(Among(s, S), s)
    BY <1>2, AmongTakes
  <2> QED
    BY <2>1, TakenWide
<1>6. Wide(h.rows, n)
  <2> HIDE DEF s
  <2> QED
    BY <1>1, <1>3, <1>5, EndsAre
<1>7. Wide(o.rows, n)
  <2>1. CASE o = Panic \/ o = Unspecified
    BY <1>1, <2>1, EndsAre
  <2>2. CASE o = Rows(Sorted(s, order)) /\ ~ReadsMissing(s, order) /\ ~(Len(s) > 1 /\ Contradictory(s, order))
    <3>1. Wide(Sorted(s, order), n)
      <4> HIDE DEF s
      <4>1. Wide(s, n)
        BY DEF s
      <4> QED
        BY <2>2, <4>1, SortKeeps
    <3> QED
      BY <2>2, <3>1, EndsAre
  <2> QED
    BY <1>4, <2>1, <2>2
<1> QED
  BY <1>6, <1>7 DEF Then, h, o

-----------------------------------------------------------------------------
(* The width of an answer.                                                 *)

(* Grouping does not panic.                                                *)
LEMMA AggregateNode ==
  ASSUME NEW rs, NEW aggs, NEW group
  PROVE  NodeResult([node |-> "Aggregate", aggregates |-> aggs, group |-> group], rs) = Rows(execute_aggregate(rs, aggs, group))
BY DEF NodeResult

(* Nor does LIMIT.                                                         *)
LEMMA LimitNode ==
  ASSUME NEW rs, NEW l, NEW f
  PROVE  LET node == [node |-> "Limit", limit |-> l, offset |-> f] IN NodeResult(node, rs) = Rows(Cut(rs, node))
BY NodesAre

(* What a SELECT with groups or functions computes of the rows it finds.   *)
LEMMA NoRowIs ==
  ASSUME NEW aggs \in Seq(Item), NEW group
  PROVE  Wide(execute_aggregate(<<>>, aggs, group), Len(aggs))
<1> DEFINE cell(k) == IF aggs[k].fn = "COUNT" THEN Integer(0) ELSE Null
           x == [k \in 1..Len(aggs) |-> cell(k)]
           e == execute_aggregate(<<>>, aggs, group)
<1>1. DOMAIN aggs = 1..Len(aggs) /\ Len(aggs) \in Nat
  OBVIOUS
<1>2. e = <<x>>
  BY <1>1 DEF execute_aggregate
<1>3. \A k : IsCell(cell(k))
  <2>1. IsCell(Null)
    BY NullIsCell
  <2>2. <<0>> \in Seq(Int) /\ <<0>>[1] = 0
    OBVIOUS
  <2>3. IsCell(Integer(0))
    BY <2>2 DEF IsCell, Integer, Val, Num
  <2> QED
    BY <2>1, <2>3
<1> HIDE DEF cell, e
<1>4. Len(x) = Len(aggs) /\ \A i \in 1..Len(aggs) : IsCell(x[i])
  BY <1>1, <1>3
<1> HIDE DEF x
<1>5. <<x>> \in Seq({x}) /\ Len(<<x>>) = 1 /\ <<x>>[1] = x
  OBVIOUS
<1>6. Wide(<<x>>, Len(aggs))
  <2>1. Listed(<<x>>)
    BY <1>5 DEF Listed
  <2> QED
    BY <1>4, <1>5, <2>1 DEF Wide
<1> QED
  BY <1>2, <1>6 DEF e

(* What HAVING and ORDER BY leave of the groups is as wide as they are.    *)
LEMMA GroupsWide ==
  ASSUME Typed, NEW q \in Select, NEW c, c = convert_select(q), Aggregated(c)
  PROVE  LET r == Ordered(c)  n == Len(c.aggregates)  w == Len(GroupBy(q.group)) IN
         \/ Found(c).rows = <<>> /\ Wide(r.rows, n)
         \/ Found(c).rows # <<>> /\ Wide(r.rows, w + n)
<1> DEFINE f == Found(c)  g == Groups(c)  k == Kept(c)  r == Ordered(c)
           n == Len(c.aggregates)  w == Len(GroupBy(q.group))
           m == IF f.rows = <<>> THEN n ELSE w + n
<1>1. /\ c.where = convert_expr_to_where(q.where) /\ q.where \in Condition
      /\ c.group = q.group /\ q.group \in Seq(STRING) /\ c.order \in Seq([col : STRING, asc : BOOLEAN])
      /\ c.aggregates \in Seq(Item) /\ n \in Nat /\ \A i \in 1..n : c.aggregates[i].is = "fn"
  BY SelectIs
<1>2. w \in Nat
  BY <1>1, GroupByIs
<1>3. \/ f.end = "rows" /\ Rowed(f.rows)
      \/ f.end = "panic" /\ f.rows = <<>>
  BY <1>1, SourceFinds DEF Found
<1> HIDE DEF n, w
<1>4. m \in Nat
  BY <1>1, <1>2
<1>5. Wide(<<>>, m)
  BY <<>> \in Seq({}) DEF Wide, Listed
<1>6. g = Then(f, [node |-> "Aggregate", aggregates |-> c.aggregates, group |-> c.group])
  BY DEF Groups
<1> HIDE DEF f, g
<1>7. Wide(g.rows, m)
  <2>1. CASE f.end # "rows"
    <3>1. g.rows = <<>>
      BY <1>3, <1>6, <2>1 DEF Then
    <3> QED
      BY <1>5, <3>1
  <2>2. CASE f.end = "rows"
    <3>1. g.rows = execute_aggregate(f.rows, c.aggregates, c.group)
      <4>1. g = NodeResult([node |-> "Aggregate", aggregates |-> c.aggregates, group |-> c.group], f.rows)
        BY <1>6, <2>2 DEF Then
      <4>2. g = Rows(execute_aggregate(f.rows, c.aggregates, c.group))
        <5>1. NodeResult([node |-> "Aggregate", aggregates |-> c.aggregates, group |-> c.group], f.rows)
                = Rows(execute_aggregate(f.rows, c.aggregates, c.group))
          BY AggregateNode
        <5> QED
          BY <4>1, <5>1, Zenon
      <4> QED
        BY <4>2, EndsAre
    <3>2. CASE f.rows = <<>>
      BY <1>1, <3>1, <3>2, NoRowIs DEF n
    <3>3. CASE f.rows # <<>>
      <4>1. Rowed(f.rows)
        BY <1>3, <2>2
      <4>2. Wide(execute_aggregate(f.rows, c.aggregates, c.group), Len(GroupBy(c.group)) + Len(c.aggregates))
        BY <1>1, <3>3, <4>1, GroupsAre DEF n
      <4> QED
        BY <1>1, <3>1, <3>3, <4>2 DEF n, w
    <3> QED
      BY <3>2, <3>3
  <2> QED
    BY <2>1, <2>2
<1>8. k = IF c.having # <<>> THEN Then(g, [node |-> "Having", predicate |-> c.having]) ELSE g
  BY DEF Kept, g
<1>9. r = IF c.order # <<>> THEN Then(k, [node |-> "Sort", order |-> c.order]) ELSE k
  BY DEF Ordered, k
<1> HIDE DEF k, r, m
<1>10. Wide(k.rows, m)
  BY <1>1, <1>4, <1>7, <1>8, ThenWide
<1>11. Wide(r.rows, m)
  BY <1>1, <1>4, <1>9, <1>10, ThenWide
<1> QED
  BY <1>11 DEF m, r, f, n, w

(* The length of two sequences in one.                                     *)
LEMMA LenJoined ==
  ASSUME NEW S, NEW T, NEW a \in Seq(S), NEW b \in Seq(T)
  PROVE  Len(a \o b) = Len(a) + Len(b)
OBVIOUS

(* What LIMIT leaves is as wide as what it cuts.                           *)
LEMMA AnswerWide ==
  ASSUME Typed, NEW q \in Select, NEW c, c = convert_select(q), NEW n,
         \A k \in 1..Len(Projected(c).rows) : Len(Projected(c).rows[k]) = n
  PROVE  \A k \in DOMAIN execute_select(q).rows : Len(execute_select(q).rows[k]) = n
<1> DEFINE p == Projected(c)  a == execute_select(q)  l == [node |-> "Limit", limit |-> c.limit, offset |-> c.offset]
<1>1. c.limit \in Nat \cup {-1} /\ c.offset \in Nat
  BY SelectIs
<1>2. a = IF c.limit # -1 \/ c.offset # 0 THEN Then(p, l) ELSE p
  BY SelectRuns DEF execute_select
<1>3. Listed(p.rows)
  BY WholeListed
<1>4. l.limit = c.limit /\ l.offset = c.offset
  OBVIOUS
<1>5. NodeResult(l, p.rows) = Rows(Cut(p.rows, l))
  BY LimitNode
<1> HIDE DEF p, a, l
<1>6. Taken(p.rows, p.rows)
  BY <1>3 DEF Taken
<1>7. Taken(Cut(p.rows, l), p.rows)
  BY <1>1, <1>3, <1>4, CutTakes
<1>8. a.rows = p.rows \/ a.rows = Cut(p.rows, l)
  BY <1>2, <1>5, EndsAre DEF Then
<1>9. Taken(a.rows, p.rows)
  BY <1>6, <1>7, <1>8
<1>10. \A k \in 1..Len(p.rows) : Len(p.rows[k]) = n
  BY DEF p
<1>11. \A k \in 1..Len(a.rows) : Len(a.rows[k]) = n
  BY <1>9, <1>10, TakenWide
<1>12. DOMAIN a.rows = 1..Len(a.rows)
  BY <1>9 DEF Taken, Listed
<1> QED
  BY <1>11, <1>12 DEF a

(* An answer that is rows comes of stages that gave rows.                  *)
LEMMA OrderedEnds ==
  ASSUME Typed, NEW q \in Select, NEW c, c = convert_select(q), ~Aggregated(c), Ordered(c).end # "rows"
  PROVE  Ordered(c).rows = <<>>
<1> DEFINE k == Kept(c)  node == [node |-> "Sort", order |-> c.order]  r == Ordered(c)
<1>1. k.end # "rows" => k.rows = <<>>
  BY KeptEnds
<1>2. r = IF c.order # <<>> THEN Then(k, node) ELSE k
  BY DEF Ordered
<1>3. LET x == NodeResult(node, k.rows) IN x.end # "rows" => x.rows = <<>>
  <2>1. \/ NodeResult(node, k.rows) \in {Panic, Unspecified}
        \/ NodeResult(node, k.rows) = Rows(Sorted(k.rows, c.order))
    BY NodesAre
  <2> HIDE DEF node, k
  <2> QED
    BY <2>1, EndsAre
<1> HIDE DEF k, node, r
<1>4. r.end # "rows" => r.rows = <<>>
  BY <1>1, <1>2, <1>3 DEF Then
<1> QED
  BY <1>4 DEF r

(* What ORDER BY gives is a list.                                          *)
LEMMA OrderedListed ==
  ASSUME Typed, NEW q \in Select, NEW c, c = convert_select(q)
  PROVE  Listed(Ordered(c).rows)
<1>1. c.where = convert_expr_to_where(q.where) /\ q.where \in Condition
  BY SelectIs
<1>2. Found(c).rows = <<>> \/ Rowed(Found(c).rows)
  BY <1>1, SourceFinds DEF Found
<1>3. Listed(Found(c).rows)
  BY <1>2, <<>> \in Seq({}) DEF Listed, Rowed
<1>4. Listed(Groups(c).rows)
  BY <1>3, ThenListed DEF Groups
<1>5. Listed(Kept(c).rows)
  BY <1>4, ThenListed DEF Kept
<1> QED
  BY <1>5, ThenListed DEF Ordered

(* HeaderFits holds of every table.                                        *)
LEMMA HeadersFit ==
  ASSUME Typed
  PROVE  HeaderFits
<1> SUFFICES ASSUME NEW q \in Select
             PROVE  \/ \A k \in DOMAIN execute_select(q).rows :
                         Len(execute_select(q).rows[k]) = Len(extract_columns(convert_select(q)))
                    \/ GroupBy(q.group) # q.group
                    \/ q.group # <<>> /\ execute_select([All EXCEPT !.where = q.where]).rows = <<>>
  BY SelectsAssumption DEF HeaderFits
<1> DEFINE c == convert_select(q)  header == extract_columns(c)  w == Len(GroupBy(q.group))  n == Len(c.aggregates)
<1>1. /\ c.where = convert_expr_to_where(q.where) /\ q.where \in Condition /\ c.group = q.group
      /\ q.group \in Seq(STRING) /\ n \in Nat /\ DOMAIN c.aggregates = 1..n /\ q.items \in Seq(Item)
      /\ c.items = [i \in DOMAIN q.items |-> Display(q.items[i])]
  BY SelectIs
<1>2. CASE Aggregated(c)
  <2> DEFINE names == [k \in 1..n |-> Display(c.aggregates[k])]
             N == {Display(c.aggregates[k]) : k \in 1..n}
  <2>1. header = q.group \o names
    BY <1>1, <1>2 DEF extract_columns
  <2>2. names \in Seq(N) /\ Len(names) = n
    BY <1>1
  <2> HIDE DEF names, N, header, n
  <2>3. Len(header) = Len(q.group) + n
    <3> DEFINE g == q.group
    <3>1. g \in Seq(STRING) /\ names \in Seq(N) /\ header = g \o names
      BY <1>1, <2>1, <2>2
    <3> HIDE DEF g
    <3>2. Len(header) = Len(g) + Len(names)
      BY ONLY <3>1, LenJoined
    <3> QED
      BY <2>2, <3>2 DEF g
  <2>4. Projected(c) = Ordered(c)
    BY <1>2 DEF Projected
  <2>5. \/ Found(c).rows = <<>> /\ Wide(Ordered(c).rows, n)
        \/ Found(c).rows # <<>> /\ Wide(Ordered(c).rows, w + n)
    BY <1>2, GroupsWide DEF n
  <2>6. Found(c).rows = execute_select([All EXCEPT !.where = q.where]).rows
    BY <1>1, AllRuns DEF Found, AllWhere
  <2>7. CASE Found(c).rows = <<>> /\ q.group = <<>>
    <3>1. Len(header) = n
      BY <1>1, <2>3, <2>7 DEF n
    <3>2. \A k \in 1..Len(Projected(c).rows) : Len(Projected(c).rows[k]) = Len(header)
      BY <2>4, <2>5, <2>7, <3>1 DEF Wide
    <3> HIDE DEF c
    <3>3. \A k \in DOMAIN execute_select(q).rows : Len(execute_select(q).rows[k]) = Len(header)
      BY <3>2, AnswerWide DEF c
    <3> QED
      BY <3>3 DEF header, c
  <2>8. CASE Found(c).rows # <<>> /\ GroupBy(q.group) = q.group
    <3>2. \A k \in 1..Len(Projected(c).rows) : Len(Projected(c).rows[k]) = Len(header)
      BY <2>3, <2>4, <2>5, <2>8 DEF Wide
    <3> HIDE DEF c
    <3>3. \A k \in DOMAIN execute_select(q).rows : Len(execute_select(q).rows[k]) = Len(header)
      BY <3>2, AnswerWide DEF c
    <3> QED
      BY <3>3 DEF header, c
  <2> QED
    BY <2>6, <2>7, <2>8
<1>3. CASE ~Aggregated(c)
  <2> DEFINE o == Ordered(c)  columns == Wanted(c.items)
             node == [node |-> "Projection", columns |-> columns]
             line(s, k) == [i \in DOMAIN columns |-> s[k][SortPosition(columns[i])]]
             lines(s) == [k \in DOMAIN s |-> line(s, k)]
  <2>1. header = columns
    BY <1>3 DEF extract_columns
  <2>2. Projected(c) = Then(o, node)
    BY <1>3 DEF Projected
  <2>3. \A s : NodeResult(node, s) = Rows(lines(s))
    BY NodesAre
  <2>4. DOMAIN columns = 1..Len(columns) /\ Len(columns) \in Nat
    <3>1. DOMAIN c.items = 1..Len(q.items) /\ Len(q.items) \in Nat /\ Len(c.items) = Len(q.items)
      BY <1>1
    <3> HIDE DEF c
    <3>2. Columns = <<"id", "c">>
      BY DEF Columns
    <3>3. DOMAIN Columns = 1..2 /\ Len(Columns) = 2
      BY <3>2
    <3> QED
      BY <3>1, <3>3 DEF Wanted
  <2> HIDE DEF columns, c, header
  <2>5. \A s, k : Len(line(s, k)) = Len(columns)
    BY <2>4
  <2> HIDE DEF line, node
  <2>6. ASSUME NEW k \in 1..Len(Projected(c).rows) PROVE Len(Projected(c).rows[k]) = Len(header)
    <3>1. o.end # "rows" => o.rows = <<>>
      BY <1>3, OrderedEnds DEF c, o
    <3>2. Listed(o.rows)
      BY OrderedListed DEF c, o
    <3> HIDE DEF o
    <3>3. CASE o.end # "rows"
      <4>1. Projected(c).rows = <<>>
        BY <2>2, <3>1, <3>3 DEF Then
      <4> QED
        BY <4>1
    <3>4. CASE o.end = "rows"
      <4>1. Projected(c).rows = lines(o.rows)
        <5> HIDE DEF lines
        <5> QED
          BY <2>2, <2>3, <3>4, EndsAre DEF Then
      <4>2. DOMAIN o.rows = 1..Len(o.rows) /\ Len(o.rows) \in Nat
        BY <3>2 DEF Listed
      <4>3. lines(o.rows) = [i \in 1..Len(o.rows) |-> line(o.rows, i)]
        BY <4>2
      <4>4. k \in 1..Len(o.rows) /\ lines(o.rows)[k] = line(o.rows, k)
        BY <4>1, <4>2, <4>3
      <4> HIDE DEF lines
      <4> QED
        BY <2>1, <2>5, <4>1, <4>4
    <3> QED
      BY <3>3, <3>4
  <2>7. \A k \in DOMAIN execute_select(q).rows : Len(execute_select(q).rows[k]) = Len(header)
    BY <2>6, AnswerWide DEF c
  <2> QED
    BY <2>7 DEF header, c
<1> QED
  BY <1>2, <1>3

-----------------------------------------------------------------------------
(* The groups of an answer.                                                *)

(* A sort that gives rows gives them sorted.                               *)
LEMMA SortNode ==
  ASSUME NEW rs, NEW order, NEW x, x = NodeResult([node |-> "Sort", order |-> order], rs), x.end = "rows"
  PROVE  ~ReadsMissing(rs, order) /\ ~(Len(rs) > 1 /\ Contradictory(rs, order)) /\ x = Rows(Sorted(rs, order))
<1>1. x = IF ReadsMissing(rs, order) THEN Panic
          ELSE IF Len(rs) > 1 /\ Contradictory(rs, order) THEN Unspecified ELSE Rows(Sorted(rs, order))
  BY DEF NodeResult
<1> QED
  BY <1>1, EndsAre

(* The groups of the rows found are the answer, in some order.             *)
LEMMA AnswerPartitions ==
  ASSUME Typed, NEW q \in Select, NEW c, c = convert_select(q), q.group # <<>>, q.having = <<>>,
         q.limit = -1, q.offset = 0, execute_select(q).end = "rows", Found(c).rows # <<>>
  PROVE  /\ Listed(execute_select(q).rows) /\ Rowed(Found(c).rows)
         /\ Grouped(execute_select(q).rows, Found(c).rows, q.group, c.aggregates)
<1> DEFINE f == Found(c)  g == Groups(c)  r == Ordered(c)  aggs == c.aggregates  n == Len(GroupBy(q.group)) + Len(aggs)
           sort == [node |-> "Sort", order |-> c.order]
<1>1. /\ c.where = convert_expr_to_where(q.where) /\ q.where \in Condition /\ c.having = convert_expr_to_where(q.having)
      /\ q.having \in Condition /\ c.limit = q.limit /\ c.offset = q.offset /\ Aggregated(c)
      /\ c.group = q.group /\ q.group \in Seq(STRING) /\ c.order \in Seq([col : STRING, asc : BOOLEAN])
      /\ aggs \in Seq(Item) /\ Len(aggs) \in Nat /\ \A i \in 1..Len(aggs) : aggs[i].is = "fn"
  BY SelectIs
<1>2. c.having = <<>>
  BY <1>1, ConvertedIs
<1>3. execute_select(q) = r
  <2>1. execute_select(q) = Projected(c)
    BY <1>1, SelectRuns DEF execute_select
  <2> QED
    BY <1>1, <2>1 DEF Projected
<1>4. Kept(c) = g
  BY <1>2 DEF Kept
<1>5. r = IF c.order # <<>> THEN Then(g, sort) ELSE g
  BY <1>4 DEF Ordered
<1>6. f.end = "rows" /\ Rowed(f.rows)
  BY <1>1, SourceFinds DEF Found
<1>7. g = Rows(execute_aggregate(f.rows, aggs, q.group))
  <2>1. g = Then(f, [node |-> "Aggregate", aggregates |-> aggs, group |-> q.group])
    BY <1>1 DEF Groups
  <2> HIDE DEF f, g, aggs
  <2>2. g = NodeResult([node |-> "Aggregate", aggregates |-> aggs, group |-> q.group], f.rows)
    BY <1>6, <2>1 DEF Then
  <2> QED
    BY <2>2, AggregateNode
<1>8. Len(GroupBy(q.group)) \in Nat
  BY <1>1, GroupByIs
<1>9. n \in Nat
  <2> DEFINE a == Len(GroupBy(q.group))  b == Len(aggs)
  <2>1. a \in Nat /\ b \in Nat
    BY <1>1, <1>8
  <2> HIDE DEF a, b
  <2>2. a + b \in Nat
    BY <2>1
  <2> QED
    BY <2>2 DEF a, b
<1> HIDE DEF f, g, r, aggs, sort
<1>10. Wide(g.rows, n) /\ Grouped(g.rows, f.rows, q.group, aggs)
  <2>1. Rowed(f.rows) /\ f.rows # <<>>
    BY <1>6 DEF f
  <2>2. g.rows = execute_aggregate(f.rows, aggs, q.group)
    BY <1>7, EndsAre
  <2> QED
    BY <1>1, <2>1, <2>2, GroupsAre
<1> HIDE DEF n
<1>11. Listed(r.rows) /\ Grouped(r.rows, f.rows, q.group, aggs)
  <2>1. CASE c.order = <<>>
    BY <1>5, <1>10, <2>1 DEF Wide
  <2>2. CASE c.order # <<>>
    <3>1. r = NodeResult(sort, g.rows) /\ r.end = "rows"
      BY <1>3, <1>5, <1>7, <2>2, EndsAre DEF Then
    <3>2. ~ReadsMissing(g.rows, c.order) /\ ~(Len(g.rows) > 1 /\ Contradictory(g.rows, c.order)) /\ r = Rows(Sorted(g.rows, c.order))
      BY <3>1, SortNode DEF sort
    <3>3. r.rows = Sorted(g.rows, c.order)
      BY <3>2, EndsAre
    <3>4. /\ Wide(r.rows, n)
          /\ \A rs, as, group : Grouped(g.rows, rs, group, as) => Grouped(r.rows, rs, group, as)
      BY <1>1, <1>9, <1>10, <3>2, <3>3, SortKeeps
    <3> QED
      BY <1>10, <3>4 DEF Wide
  <2> QED
    BY <2>1, <2>2
<1> QED
  BY <1>3, <1>6, <1>11 DEF f, r, aggs

(* GroupsPartition holds of every table.                                   *)
LEMMA GroupsArePartition ==
  ASSUME Typed
  PROVE  GroupsPartition
<1> SUFFICES ASSUME NEW q \in Select, q.group # <<>>, q.having = <<>>, q.limit = -1, q.offset = 0
             PROVE  LET answer == execute_select(q)  source == execute_select([All EXCEPT !.where = q.where]).rows IN
                    answer.end = "rows" /\ source # <<>> =>
                      Grouped(answer.rows, source, q.group, convert_select(q).aggregates)
  BY SelectsAssumption DEF GroupsPartition
<1> DEFINE c == convert_select(q)  a == execute_select(q)  source == execute_select([All EXCEPT !.where = q.where]).rows
<1> SUFFICES ASSUME a.end = "rows", source # <<>> PROVE Grouped(a.rows, source, q.group, c.aggregates)
  OBVIOUS
<1>1. c.where = convert_expr_to_where(q.where) /\ q.where \in Condition
  BY SelectIs
<1>2. Found(c).rows = source
  BY <1>1, AllRuns DEF Found, AllWhere
<1> HIDE DEF c, source
<1>3. c = convert_select(q)
  BY DEF c
<1> QED
  BY <1>2, <1>3, AnswerPartitions

-----------------------------------------------------------------------------
(* Lookups in the index.                                                   *)

(* The first element of two sequences in one.                              *)
LEMMA FirstJoined ==
  ASSUME NEW a \in Seq(Int), NEW b \in Seq(Int), Len(a) >= 1
  PROVE  a \o b \in Seq(Int) /\ Len(a \o b) >= 1 /\ (a \o b)[1] = a[1]
OBVIOUS

(* A lookup in the index finds the rows with the value, but for texts: it  *)
(* finds those whose text, or text and primary key, begin with it.         *)
LEMMA LookupFinds ==
  ASSUME Typed, NEW v \in Cells, v # Null
  PROVE  ToSet(index_scan(v)) =
           {r \in rows : r[2] # Null /\ IF coltype = "Text" THEN Starts(v.data, r[2].data \o serialize_value(r[1]))
                                        ELSE r[2] = v}
<1> DEFINE g == index_scan(v)
<1>1. Rowed(g) /\ {g[n] : n \in 1..Len(g)} = {r \in rows : Starts(serialize_value(v), Composite(r))}
  BY EngineFinds
<1>2. ToSet(g) = {g[n] : n \in 1..Len(g)}
  BY <1>1 DEF Rowed, ToSet
<1> HIDE DEF g
<1>3. coltype \in Types /\ v \in Of(coltype)
  BY CellIs DEF Typed
<1>4. /\ Len(serialize_value(v)) >= 1 /\ serialize_value(v)[1] # 0 /\ serialize_value(v) \in Seq(Int)
  <2>1. CASE coltype = "Integer"
    <3>1. PICK n \in Int64 : serialize_value(v) = <<1, IF n >= 0 THEN n ELSE n + 2 * MaxInt + 2>>
      BY <1>3, <2>1, KeyOfInteger
    <3> DEFINE m == IF n >= 0 THEN n ELSE n + 2 * MaxInt + 2
    <3>2. m \in Int
      BY MaxIntAssumption DEF Int64
    <3> HIDE DEF m
    <3>3. <<1, m>> \in Seq(Int) /\ Len(<<1, m>>) >= 1 /\ <<1, m>>[1] # 0
      BY <3>2
    <3> QED
      BY <3>1, <3>3 DEF m
  <2>2. CASE coltype = "Text"
    <3> DEFINE a == <<2>>  b == v.data
    <3>1. serialize_value(v) = a \o b /\ b \in Seq(Int)
      BY <1>3, <2>2, KeyOfText
    <3>2. a \in Seq(Int) /\ Len(a) >= 1 /\ a[1] # 0
      OBVIOUS
    <3> HIDE DEF a, b
    <3>3. a \o b \in Seq(Int) /\ Len(a \o b) >= 1 /\ (a \o b)[1] = a[1]
      BY ONLY <3>1, <3>2, FirstJoined
    <3> QED
      BY <3>1, <3>2, <3>3
  <2>3. CASE coltype \in {"Float", "Blob", "Boolean", "Timestamp"}
    <3> DEFINE a == <<2, DebugMark, TypeMark(coltype)>>  b == v.data  c == <<DebugEnd>>  d == a \o b
    <3>1. serialize_value(v) = d \o c /\ b \in Seq(Int)
      BY <1>3, <2>3, KeyOfOther
    <3>2. a \in Seq(Int) /\ c \in Seq(Int) /\ Len(a) >= 1 /\ a[1] # 0
      BY <2>3 DEF TypeMark, DebugMark, DebugEnd
    <3> HIDE DEF a, b, c
    <3>3. d \in Seq(Int) /\ Len(d) >= 1 /\ d[1] = a[1]
      BY ONLY <3>1, <3>2, FirstJoined
    <3> HIDE DEF d
    <3>4. d \o c \in Seq(Int) /\ Len(d \o c) >= 1 /\ (d \o c)[1] = d[1]
      BY ONLY <3>2, <3>3, FirstJoined
    <3> QED
      BY <3>1, <3>2, <3>3, <3>4
  <2> QED
    BY <1>3, <2>1, <2>2, <2>3 DEF Types
<1>5. ASSUME NEW r \in rows
      PROVE  Starts(serialize_value(v), Composite(r)) <=>
               r[2] # Null /\ IF coltype = "Text" THEN Starts(v.data, r[2].data \o serialize_value(r[1])) ELSE r[2] = v
  <2>1. /\ serialize_value(r[1]) \in Seq(Int) /\ Composite(r) = serialize_value(r[2]) \o serialize_value(r[1])
        /\ r[2] \in Cells
    BY EntryIs, RowIs
  <2>2. CASE r[2] = Null
    <3> DEFINE k == serialize_value(r[1])  s == serialize_value(v)  z == <<0>> \o k
    <3>1. Composite(r) = z
      <4>1. serialize_value(Null) = <<0>>
        BY DEF serialize_value, Null, Val
      <4> QED
        BY <2>1, <2>2, <4>1
    <3>2. z[1] = 0
      <4>1. k \in Seq(Int)
        BY <2>1
      <4> HIDE DEF k
      <4> QED
        BY <4>1
    <3> HIDE DEF k, s, z
    <3>3. s[1] # 0 /\ Len(s) \in Nat /\ Len(s) >= 1
      BY <1>4 DEF s
    <3>4. ~Starts(s, z)
      <4> SUFFICES ASSUME SubSeq(z, 1, Len(s)) = s PROVE FALSE
        BY DEF Starts
      <4>1. SubSeq(z, 1, Len(s))[1] = z[1]
        BY <3>3
      <4> QED
        BY <3>2, <3>3, <4>1
    <3> QED
      BY <2>2, <3>1, <3>4 DEF s
  <2>3. CASE r[2] # Null
    <3>1. r[2] \in Of(coltype)
      BY <1>3, <2>1, <2>3, CellIs
    <3>2. Starts(serialize_value(v), serialize_value(r[2]) \o serialize_value(r[1]))
           <=> IF coltype = "Text" THEN Starts(v.data, r[2].data \o serialize_value(r[1])) ELSE v = r[2]
      BY <1>3, <2>1, <3>1, IndexFindsValue
    <3> QED
      BY <2>1, <2>3, <3>2
  <2> QED
    BY <2>2, <2>3
<1> QED
  BY <1>1, <1>2, <1>5 DEF g

(* IndexScanIsEquality holds of every table without texts in c.            *)
LEMMA LookupsAreEqualities ==
  ASSUME Typed, coltype # "Text"
  PROVE  IndexScanIsEquality
<1> SUFFICES ASSUME NEW v \in CValues(coltype) \ {Null}
             PROVE  ToSet(index_scan(v)) = {r \in rows : r[2] = v}
  BY DEF IndexScanIsEquality
<1>1. ToSet(index_scan(v)) = {r \in rows : r[2] # Null /\ r[2] = v}
  BY LookupFinds DEF Cells
<1> QED
  BY <1>1
=============================================================================
