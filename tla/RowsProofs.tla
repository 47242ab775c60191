----------------------------- MODULE RowsProofs -----------------------------
(***************************************************************************)
(* What compare_values, the sort and the keys of module Rows promise: an   *)
(* ORDER BY over columns of one type is an order sort_by accepts, a key    *)
(* identifies its value, and a prefix of the key of an index entry finds the*)
(* value it is looked up with and, but for texts, no other. The lemmas after*)
(* them say what Among, InOrder and FlattenSeq give.                       *)
(***************************************************************************)
EXTENDS Rows, SequencesExt, SequenceTheorems, FiniteSetTheorems,
        WellFoundedInduction, TLAPS

(* The values of a type: one number, of 64 bits for an integer, or a       *)
(* sequence of them.  The Debug text of a blob ends where it says so.      *)
Int64   == -MaxInt - 1..MaxInt
Data(t) == CASE t = "Integer" -> {<<n>> : n \in Int64}
             [] t \in {"Float", "Boolean", "Timestamp"} -> {<<n>> : n \in Int}
             [] t = "Text" -> Seq(Int)
             [] t = "Blob" -> Seq(Int \ {DebugEnd})
             [] t = "Null" -> {<<>>}
Of(t)   == {Val(t, d) : d \in Data(t)}

-----------------------------------------------------------------------------
(* Sequences.                                                              *)

LEMMA LeastNumber ==
  ASSUME NEW T, T \subseteq Nat, T # {}
  PROVE  \E x \in T : \A y \in T : x <= y
<1>1. IsWellFoundedOn({p \in Nat \X Nat : p[1] < p[2]}, Nat)
  BY NatLessThanWellFounded DEF OpToRel
<1>2. PICK x \in T : \A y \in T : <<y, x>> \notin {p \in Nat \X Nat : p[1] < p[2]}
  BY <1>1, WFMin
<1>3. \A y \in T : ~(y < x)
  BY <1>2
<1> QED
  BY <1>3

(* Where a sequence is less than another: at n, and equal before.          *)
Less(s, t, n) ==
  /\ n \in Nat /\ n <= Len(s) /\ n < Len(t) /\ \A i \in 1..n : s[i] = t[i]
  /\ n < Len(s) => s[n + 1] < t[n + 1]

LEMMA LessIsLexLess ==
  ASSUME NEW s \in Seq(Int), NEW t \in Seq(Int)
  PROVE  LexLess(s, t) <=> \E n \in Nat : Less(s, t, n)
<1>1. Len(s) \in Nat /\ Len(t) \in Nat
  OBVIOUS
<1>2. ASSUME LexLess(s, t) PROVE \E n \in Nat : Less(s, t, n)
  <2>1. PICK n \in 0..Len(s) :
          /\ n <= Len(t) /\ \A i \in 1..n : s[i] = t[i]
          /\ \/ n = Len(s) /\ n < Len(t)
             \/ n < Len(s) /\ n < Len(t) /\ s[n + 1] < t[n + 1]
    BY <1>2 DEF LexLess
  <2>2. Less(s, t, n) /\ n \in Nat
    BY <1>1, <2>1 DEF Less
  <2> QED
    BY <2>2
<1>3. ASSUME NEW n \in Nat, Less(s, t, n) PROVE LexLess(s, t)
  <2>1. n \in 0..Len(s) /\ n <= Len(t) /\ (n = Len(s) \/ n < Len(s))
    BY <1>1, <1>3 DEF Less
  <2> QED
    BY <1>3, <2>1 DEF Less, LexLess
<1> QED
  BY <1>2, <1>3

LEMMA LessOnce ==
  ASSUME NEW s \in Seq(Int), NEW t \in Seq(Int), NEW m, NEW n, Less(s, t, m), Less(t, s, n)
  PROVE  FALSE
<1>1. /\ Len(s) \in Nat /\ Len(t) \in Nat /\ m \in Nat /\ n \in Nat
      /\ m <= Len(s) /\ m < Len(t) /\ n <= Len(t) /\ n < Len(s)
  BY DEF Less
<1>2. CASE m < n
  <2>1. m + 1 \in 1..n /\ m + 1 \in 1..Len(s) /\ m < Len(s)
    BY <1>1, <1>2
  <2>2. s[m + 1] = t[m + 1] /\ s[m + 1] \in Int /\ s[m + 1] < t[m + 1]
    BY <2>1 DEF Less
  <2> QED
    BY <2>2
<1>3. CASE n < m
  <2>1. n + 1 \in 1..m /\ n + 1 \in 1..Len(t) /\ n < Len(t)
    BY <1>1, <1>3
  <2>2. s[n + 1] = t[n + 1] /\ t[n + 1] \in Int /\ t[n + 1] < s[n + 1]
    BY <2>1 DEF Less
  <2> QED
    BY <2>2
<1>4. CASE n = m
  <2>1. n + 1 \in 1..Len(s) /\ n + 1 \in 1..Len(t)
    BY <1>1, <1>4
  <2>2. s[n + 1] \in Int /\ t[n + 1] \in Int /\ s[n + 1] < t[n + 1] /\ t[n + 1] < s[n + 1]
    BY <1>1, <1>4, <2>1 DEF Less
  <2> QED
    BY <2>2
<1> QED
  BY <1>1, <1>2, <1>3, <1>4

LEMMA LessChains ==
  ASSUME NEW s \in Seq(Int), NEW t \in Seq(Int), NEW u \in Seq(Int), NEW m, NEW n,
         Less(s, t, m), Less(t, u, n)
  PROVE  \E k \in Nat : Less(s, u, k)
<1>1. /\ Len(s) \in Nat /\ Len(t) \in Nat /\ Len(u) \in Nat /\ m \in Nat /\ n \in Nat
      /\ m <= Len(s) /\ m < Len(t) /\ n <= Len(t) /\ n < Len(u)
  BY DEF Less
<1>2. CASE m < n
  <2>1. m + 1 \in 1..n /\ m < Len(u) /\ \A i \in 1..m : i \in 1..n
    BY <1>1, <1>2
  <2>2. t[m + 1] = u[m + 1] /\ \A i \in 1..m : s[i] = u[i]
    BY <2>1 DEF Less
  <2>3. Less(s, u, m)
    BY <1>1, <2>1, <2>2 DEF Less
  <2> QED
    BY <1>1, <2>3
<1>3. CASE n < m
  <2>1. /\ n + 1 \in 1..m /\ n < Len(s) /\ n < Len(t) /\ \A i \in 1..n : i \in 1..m
    BY <1>1, <1>3
  <2>2. s[n + 1] = t[n + 1] /\ t[n + 1] < u[n + 1] /\ \A i \in 1..n : s[i] = u[i]
    BY <2>1 DEF Less
  <2>3. Less(s, u, n)
    BY <1>1, <2>1, <2>2 DEF Less
  <2> QED
    BY <1>1, <2>3
<1>4. CASE n = m
  <2>1. \A i \in 1..n : s[i] = u[i]
    BY <1>4 DEF Less
  <2>2. ASSUME n < Len(s) PROVE s[n + 1] < u[n + 1]
    <3>1. n + 1 \in 1..Len(s) /\ n + 1 \in 1..Len(t) /\ n + 1 \in 1..Len(u)
      BY <1>1, <1>4, <2>2
    <3>2. s[n + 1] \in Int /\ t[n + 1] \in Int /\ u[n + 1] \in Int
      BY <3>1
    <3>3. s[n + 1] < t[n + 1] /\ t[n + 1] < u[n + 1]
      BY <1>1, <1>4, <2>2 DEF Less
    <3> QED
      BY <3>2, <3>3
  <2>3. Less(s, u, n)
    BY <1>1, <1>4, <2>1, <2>2 DEF Less
  <2> QED
    BY <1>1, <2>3
<1> QED
  BY <1>1, <1>2, <1>3, <1>4

(* Two sequences differ at a first place, if they are not the same.        *)
LEMMA LessOrEqual ==
  ASSUME NEW s \in Seq(Int), NEW t \in Seq(Int), s # t
  PROVE  \E n \in Nat : Less(s, t, n) \/ Less(t, s, n)
<1> DEFINE T == {n \in Nat : \/ n = Len(s) \/ n = Len(t)
                             \/ n < Len(s) /\ n < Len(t) /\ s[n + 1] # t[n + 1]}
<1>1. Len(s) \in Nat /\ Len(t) \in Nat
  OBVIOUS
<1>t. /\ T \subseteq Nat /\ Len(s) \in T /\ Len(t) \in T
      /\ \A n \in Nat :
           n \in T <=> (n = Len(s) \/ n = Len(t) \/ (n < Len(s) /\ n < Len(t) /\ s[n + 1] # t[n + 1]))
  BY <1>1
<1> HIDE DEF T
<1>2. PICK n \in T : \A m \in T : n <= m
  BY <1>t, LeastNumber
<1>3. n \in Nat /\ n <= Len(s) /\ n <= Len(t)
  BY <1>t, <1>2
<1>4. ASSUME NEW i \in 1..n PROVE s[i] = t[i]
  <2>1. i - 1 \in Nat /\ i - 1 < n /\ (i - 1) + 1 = i
    BY <1>3, <1>4
  <2>2. i - 1 \notin T
    BY <1>2, <1>3, <2>1
  <2>3. i - 1 < Len(s) /\ i - 1 < Len(t)
    BY <1>1, <1>3, <2>1
  <2>4. s[(i - 1) + 1] = t[(i - 1) + 1]
    BY <1>t, <2>1, <2>2, <2>3
  <2> QED
    BY <2>1, <2>4
<1>5. CASE n = Len(s) /\ n = Len(t)
  <2>1. s = t
    BY <1>4, <1>5, SeqEqual
  <2> QED
    BY <2>1
<1>6. CASE n = Len(s) /\ n < Len(t)
  <2>1. Less(s, t, n)
    BY <1>3, <1>4, <1>6 DEF Less
  <2> QED
    BY <1>3, <2>1
<1>7. CASE n = Len(t) /\ n < Len(s)
  <2>1. Less(t, s, n)
    BY <1>3, <1>4, <1>7 DEF Less
  <2> QED
    BY <1>3, <2>1
<1>8. CASE n < Len(s) /\ n < Len(t)
  <2>1. n + 1 \in 1..Len(s) /\ n + 1 \in 1..Len(t) /\ s[n + 1] # t[n + 1]
    BY <1>1, <1>2, <1>3, <1>8, <1>t
  <2>2. s[n + 1] < t[n + 1] \/ t[n + 1] < s[n + 1]
    BY <2>1
  <2>3. Less(s, t, n) \/ Less(t, s, n)
    BY <1>3, <1>4, <1>8, <2>2 DEF Less
  <2> QED
    BY <1>3, <2>3
<1> QED
  BY <1>1, <1>3, <1>5, <1>6, <1>7, <1>8

LEMMA OrderOf ==
  ASSUME NEW s \in Seq(Int), NEW t \in Seq(Int)
  PROVE  /\ Order(s, t) \in {-1, 0, 1}
         /\ Order(s, t) = -1 <=> LexLess(s, t)
         /\ Order(s, t) = 1 <=> LexLess(t, s)
         /\ Order(s, t) = 0 <=> s = t
<1>1. ~(LexLess(s, t) /\ LexLess(t, s))
  BY LessIsLexLess, LessOnce
<1>2. ~LexLess(s, s)
  BY LessIsLexLess, LessOnce
<1>3. s # t => LexLess(s, t) \/ LexLess(t, s)
  BY LessIsLexLess, LessOrEqual
<1> QED
  BY <1>1, <1>2, <1>3 DEF Order

LEMMA LexTransitive ==
  ASSUME NEW s \in Seq(Int), NEW t \in Seq(Int), NEW u \in Seq(Int), LexLess(s, t), LexLess(t, u)
  PROVE  LexLess(s, u)
BY LessIsLexLess, LessChains

-----------------------------------------------------------------------------
(* compare_values and the sort.                                            *)

LEMMA Compared ==
  ASSUME NEW t \in Sortable, NEW a \in Of(t), NEW b \in Of(t)
  PROVE  a.data \in Seq(Int) /\ compare_values(a, b) = Order(a.data, b.data)
<1>1. a.type = t /\ b.type = t /\ a.data \in Data(t)
  BY DEF Of, Val
<1>2. Data(t) \subseteq Seq(Int)
  <2>1. \A n \in Int : <<n>> \in Seq(Int)
    OBVIOUS
  <2>2. Int64 \subseteq Int
    BY MaxIntAssumption DEF Int64
  <2> QED
    BY <2>1, <2>2 DEF Data, Sortable, Numeric
<1> QED
  BY <1>1, <1>2 DEF compare_values

(* On the values of one type, blobs apart, compare_values is a total order *)
(* of what they are made of: what sort_by and the Ordering of Rust ask of  *)
(* it.                                                                     *)
THEOREM CompareIsOrder ==
  ASSUME NEW t \in Sortable, NEW a \in Of(t), NEW b \in Of(t), NEW c \in Of(t)
  PROVE  /\ compare_values(a, b) \in {-1, 0, 1} /\ compare_values(b, a) = -compare_values(a, b)
         /\ compare_values(a, b) = 0 <=> a.data = b.data
         /\ compare_values(a, b) <= 0 /\ compare_values(b, c) <= 0 => compare_values(a, c) <= 0
<1>1. a.data \in Seq(Int) /\ b.data \in Seq(Int) /\ c.data \in Seq(Int)
  BY Compared
<1>2. /\ compare_values(a, b) = Order(a.data, b.data)
      /\ compare_values(b, a) = Order(b.data, a.data)
      /\ compare_values(b, c) = Order(b.data, c.data)
      /\ compare_values(a, c) = Order(a.data, c.data)
  BY Compared
<1>3. ASSUME NEW s \in Seq(Int), NEW r \in Seq(Int), NEW u \in Seq(Int)
      PROVE  /\ Order(s, r) \in {-1, 0, 1} /\ Order(r, s) = -Order(s, r)
             /\ (Order(s, r) = 0) <=> (s = r)
             /\ Order(s, r) <= 0 /\ Order(r, u) <= 0 => Order(s, u) <= 0
  <2>1. /\ Order(s, r) \in {-1, 0, 1} /\ Order(r, s) = -Order(s, r) /\ (Order(s, r) = 0 <=> s = r)
    BY OrderOf
  <2>2. ASSUME Order(s, r) <= 0, Order(r, u) <= 0 PROVE Order(s, u) <= 0
    <3>1. (LexLess(s, r) \/ s = r) /\ (LexLess(r, u) \/ r = u)
      BY <2>2, OrderOf
    <3>2. LexLess(s, u) \/ s = u
      BY <3>1, LexTransitive
    <3> QED
      BY <3>2, OrderOf
  <2> QED
    BY <2>1, <2>2
<1>4. a.data = b.data <=> Order(a.data, b.data) = 0
  BY <1>1, <1>3
<1>5. /\ Order(a.data, b.data) \in {-1, 0, 1}
      /\ Order(b.data, a.data) = -Order(a.data, b.data)
      /\ Order(a.data, b.data) <= 0 /\ Order(b.data, c.data) <= 0
           => Order(a.data, c.data) <= 0
  BY <1>1, <1>3
<1>6. compare_values(a, b) = 0 <=> a.data = b.data
  BY <1>2, <1>4
<1>7. /\ compare_values(a, b) \in {-1, 0, 1} /\ compare_values(b, a) = -compare_values(a, b)
  BY <1>2, <1>5
<1>8. compare_values(a, b) <= 0 /\ compare_values(b, c) <= 0 => compare_values(a, c) <= 0
  BY <1>2, <1>5
<1> QED
  BY <1>6, <1>7, <1>8

-----------------------------------------------------------------------------
(* Sorting.                                                                *)

(* The first item of an order two rows differ by decides.                  *)
At(row, order, k) == row[SortPosition(order[k].col)]
Differ(a, b, order) == {k \in DOMAIN order : compare_values(At(a, order, k), At(b, order, k)) # 0}

(* Every row has, at every item of the order, a value of the item's type.  *)
OneType(rows, order) ==
  \A k \in DOMAIN order : \E t \in Sortable : \A row \in rows : At(row, order, k) \in Of(t)

LEMMA FirstDecides ==
  ASSUME NEW order \in Seq([col : STRING, asc : BOOLEAN]), NEW a, NEW b
  PROVE  \/ Differ(a, b, order) = {} /\ CompareBy(a, b, order) = 0
         \/ \E k \in Differ(a, b, order) :
              /\ \A m \in Differ(a, b, order) : k <= m
              /\ CompareBy(a, b, order) = Signed(order[k], compare_values(At(a, order, k), At(b, order, k)))
<1> DEFINE D == Differ(a, b, order)
           k == CHOOSE j \in D : \A m \in D : j <= m
<1>1. CompareBy(a, b, order) = IF D = {} THEN 0
                               ELSE Signed(order[k], compare_values(At(a, order, k), At(b, order, k)))
  BY DEF CompareBy, CompareItem, Directed, Differ, At
<1>2. D \subseteq Nat
  BY DEF Differ
<1>3. D # {} => k \in D /\ \A m \in D : k <= m
  <2> HIDE DEF D
  <2> QED
    BY <1>2, LeastNumber
<1> QED
  BY <1>1, <1>3

(* ORDER BY over columns that hold values of one type each, and no NULL or *)
(* blob: whatever the items and their directions, three rows never contradict    *)
(* each other, so that sort_by does what it says.                          *)
THEOREM SortIsOrder ==
  ASSUME NEW order \in Seq([col : STRING, asc : BOOLEAN]), NEW rs, OneType({rs[i] : i \in DOMAIN rs}, order)
  PROVE  ~Contradictory(rs, order)
<1>2. DOMAIN order \subseteq Nat
  OBVIOUS
<1> SUFFICES ASSUME NEW x \in DOMAIN rs, NEW y \in DOMAIN rs, NEW z \in DOMAIN rs,
                    CompareBy(rs[x], rs[y], order) <= 0, CompareBy(rs[y], rs[z], order) <= 0,
                    CompareBy(rs[x], rs[z], order) > 0
             PROVE  FALSE
  BY DEF Contradictory
<1> DEFINE R == {rs[x], rs[y], rs[z]}
           cmp(p, q, k) == compare_values(At(p, order, k), At(q, order, k))
           Before(p, q, k) == cmp(p, q, k) = IF order[k].asc THEN -1 ELSE 1
           First(p, q, k) == /\ k \in DOMAIN order /\ Before(p, q, k)
                             /\ \A m \in DOMAIN order : m < k => cmp(p, q, m) = 0
           Same(p, q) == \A k \in DOMAIN order : cmp(p, q, k) = 0
<1>1. ASSUME NEW k \in DOMAIN order, NEW p \in R, NEW q \in R, NEW r \in R
      PROVE  /\ cmp(p, q, k) \in {-1, 0, 1} /\ cmp(q, p, k) = -cmp(p, q, k)
             /\ cmp(p, q, k) = 0 <=> At(p, order, k).data = At(q, order, k).data
             /\ cmp(p, q, k) <= 0 /\ cmp(q, r, k) <= 0 => cmp(p, r, k) <= 0
  <2>1. PICK t \in Sortable : \A row \in {rs[i] : i \in DOMAIN rs} : At(row, order, k) \in Of(t)
    BY DEF OneType
  <2>2. At(p, order, k) \in Of(t) /\ At(q, order, k) \in Of(t) /\ At(r, order, k) \in Of(t)
    BY <2>1
  <2> QED
    BY <2>2, CompareIsOrder
(* What the comparisons at one item imply for three rows.                  *)
<1>3. ASSUME NEW k \in DOMAIN order, NEW p \in R, NEW q \in R, NEW r \in R
      PROVE  /\ cmp(p, q, k) = 0 /\ cmp(q, r, k) = 0 => cmp(p, r, k) = 0
             /\ Before(p, q, k) /\ (Before(q, r, k) \/ cmp(q, r, k) = 0) => Before(p, r, k)
             /\ cmp(p, q, k) = 0 /\ Before(q, r, k) => Before(p, r, k)
             /\ Before(p, q, k) => cmp(p, q, k) # 0 /\ cmp(q, p, k) # 0 /\ ~Before(q, p, k)
  <2> DEFINE d == IF order[k].asc THEN -1 ELSE 1
  <2>1. ASSUME NEW e \in {-1, 0, 1}, NEW f \in {-1, 0, 1}, NEW g \in {-1, 0, 1}, NEW h \in {-1, 1},
               e = 0 /\ f = 0 => g = 0, e <= 0 /\ f <= 0 => g <= 0, -f <= 0 /\ -e <= 0 => -g <= 0,
               -e <= 0 /\ g <= 0 => f <= 0, g <= 0 /\ -f <= 0 => e <= 0,
               -g <= 0 /\ e <= 0 => -f <= 0, f <= 0 /\ -g <= 0 => -e <= 0
        PROVE  /\ e = h /\ (f = h \/ f = 0) => g = h
               /\ e = 0 /\ f = h => g = h
               /\ e = h => e # 0 /\ -e # 0 /\ -e # h
    BY <2>1
  <2>2. /\ cmp(p, q, k) \in {-1, 0, 1} /\ cmp(q, r, k) \in {-1, 0, 1} /\ cmp(p, r, k) \in {-1, 0, 1}
        /\ cmp(q, p, k) = -cmp(p, q, k) /\ cmp(r, q, k) = -cmp(q, r, k) /\ cmp(r, p, k) = -cmp(p, r, k)
        /\ d \in {-1, 1}
    BY <1>1
  <2>3. cmp(p, q, k) = 0 /\ cmp(q, r, k) = 0 => cmp(p, r, k) = 0
    BY <1>1
  <2>4. /\ cmp(p, q, k) <= 0 /\ cmp(q, r, k) <= 0 => cmp(p, r, k) <= 0
        /\ cmp(r, q, k) <= 0 /\ cmp(q, p, k) <= 0 => cmp(r, p, k) <= 0
        /\ cmp(q, p, k) <= 0 /\ cmp(p, r, k) <= 0 => cmp(q, r, k) <= 0
        /\ cmp(p, r, k) <= 0 /\ cmp(r, q, k) <= 0 => cmp(p, q, k) <= 0
        /\ cmp(r, p, k) <= 0 /\ cmp(p, q, k) <= 0 => cmp(r, q, k) <= 0
        /\ cmp(q, r, k) <= 0 /\ cmp(r, p, k) <= 0 => cmp(q, p, k) <= 0
    BY <1>1
  <2> HIDE DEF cmp, d
  <2>5. /\ cmp(p, q, k) = d /\ (cmp(q, r, k) = d \/ cmp(q, r, k) = 0) => cmp(p, r, k) = d
        /\ cmp(p, q, k) = 0 /\ cmp(q, r, k) = d => cmp(p, r, k) = d
        /\ cmp(p, q, k) = d => cmp(p, q, k) # 0 /\ cmp(q, p, k) # 0 /\ cmp(q, p, k) # d
    BY <2>1, <2>2, <2>3, <2>4
  <2> QED
    BY <2>3, <2>5 DEF d
(* What CompareBy says of two rows.                                        *)
<1>4. ASSUME NEW p \in R, NEW q \in R
      PROVE  /\ CompareBy(p, q, order) <= 0 => Same(p, q) \/ \E k \in DOMAIN order : First(p, q, k)
             /\ CompareBy(p, q, order) > 0 => \E k \in DOMAIN order : First(q, p, k)
  <2>1. CASE Differ(p, q, order) = {} /\ CompareBy(p, q, order) = 0
    BY <2>1 DEF Differ
  <2>2. CASE \E k \in Differ(p, q, order) :
               /\ \A m \in Differ(p, q, order) : k <= m
               /\ CompareBy(p, q, order) = Signed(order[k], cmp(p, q, k))
    <3>1. PICK k \in Differ(p, q, order) :
                 /\ \A m \in Differ(p, q, order) : k <= m
                 /\ CompareBy(p, q, order) = Signed(order[k], cmp(p, q, k))
      BY <2>2
    <3>2. k \in DOMAIN order /\ cmp(p, q, k) \in {-1, 1} /\ cmp(q, p, k) = -cmp(p, q, k)
      BY <1>1, <3>1 DEF Differ
    <3>3. ASSUME NEW m \in DOMAIN order, m < k PROVE cmp(p, q, m) = 0 /\ cmp(q, p, m) = 0
      <4>1. m \notin Differ(p, q, order)
        BY <1>2, <3>1, <3>2, <3>3
      <4>2. cmp(p, q, m) = 0
        BY <3>3, <4>1 DEF Differ
      <4>3. cmp(p, q, m) = 0 <=> cmp(q, p, m) = 0
        BY <1>1, <3>3
      <4> HIDE DEF cmp
      <4> QED
        BY <4>2, <4>3
    <3> HIDE DEF cmp
    <3>4. /\ CompareBy(p, q, order) <= 0 => Before(p, q, k)
          /\ CompareBy(p, q, order) > 0 => Before(q, p, k)
      BY <3>1, <3>2 DEF Signed
    <3> QED
      BY <3>2, <3>3, <3>4
  <2> QED
    BY <2>1, <2>2, FirstDecides
<1> DEFINE a == rs[x]  b == rs[y]  c == rs[z]
<1>5. /\ a \in R /\ b \in R /\ c \in R
      /\ Same(a, b) \/ \E k \in DOMAIN order : First(a, b, k)
      /\ Same(b, c) \/ \E k \in DOMAIN order : First(b, c, k)
      /\ \E k \in DOMAIN order : First(c, a, k)
  <2>1. a \in R /\ b \in R /\ c \in R
    OBVIOUS
  <2> QED
    BY <1>4, <2>1
<1> HIDE DEF R, a, b, c, cmp
(* The first row cannot be both before and after the third.                *)
<1>6. ASSUME NEW j \in DOMAIN order, NEW k \in DOMAIN order, First(a, c, j), First(c, a, k) PROVE FALSE
  <2>1. j \in Nat /\ k \in Nat
    BY <1>2
  <2>2. CASE j < k
    BY <1>3, <1>5, <1>6, <2>2
  <2>3. CASE k < j
    BY <1>3, <1>5, <1>6, <2>3
  <2>4. CASE j = k
    BY <1>3, <1>5, <1>6, <2>4
  <2> QED
    BY <2>1, <2>2, <2>3, <2>4
<1>7. ASSUME NEW j \in DOMAIN order, First(a, b, j), Same(b, c) PROVE First(a, c, j)
  BY <1>3, <1>5, <1>7
<1>8. ASSUME NEW j \in DOMAIN order, Same(a, b), First(b, c, j) PROVE First(a, c, j)
  BY <1>3, <1>5, <1>8
<1>9. ASSUME NEW i \in DOMAIN order, NEW j \in DOMAIN order, First(a, b, i), First(b, c, j)
      PROVE  First(a, c, IF i < j THEN i ELSE j)
  <2>1. i \in Nat /\ j \in Nat
    BY <1>2
  <2>2. CASE i < j
    <3>1. Before(a, c, i) /\ \A m \in DOMAIN order : m < i => cmp(a, c, m) = 0
      BY <1>2, <1>3, <1>5, <1>9, <2>1, <2>2
    <3> QED
      BY <2>2, <3>1
  <2>3. CASE ~(i < j)
    <3>1. Before(a, b, j) \/ cmp(a, b, j) = 0
      BY <1>9, <2>1, <2>3
    <3>2. Before(a, c, j) /\ \A m \in DOMAIN order : m < j => cmp(a, c, m) = 0
      BY <1>2, <1>3, <1>5, <1>9, <2>1, <2>3, <3>1
    <3> QED
      BY <2>3, <3>2
  <2> QED
    BY <2>2, <2>3
<1>10. ASSUME Same(a, b), Same(b, c), NEW k \in DOMAIN order, First(c, a, k) PROVE FALSE
  BY <1>3, <1>5, <1>10
<1> QED
  <2>1. PICK k \in DOMAIN order : First(c, a, k)
    BY <1>5
  <2>2. CASE \E j \in DOMAIN order : First(a, c, j)
    BY <1>6, <2>1, <2>2
  <2>3. (Same(a, b) /\ Same(b, c)) \/ \E j \in DOMAIN order : First(a, c, j)
    BY <1>5, <1>7, <1>8, <1>9
  <2> QED
    BY <1>10, <2>1, <2>2, <2>3

-----------------------------------------------------------------------------
(* Keys.                                                                   *)

LEMMA Remainder ==
  ASSUME NEW n \in Int64
  PROVE  n % (2 * MaxInt + 2) = IF n >= 0 THEN n ELSE n + 2 * MaxInt + 2
<1>1. ASSUME NEW m \in Nat \ {0}, NEW k \in Int, -m <= k, k < m
      PROVE  k % m = IF k >= 0 THEN k ELSE k + m
  <2>1. CASE k >= 0
    BY <1>1, <2>1
  <2>2. CASE k < 0
    BY <1>1, <2>2
  <2> QED
    BY <2>1, <2>2
<1> DEFINE m == 2 * MaxInt + 2
<1>2. m \in Nat \ {0} /\ n \in Int /\ -m <= n /\ n < m
  BY MaxIntAssumption DEF Int64
<1> HIDE DEF m
<1>3. n % m = IF n >= 0 THEN n ELSE n + m
  BY <1>1, <1>2
<1>4. m \in Nat /\ n + m = n + 2 * MaxInt + 2
  BY <1>2, MaxIntAssumption DEF m
<1> QED
  BY <1>3, <1>4 DEF m

(* A sequence starts with another if it is the same as far as that goes.   *)
LEMMA StartsWith ==
  ASSUME NEW S, NEW k \in Seq(S), NEW s \in Seq(S)
  PROVE  Starts(k, s) <=> Len(k) <= Len(s) /\ \A i \in 1..Len(k) : s[i] = k[i]
<1>1. Len(k) \in Nat /\ Len(s) \in Nat
  OBVIOUS
<1>2. CASE Len(k) <= Len(s)
  <2>1. /\ SubSeq(s, 1, Len(k)) \in Seq(S) /\ Len(SubSeq(s, 1, Len(k))) = Len(k)
        /\ \A i \in 1..Len(k) : SubSeq(s, 1, Len(k))[i] = s[i]
    BY <1>1, <1>2, SubSeqProperties
  <2>2. SubSeq(s, 1, Len(k)) = k <=> \A i \in 1..Len(k) : s[i] = k[i]
    BY <2>1, SeqEqual
  <2> QED
    BY <1>2, <2>2 DEF Starts
<1> QED
  BY <1>2 DEF Starts

(* What the key of a value is, by its type.                                *)
LEMMA KeyOfText ==
  ASSUME NEW v \in Of("Text")
  PROVE  serialize_value(v) = <<2>> \o v.data /\ v.data \in Seq(Int) /\ v.type = "Text"
<1>1. PICK d \in Data("Text") : v = Val("Text", d)
  BY DEF Of
<1>2. d \in Seq(Int) /\ v.data = d /\ v.type = "Text"
  BY <1>1 DEF Data, Val
<1> QED
  BY <1>2 DEF serialize_value

LEMMA KeyOfInteger ==
  ASSUME NEW v \in Of("Integer")
  PROVE  \E n \in Int64 : /\ v = Val("Integer", <<n>>)
                          /\ serialize_value(v) = <<1, IF n >= 0 THEN n ELSE n + 2 * MaxInt + 2>>
<1>1. PICK n \in Int64 : v = Val("Integer", <<n>>)
  BY DEF Of, Data
<1>2. v.type = "Integer" /\ Num(v) = n
  BY <1>1 DEF Val, Num
<1> QED
  BY <1>1, <1>2, Remainder DEF serialize_value

LEMMA KeyOfOther ==
  ASSUME NEW t \in {"Float", "Blob", "Boolean", "Timestamp"}, NEW v \in Of(t)
  PROVE  /\ serialize_value(v) = <<2, DebugMark, TypeMark(t)>> \o v.data \o <<DebugEnd>>
         /\ v.type = t /\ v.data \in Seq(Int) /\ v = Val(t, v.data)
         /\ t = "Blob" => v.data \in Seq(Int \ {DebugEnd})
         /\ t # "Blob" => Len(v.data) = 1
<1>1. PICK d \in Data(t) : v = Val(t, d)
  BY DEF Of
<1>2. v.type = t /\ v.data = d
  BY <1>1 DEF Val
<1>3. d \in Seq(Int) /\ (t = "Blob" => d \in Seq(Int \ {DebugEnd})) /\ (t # "Blob" => Len(d) = 1)
  <2>1. CASE t = "Blob"
    BY <2>1 DEF Data
  <2>2. CASE t # "Blob"
    <3>1. PICK n \in Int : d = <<n>>
      BY <2>2 DEF Data
    <3> QED
      BY <2>2, <3>1
  <2> QED
    BY <2>1, <2>2
<1> QED
  BY <1>1, <1>2, <1>3 DEF serialize_value

LEMMA Joined ==
  ASSUME NEW a \in Seq(Int), NEW b \in Seq(Int)
  PROVE  /\ a \o b \in Seq(Int) /\ Len(a \o b) = Len(a) + Len(b) /\ Len(a) \in Nat /\ Len(b) \in Nat
         /\ \A i \in 1..Len(a) : (a \o b)[i] = a[i]
         /\ \A i \in 1..Len(b) : (a \o b)[i + Len(a)] = b[i]
<1>1. Len(a) \in Nat /\ Len(b) \in Nat
  OBVIOUS
<1>2. /\ a \o b \in Seq(Int) /\ Len(a \o b) = Len(a) + Len(b)
      /\ \A i \in 1..Len(a) + Len(b) : (a \o b)[i] = IF i <= Len(a) THEN a[i] ELSE b[i - Len(a)]
  BY ConcatProperties
<1>3. ASSUME NEW i \in 1..Len(a) PROVE (a \o b)[i] = a[i]
  <2>1. i \in 1..Len(a) + Len(b) /\ i <= Len(a)
    BY <1>1
  <2> QED
    BY <1>2, <2>1
<1>4. ASSUME NEW i \in 1..Len(b) PROVE (a \o b)[i + Len(a)] = b[i]
  <2>1. i + Len(a) \in 1..Len(a) + Len(b) /\ ~(i + Len(a) <= Len(a)) /\ (i + Len(a)) - Len(a) = i
    BY <1>1
  <2> QED
    BY <1>2, <2>1
<1> QED
  BY <1>1, <1>2, <1>3, <1>4

(* What stands where in a Debug text, whatever follows it.                 *)
LEMMA OtherPlaces ==
  ASSUME NEW m \in Int, NEW d \in Seq(Int), NEW k \in Seq(Int)
  PROVE  LET s == <<2, DebugMark, m>> \o d \o <<DebugEnd>> IN
         /\ s \in Seq(Int) /\ Len(s) = Len(d) + 4 /\ s \o k \in Seq(Int) /\ Len(s \o k) = Len(d) + 4 + Len(k)
         /\ s[3] = m /\ \A i \in 1..Len(d) : s[i + 3] = d[i]
         /\ s[Len(d) + 4] = DebugEnd /\ \A i \in 1..Len(d) + 4 : (s \o k)[i] = s[i]
<1> DEFINE h == <<2, DebugMark, m>>  e == <<DebugEnd>>  g == h \o d  s == g \o e
<1>1. /\ h \in Seq(Int) /\ Len(h) = 3 /\ h[3] = m
      /\ e \in Seq(Int) /\ Len(e) = 1 /\ e[1] = DebugEnd
  BY DEF DebugMark, DebugEnd
<1> HIDE DEF h, e
<1>2. /\ g \in Seq(Int) /\ Len(g) = Len(h) + Len(d) /\ Len(d) \in Nat
      /\ \A i \in 1..Len(h) : g[i] = h[i]
      /\ \A i \in 1..Len(d) : g[i + Len(h)] = d[i]
  BY <1>1, Joined
<1> HIDE DEF g
<1>3. /\ s \in Seq(Int) /\ Len(s) = Len(g) + Len(e)
      /\ \A i \in 1..Len(g) : s[i] = g[i]
      /\ \A i \in 1..Len(e) : s[i + Len(g)] = e[i]
  BY <1>1, <1>2, Joined
<1> HIDE DEF s
<1>4. /\ s \o k \in Seq(Int) /\ Len(s \o k) = Len(s) + Len(k)
      /\ \A i \in 1..Len(s) : (s \o k)[i] = s[i]
  BY <1>3, Joined
<1>5. Len(g) = Len(d) + 3 /\ Len(s) = Len(d) + 4
  BY <1>1, <1>2, <1>3
<1>6. ASSUME NEW i \in 1..Len(d) PROVE s[i + 3] = d[i]
  <2>1. i + 3 \in 1..Len(g)
    BY <1>2, <1>5
  <2> QED
    BY <1>1, <1>2, <1>3, <2>1
<1>7. s[3] = m
  <2>1. 3 \in 1..Len(g) /\ 3 \in 1..Len(h)
    BY <1>1, <1>2, <1>5
  <2> QED
    BY <1>1, <1>2, <1>3, <2>1
<1>8. s[Len(d) + 4] = DebugEnd
  <2>1. 1 \in 1..Len(e) /\ 1 + Len(g) = Len(d) + 4
    BY <1>1, <1>2, <1>5
  <2> QED
    BY <1>1, <1>3, <2>1
<1>9. /\ s \in Seq(Int) /\ Len(s) = Len(d) + 4 /\ s \o k \in Seq(Int) /\ Len(s \o k) = Len(d) + 4 + Len(k)
      /\ s[3] = m /\ \A i \in 1..Len(d) : s[i + 3] = d[i]
      /\ s[Len(d) + 4] = DebugEnd /\ \A i \in 1..Len(d) + 4 : (s \o k)[i] = s[i]
  BY <1>3, <1>4, <1>5, <1>6, <1>7, <1>8
<1> QED
  BY <1>9 DEF s, g, h, e

(* The same number before two sequences does not change whether one starts *)
(* with the other.                                                         *)
LEMMA Prefixed ==
  ASSUME NEW n \in Int, NEW a \in Seq(Int), NEW b \in Seq(Int), NEW k \in Seq(Int)
  PROVE  Starts(<<n>> \o a, (<<n>> \o b) \o k) <=> Starts(a, b \o k)
<1> DEFINE h == <<n>>  p == h \o a  q == h \o b  z == q \o k  y == b \o k
<1>1. h \in Seq(Int) /\ Len(h) = 1 /\ h[1] = n
  OBVIOUS
<1> HIDE DEF h
<1>2. /\ p \in Seq(Int) /\ Len(p) = Len(h) + Len(a) /\ Len(a) \in Nat
      /\ \A i \in 1..Len(h) : p[i] = h[i]
      /\ \A i \in 1..Len(a) : p[i + Len(h)] = a[i]
  BY <1>1, Joined
<1>3. /\ q \in Seq(Int) /\ Len(q) = Len(h) + Len(b) /\ Len(b) \in Nat
      /\ \A i \in 1..Len(h) : q[i] = h[i]
      /\ \A i \in 1..Len(b) : q[i + Len(h)] = b[i]
  BY <1>1, Joined
<1> HIDE DEF p, q
<1>4. /\ z \in Seq(Int) /\ Len(z) = Len(q) + Len(k) /\ Len(k) \in Nat
      /\ \A i \in 1..Len(q) : z[i] = q[i]
      /\ \A i \in 1..Len(k) : z[i + Len(q)] = k[i]
  BY <1>3, Joined
<1>5. /\ y \in Seq(Int) /\ Len(y) = Len(b) + Len(k)
      /\ \A i \in 1..Len(b) : y[i] = b[i]
      /\ \A i \in 1..Len(k) : y[i + Len(b)] = k[i]
  BY Joined
<1> HIDE DEF z, y
<1>6. /\ Len(p) = Len(a) + 1 /\ Len(q) = Len(b) + 1 /\ Len(z) = Len(y) + 1
      /\ Len(a) \in Nat /\ Len(b) \in Nat /\ Len(k) \in Nat /\ Len(y) \in Nat
  BY <1>1, <1>2, <1>3, <1>4, <1>5
<1>7. p[1] = n /\ z[1] = n
  <2>1. 1 \in 1..Len(h) /\ 1 \in 1..Len(q)
    BY <1>1, <1>6
  <2> QED
    BY <1>1, <1>2, <1>3, <1>4, <2>1
<1>8. ASSUME NEW i \in 1..Len(y) PROVE z[i + 1] = y[i]
  <2>1. CASE i <= Len(b)
    <3>1. i \in 1..Len(b) /\ i + 1 \in 1..Len(q)
      BY <1>6, <2>1
    <3> QED
      BY <1>1, <1>3, <1>4, <1>5, <3>1
  <2>2. CASE ~(i <= Len(b))
    <3>1. /\ i - Len(b) \in 1..Len(k) /\ (i - Len(b)) + Len(b) = i
          /\ (i - Len(b)) + Len(q) = i + 1
      BY <1>5, <1>6, <2>2
    <3>2. y[(i - Len(b)) + Len(b)] = k[i - Len(b)] /\ z[(i - Len(b)) + Len(q)] = k[i - Len(b)]
      BY <1>4, <1>5, <3>1
    <3> QED
      BY <3>1, <3>2
  <2> QED
    BY <2>1, <2>2
<1>9. ASSUME NEW i \in 1..Len(a) PROVE p[i + 1] = a[i]
  BY <1>1, <1>2
<1>10. Starts(p, z) <=> Len(p) <= Len(z) /\ \A i \in 1..Len(p) : z[i] = p[i]
  <2>1. p \in Seq(Int) /\ z \in Seq(Int)
    BY <1>2, <1>4
  <2> QED
    BY <2>1, StartsWith
<1>11. Starts(a, y) <=> Len(a) <= Len(y) /\ \A i \in 1..Len(a) : y[i] = a[i]
  BY <1>5, StartsWith
<1>12. ASSUME Starts(p, z) PROVE Starts(a, y)
  <2>1. Len(a) <= Len(y)
    BY <1>6, <1>10, <1>12
  <2>2. ASSUME NEW i \in 1..Len(a) PROVE y[i] = a[i]
    <3>1. i + 1 \in 1..Len(p) /\ i \in 1..Len(y)
      BY <1>6, <2>1
    <3> QED
      BY <1>8, <1>9, <1>10, <1>12, <3>1
  <2> QED
    BY <1>11, <2>1, <2>2
<1>13. ASSUME Starts(a, y) PROVE Starts(p, z)
  <2>1. Len(p) <= Len(z) /\ Len(a) <= Len(y)
    BY <1>6, <1>11, <1>13
  <2>2. ASSUME NEW i \in 1..Len(p) PROVE z[i] = p[i]
    <3>1. CASE i = 1
      BY <1>7, <3>1
    <3>2. CASE i # 1
      <4>1. i - 1 \in 1..Len(a) /\ i - 1 \in 1..Len(y) /\ (i - 1) + 1 = i
        BY <1>6, <2>1, <3>2
      <4>2. z[(i - 1) + 1] = y[i - 1] /\ p[(i - 1) + 1] = a[i - 1] /\ y[i - 1] = a[i - 1]
        BY <1>8, <1>9, <1>11, <1>13, <4>1
      <4> QED
        BY <4>1, <4>2
    <3> QED
      BY <3>1, <3>2
  <2> QED
    BY <1>10, <2>1, <2>2
<1>14. Starts(p, z) <=> Starts(a, y)
  BY <1>12, <1>13
<1> QED
  BY <1>14 DEF p, q, z, y, h

(* A Debug text ends where its own closing brackets are, so that one is the*)
(* start of another, whatever follows, only if the values are the same.    *)
LEMMA OtherFinds ==
  ASSUME NEW t \in {"Float", "Blob", "Boolean", "Timestamp"}, NEW v \in Of(t), NEW w \in Of(t), NEW k \in Seq(Int)
  PROVE  Starts(serialize_value(v), serialize_value(w) \o k) <=> v = w
<1> DEFINE m == TypeMark(t)  a == v.data  b == w.data
           p == <<2, DebugMark, m>> \o a \o <<DebugEnd>>
           q == <<2, DebugMark, m>> \o b \o <<DebugEnd>>
           z == q \o k
<1>1. /\ serialize_value(v) = p /\ a \in Seq(Int) /\ v = Val(t, a)
      /\ t = "Blob" => a \in Seq(Int \ {DebugEnd})
      /\ t # "Blob" => Len(a) = 1
  BY KeyOfOther
<1>2. /\ serialize_value(w) = q /\ b \in Seq(Int) /\ w = Val(t, b)
      /\ t = "Blob" => b \in Seq(Int \ {DebugEnd})
      /\ t # "Blob" => Len(b) = 1
  BY KeyOfOther
<1>3. m \in Int
  BY DEF TypeMark
<1> HIDE DEF m, a, b
<1>4. /\ p \in Seq(Int) /\ Len(p) = Len(a) + 4
      /\ \A i \in 1..Len(a) : p[i + 3] = a[i]
      /\ p[Len(a) + 4] = DebugEnd
  BY <1>1, <1>3, OtherPlaces
<1>5. /\ q \in Seq(Int) /\ Len(q) = Len(b) + 4 /\ z \in Seq(Int) /\ Len(z) = Len(b) + 4 + Len(k)
      /\ \A i \in 1..Len(b) : q[i + 3] = b[i]
      /\ q[Len(b) + 4] = DebugEnd
      /\ \A i \in 1..Len(b) + 4 : z[i] = q[i]
  BY <1>2, <1>3, OtherPlaces
<1>6. a = b => p = q
  OBVIOUS
<1> HIDE DEF p, q, z
<1>7. Len(a) \in Nat /\ Len(b) \in Nat /\ Len(k) \in Nat
  BY <1>1, <1>2
<1>8. Starts(p, z) <=> Len(p) <= Len(z) /\ \A i \in 1..Len(p) : z[i] = p[i]
  BY <1>4, <1>5, StartsWith
<1>9. ASSUME a = b PROVE Starts(p, z)
  <2>1. p = q
    BY <1>6, <1>9
  <2>2. Len(p) <= Len(z) /\ \A i \in 1..Len(p) : z[i] = p[i]
    <3>1. Len(p) = Len(b) + 4 /\ Len(p) <= Len(z)
      BY <1>5, <1>7, <2>1
    <3> QED
      BY <1>5, <2>1, <3>1
  <2> QED
    BY <1>8, <2>2
<1>10. ASSUME Starts(p, z) PROVE a = b
  <2>1. \A i \in 1..Len(a) + 4 : z[i] = p[i]
    BY <1>4, <1>8, <1>10
  <2>2. ASSUME NEW i \in Nat, i >= 1, i <= Len(a), i <= Len(b) PROVE a[i] = b[i]
    <3>1. i \in 1..Len(a) /\ i \in 1..Len(b) /\ i + 3 \in 1..Len(a) + 4 /\ i + 3 \in 1..Len(b) + 4
      BY <1>7, <2>2
    <3> QED
      BY <1>4, <1>5, <2>1, <3>1
  <2>3. Len(a) = Len(b)
    <3>1. CASE t # "Blob"
      BY <1>1, <1>2, <3>1
    <3>2. CASE t = "Blob"
      <4>0. a \in Seq(Int \ {DebugEnd}) /\ b \in Seq(Int \ {DebugEnd})
        BY <1>1, <1>2, <3>2
      <4>1. CASE Len(a) < Len(b)
        <5>1. /\ Len(a) + 1 \in 1..Len(b) /\ (Len(a) + 1) + 3 = Len(a) + 4
              /\ Len(a) + 4 \in 1..Len(a) + 4 /\ Len(a) + 4 \in 1..Len(b) + 4
          BY <1>7, <4>1
        <5>2. b[Len(a) + 1] # DebugEnd
          BY <4>0, <5>1
        <5>3. q[(Len(a) + 1) + 3] = b[Len(a) + 1]
          BY <1>5, <5>1
        <5>4. z[Len(a) + 4] = q[Len(a) + 4] /\ z[Len(a) + 4] = p[Len(a) + 4] /\ p[Len(a) + 4] = DebugEnd
          BY <1>4, <1>5, <2>1, <5>1
        <5> QED
          BY <5>1, <5>2, <5>3, <5>4
      <4>2. CASE Len(b) < Len(a)
        <5>1. /\ Len(b) + 1 \in 1..Len(a) /\ (Len(b) + 1) + 3 = Len(b) + 4
              /\ Len(b) + 4 \in 1..Len(a) + 4 /\ Len(b) + 4 \in 1..Len(b) + 4
          BY <1>7, <4>2
        <5>2. a[Len(b) + 1] # DebugEnd
          BY <4>0, <5>1
        <5>3. p[(Len(b) + 1) + 3] = a[Len(b) + 1]
          BY <1>4, <5>1
        <5>4. z[Len(b) + 4] = q[Len(b) + 4] /\ z[Len(b) + 4] = p[Len(b) + 4] /\ q[Len(b) + 4] = DebugEnd
          BY <1>5, <2>1, <5>1
        <5> QED
          BY <5>1, <5>2, <5>3, <5>4
      <4> QED
        BY <1>7, <4>1, <4>2
    <3> QED
      BY <3>1, <3>2
  <2>4. \A i \in 1..Len(a) : a[i] = b[i]
    BY <1>7, <2>2, <2>3
  <2> QED
    BY <1>1, <1>2, <2>3, <2>4, SeqEqual
<1>11. v = w <=> a = b
  BY <1>1, <1>2 DEF a, b
<1>12. Starts(p, z) <=> v = w
  BY <1>9, <1>10, <1>11
<1> QED
  BY <1>1, <1>2, <1>12 DEF z

(* scan_index_eq, which compares the key it looks for with the start of an *)
(* entry's, finds an entry, whatever primary key follows, exactly if the   *)
(* value of the row is the one looked for - except for a text, for which it*)
(* is enough to be what the row's text and the primary key begin with.     *)
THEOREM IndexFindsValue ==
  ASSUME NEW t \in Types, NEW v \in Of(t), NEW w \in Of(t), NEW k \in Seq(Int)
  PROVE  Starts(serialize_value(v), serialize_value(w) \o k)
           <=> IF t = "Text" THEN Starts(v.data, w.data \o k) ELSE v = w
<1>1. CASE t = "Integer"
  <2>1. PICK m \in Int64 : /\ v = Val("Integer", <<m>>)
                          /\ serialize_value(v) = <<1, IF m >= 0 THEN m ELSE m + 2 * MaxInt + 2>>
    BY <1>1, KeyOfInteger
  <2>2. PICK n \in Int64 : /\ w = Val("Integer", <<n>>)
                          /\ serialize_value(w) = <<1, IF n >= 0 THEN n ELSE n + 2 * MaxInt + 2>>
    BY <1>1, KeyOfInteger
  <2> DEFINE x == IF m >= 0 THEN m ELSE m + 2 * MaxInt + 2
             y == IF n >= 0 THEN n ELSE n + 2 * MaxInt + 2
  <2>3. m \in Int /\ n \in Int /\ x \in Int /\ y \in Int /\ (x = y => m = n)
    BY MaxIntAssumption DEF Int64
  <2>4. serialize_value(v) = <<1, x>> /\ serialize_value(w) = <<1, y>>
    BY <2>1, <2>2
  <2>h. m = n => x = y
    OBVIOUS
  <2> HIDE DEF x, y
  <2>5. /\ <<1, x>> \in Seq(Int) /\ Len(<<1, x>>) = 2 /\ <<1, x>>[1] = 1 /\ <<1, x>>[2] = x
        /\ <<1, y>> \in Seq(Int) /\ Len(<<1, y>>) = 2 /\ <<1, y>>[1] = 1 /\ <<1, y>>[2] = y
    BY <2>3
  <2> DEFINE p == <<1, x>>  q == <<1, y>>
  <2> HIDE DEF p, q
  <2>p. /\ p \in Seq(Int) /\ Len(p) = 2 /\ p[1] = 1 /\ p[2] = x
        /\ q \in Seq(Int) /\ Len(q) = 2 /\ q[1] = 1 /\ q[2] = y
    BY <2>5 DEF p, q
  <2>6. /\ q \o k \in Seq(Int) /\ Len(q \o k) = Len(q) + Len(k) /\ Len(k) \in Nat
        /\ \A i \in 1..Len(q) : (q \o k)[i] = q[i]
    BY <2>p, Joined
  <2>7. Starts(p, q \o k) <=> x = y
    <3>1. 1 \in 1..2 /\ 2 \in 1..2 /\ \A i \in 1..2 : i = 1 \/ i = 2
      OBVIOUS
    <3>2. Starts(p, q \o k) <=> Len(p) <= Len(q \o k) /\ \A i \in 1..Len(p) : (q \o k)[i] = p[i]
      BY <2>p, <2>6, StartsWith
    <3>3. Starts(p, q \o k) <=> \A i \in 1..2 : q[i] = p[i]
      BY <2>p, <2>6, <3>2
    <3> QED
      BY <2>p, <3>1, <3>3
  <2>8. v = w <=> m = n
    BY <2>1, <2>2 DEF Val
  <2> QED
    BY <1>1, <2>3, <2>4, <2>7, <2>8, <2>h DEF p, q
<1>2. CASE t = "Text"
  <2>1. /\ serialize_value(v) = <<2>> \o v.data /\ v.data \in Seq(Int)
        /\ serialize_value(w) = <<2>> \o w.data /\ w.data \in Seq(Int)
    BY <1>2, KeyOfText
  <2>2. Starts(<<2>> \o v.data, (<<2>> \o w.data) \o k) <=> Starts(v.data, w.data \o k)
    BY <2>1, Prefixed
  <2> QED
    BY <1>2, <2>1, <2>2
<1>3. CASE t \in {"Float", "Blob", "Boolean", "Timestamp"}
  BY <1>3, OtherFinds
<1> QED
  BY <1>1, <1>2, <1>3 DEF Types

(* The integers of a table are in the order of their bytes in redb, which  *)
(* encoding.rs calls a sorted one and which is the numbers' only among     *)
(* those of one sign: every negative key comes after all the others.       *)
THEOREM NegativeKeysLast ==
  ASSUME NEW v \in Of("Integer"), NEW w \in Of("Integer")
  PROVE  LexLess(serialize_value(v), serialize_value(w))
           <=> ((Num(v) >= 0 /\ Num(w) < 0) \/ ((Num(v) >= 0 <=> Num(w) >= 0) /\ Num(v) < Num(w)))
<1>1. PICK m \in Int64 : /\ v = Val("Integer", <<m>>)
                        /\ serialize_value(v) = <<1, IF m >= 0 THEN m ELSE m + 2 * MaxInt + 2>>
  BY KeyOfInteger
<1>2. PICK n \in Int64 : /\ w = Val("Integer", <<n>>)
                        /\ serialize_value(w) = <<1, IF n >= 0 THEN n ELSE n + 2 * MaxInt + 2>>
  BY KeyOfInteger
<1> DEFINE x == IF m >= 0 THEN m ELSE m + 2 * MaxInt + 2
           y == IF n >= 0 THEN n ELSE n + 2 * MaxInt + 2
<1>3. Num(v) = m /\ Num(w) = n
  BY <1>1, <1>2 DEF Val, Num
<1>4. x \in Int /\ y \in Int /\ (x < y <=> ((m >= 0 /\ n < 0) \/ ((m >= 0 <=> n >= 0) /\ m < n)))
  BY MaxIntAssumption DEF Int64
<1>5. serialize_value(v) = <<1, x>> /\ serialize_value(w) = <<1, y>>
  BY <1>1, <1>2
<1> HIDE DEF x, y
<1> DEFINE p == <<1, x>>  q == <<1, y>>
<1>6. p[1] = 1 /\ p[2] = x /\ Len(p) = 2 /\ q[1] = 1 /\ q[2] = y /\ Len(q) = 2
  OBVIOUS
<1> HIDE DEF p, q
<1>7. LexLess(p, q) <=> x < y
  <2>1. ASSUME LexLess(p, q) PROVE x < y
    <3>1. PICK i \in 0..2 : /\ i <= 2 /\ \A j \in 1..i : p[j] = q[j]
                            /\ \/ i = 2 /\ i < 2
                               \/ i < 2 /\ i < 2 /\ p[i + 1] < q[i + 1]
      BY <1>6, <2>1 DEF LexLess
    <3>2. i = 0 \/ i = 1
      BY <3>1
    <3> QED
      BY <1>4, <1>6, <3>1, <3>2
  <2>2. ASSUME x < y PROVE LexLess(p, q)
    <3>1. 1 \in 0..Len(p) /\ 1 <= Len(q) /\ 1 < Len(p) /\ 1 < Len(q) /\ \A j \in 1..1 : p[j] = q[j]
      BY <1>6
    <3>2. p[1 + 1] < q[1 + 1]
      BY <1>6, <2>2
    <3> QED
      BY <3>1, <3>2 DEF LexLess
  <2> QED
    BY <2>1, <2>2
<1> QED
  BY <1>3, <1>4, <1>5, <1>7 DEF p, q

(* What deserialize_value reads back of an integer, a text or a NULL is the*)
(* value whose bytes it is given.                                          *)
THEOREM KeysDecode ==
  ASSUME NEW t \in {"Integer", "Text", "Null"}, NEW v \in Of(t)
  PROVE  deserialize_value(serialize_value(v)) = v
<1>1. CASE t = "Integer"
  <2>1. PICK n \in Int64 : /\ v = Val("Integer", <<n>>)
                          /\ serialize_value(v) = <<1, IF n >= 0 THEN n ELSE n + 2 * MaxInt + 2>>
    BY <1>1, KeyOfInteger
  <2> DEFINE x == IF n >= 0 THEN n ELSE n + 2 * MaxInt + 2
  <2>2. (IF x > MaxInt THEN x - 2 * MaxInt - 2 ELSE x) = n
    BY MaxIntAssumption DEF Int64
  <2> HIDE DEF x
  <2>3. deserialize_value(<<1, x>>) = Integer(IF x > MaxInt THEN x - 2 * MaxInt - 2 ELSE x)
    BY DEF deserialize_value
  <2> QED
    BY <2>1, <2>2, <2>3 DEF x, Integer
<1>2. CASE t = "Text"
  <2>1. PICK d \in Seq(Int) : v = Val("Text", d)
    BY <1>2 DEF Of, Data
  <2>2. v.data = d /\ serialize_value(v) = <<2>> \o d
    BY <1>2, <2>1, KeyOfText DEF Val
  <2> DEFINE s == <<2>> \o d
  <2>3. <<2>> \in Seq(Int) /\ Len(<<2>>) = 1 /\ <<2>>[1] = 2
    OBVIOUS
  <2>4. /\ s \in Seq(Int) /\ Len(s) = Len(d) + 1 /\ s[1] = 2 /\ Len(d) \in Nat
        /\ \A i \in 1..Len(d) : s[i + 1] = d[i]
    BY <2>3, Joined
  <2> HIDE DEF s
  <2>5. s # <<>>
    BY <2>4
  <2>6. Tail(s) \in Seq(Int) /\ Len(Tail(s)) = Len(d) /\ \A i \in 1..Len(d) : Tail(s)[i] = d[i]
    BY <2>4, <2>5, HeadTailProperties
  <2>7. Tail(s) = d
    BY <2>6, SeqEqual
  <2>8. deserialize_value(s) = Text(Tail(s))
    BY <2>4 DEF deserialize_value
  <2> QED
    BY <2>1, <2>2, <2>7, <2>8 DEF Text, s
<1>3. CASE t = "Null"
  <2>1. v = Null
    BY <1>3 DEF Of, Data, Null
  <2>2. serialize_value(Null) = <<0>> /\ deserialize_value(<<0>>) = Null
    BY DEF serialize_value, deserialize_value, Null, Val
  <2> QED
    BY <2>1, <2>2
<1> QED
  BY <1>1, <1>2, <1>3

-----------------------------------------------------------------------------
(* Among, element by element.                                              *)

(* Induction over the natural numbers, for a set of them.                  *)
LEMMA Induction ==
  ASSUME NEW P, P \subseteq Nat, 0 \in P, \A n \in P : n + 1 \in P
  PROVE  P = Nat
<1> SUFFICES ASSUME Nat \ P # {} PROVE FALSE
  OBVIOUS
<1>1. PICK x \in Nat \ P : \A y \in Nat \ P : x <= y
  BY LeastNumber
<1>2. x - 1 \in Nat /\ x - 1 \notin Nat \ P
  BY <1>1
<1> QED
  BY <1>1, <1>2

(* One element at a time: what Among keeps of the first n.                 *)
KeptUpTo(g, s, S, m) ==
  g = [n \in 0..m |-> IF n = 0 THEN <<>> ELSE IF s[n] \in S THEN Append(g[n - 1], s[n]) ELSE g[n - 1]]

LEMMA KeptAt ==
  ASSUME NEW g, NEW s, NEW S, NEW m \in Nat, KeptUpTo(g, s, S, m)
  PROVE  /\ g[0] = <<>>
         /\ \A n \in Nat : n + 1 <= m => g[n + 1] = IF s[n + 1] \in S THEN Append(g[n], s[n + 1]) ELSE g[n]
<1>1. g[0] = <<>>
  BY DEF KeptUpTo
<1>2. ASSUME NEW n \in Nat, n + 1 <= m
      PROVE  g[n + 1] = IF s[n + 1] \in S THEN Append(g[n], s[n + 1]) ELSE g[n]
  <2>1. PICK i \in 0..m : i = n + 1
    BY <1>2
  <2>2. g[i] = IF i = 0 THEN <<>> ELSE IF s[i] \in S THEN Append(g[i - 1], s[i]) ELSE g[i - 1]
    BY DEF KeptUpTo
  <2>3. i # 0 /\ i - 1 = n
    BY <2>1
  <2> QED
    BY <2>1, <2>2, <2>3
<1> QED
  BY <1>1, <1>2

(* There is such a function, and so the one Among is defined by has its    *)
(* values.                                                                 *)
LEMMA KeptExists ==
  ASSUME NEW s, NEW S, NEW k \in Nat
  PROVE  \E g : KeptUpTo(g, s, S, k)
<1> DEFINE P == {m \in Nat : \E g : KeptUpTo(g, s, S, m)}
<1>1. 0 \in P
  <2>1. KeptUpTo([n \in 0..0 |-> <<>>], s, S, 0)
    BY DEF KeptUpTo
  <2> QED
    BY <2>1
<1>2. ASSUME NEW m \in P PROVE m + 1 \in P
  <2>1. PICK g : KeptUpTo(g, s, S, m)
    OBVIOUS
  <2> DEFINE next == IF s[m + 1] \in S THEN Append(g[m], s[m + 1]) ELSE g[m]
             h == [n \in 0..m + 1 |-> IF n = m + 1 THEN next ELSE g[n]]
  <2>2. ASSUME NEW n \in 0..m + 1
        PROVE  h[n] = IF n = 0 THEN <<>> ELSE IF s[n] \in S THEN Append(h[n - 1], s[n]) ELSE h[n - 1]
    <3>1. CASE n = m + 1
      BY <3>1
    <3>2. CASE n \in 0..m
      <4>1. g[n] = IF n = 0 THEN <<>> ELSE IF s[n] \in S THEN Append(g[n - 1], s[n]) ELSE g[n - 1]
        BY <2>1, <3>2 DEF KeptUpTo
      <4>2. h[n] = g[n] /\ (n # 0 => h[n - 1] = g[n - 1])
        BY <3>2
      <4> HIDE DEF h
      <4> QED
        BY <4>1, <4>2
    <3> QED
      BY <3>1, <3>2
  <2>3. DOMAIN h = 0..m + 1 /\ h = [n \in 0..m + 1 |-> h[n]]
    OBVIOUS
  <2> HIDE DEF h
  <2>4. KeptUpTo(h, s, S, m + 1)
    BY <2>2, <2>3 DEF KeptUpTo
  <2> QED
    BY <2>4
<1>3. P = Nat
  BY <1>1, <1>2, Induction
<1> QED
  BY <1>3

LEMMA AmongIs ==
  ASSUME NEW S, NEW T, NEW s \in Seq(T)
  PROVE  \E g : KeptUpTo(g, s, S, Len(s)) /\ Among(s, S) = g[Len(s)]
<1> DEFINE kept == CHOOSE g : KeptUpTo(g, s, S, Len(s))
<1>1. KeptUpTo(kept, s, S, Len(s))
  BY KeptExists
<1>2. Among(s, S) = kept[Len(s)]
  BY DEF Among, KeptUpTo
<1> QED
  BY <1>1, <1>2

(* What is kept of the first elements does not depend on those after them. *)
LEMMA KeptOnce ==
  ASSUME NEW s, NEW t, NEW S, NEW m \in Nat, NEW k \in Nat, m <= k, NEW g, NEW h,
         KeptUpTo(g, s, S, m), KeptUpTo(h, t, S, k), \A i \in 1..m : s[i] = t[i]
  PROVE  g[m] = h[m]
<1> DEFINE P == {n \in Nat : n <= m => g[n] = h[n]}
<1>1. 0 \in P
  BY DEF KeptUpTo
<1>2. ASSUME NEW n \in P PROVE n + 1 \in P
  <2> SUFFICES ASSUME n + 1 <= m PROVE g[n + 1] = h[n + 1]
    OBVIOUS
  <2>1. g[n + 1] = IF s[n + 1] \in S THEN Append(g[n], s[n + 1]) ELSE g[n]
    BY KeptAt
  <2>2. h[n + 1] = IF t[n + 1] \in S THEN Append(h[n], t[n + 1]) ELSE h[n]
    BY KeptAt
  <2> QED
    BY <2>1, <2>2
<1>3. P = Nat
  BY <1>1, <1>2, Induction
<1> QED
  BY <1>3

(* Among, one element more.                                                *)
LEMMA AmongStep ==
  ASSUME NEW S, NEW T, NEW s \in Seq(T), NEW x \in T
  PROVE  /\ Among(<<>>, S) = <<>>
         /\ Among(Append(s, x), S) = IF x \in S THEN Append(Among(s, S), x) ELSE Among(s, S)
<1>1. PICK g : KeptUpTo(g, s, S, Len(s)) /\ Among(s, S) = g[Len(s)]
  BY AmongIs
<1> DEFINE t == Append(s, x)
<1>2. t \in Seq(T) /\ Len(t) = Len(s) + 1 /\ t[Len(s) + 1] = x /\ \A i \in 1..Len(s) : s[i] = t[i]
  OBVIOUS
<1> HIDE DEF t
<1>3. PICK h : KeptUpTo(h, t, S, Len(t)) /\ Among(t, S) = h[Len(t)]
  BY <1>2, AmongIs
<1>4. Len(s) \in Nat /\ Len(t) \in Nat /\ Len(s) <= Len(t)
  BY <1>2
<1>5. g[Len(s)] = h[Len(s)]
  BY <1>1, <1>2, <1>3, <1>4, KeptOnce
<1>6. h[Len(s) + 1] = IF t[Len(s) + 1] \in S THEN Append(h[Len(s)], t[Len(s) + 1]) ELSE h[Len(s)]
  BY <1>3, <1>2, <1>4, KeptAt
<1>7. Among(<<>>, S) = <<>>
  <2> <<>> \in Seq(T)
    OBVIOUS
  <2>1. PICK f : KeptUpTo(f, <<>>, S, Len(<<>>)) /\ Among(<<>>, S) = f[Len(<<>>)]
    BY AmongIs
  <2> QED
    BY <2>1 DEF KeptUpTo
<1> QED
  BY <1>1, <1>2, <1>3, <1>5, <1>6, <1>7 DEF t

(* The places in s of the elements of t: in the same order, all there are. *)
Places(f, s, S, t) ==
  /\ f \in [1..Len(t) -> 1..Len(s)]
  /\ \A k \in 1..Len(t) : t[k] = s[f[k]] /\ t[k] \in S
  /\ \A j, k \in 1..Len(t) : j < k => f[j] < f[k]
  /\ \A i \in 1..Len(s) : s[i] \in S => \E k \in 1..Len(t) : f[k] = i

(* What Among keeps is in the order it was, and is all there is.           *)
LEMMA AmongFacts ==
  ASSUME NEW S, NEW T, NEW s \in Seq(T)
  PROVE  Among(s, S) \in Seq(T) /\ \E f : Places(f, s, S, Among(s, S))
<1> DEFINE Good(u) == Among(u, S) \in Seq(T) /\ \E f : Places(f, u, S, Among(u, S))
           P == {n \in Nat : \A u \in Seq(T) : Len(u) = n => Good(u)}
<1>1. 0 \in P
  <2> SUFFICES ASSUME NEW u \in Seq(T), Len(u) = 0 PROVE Good(u)
    OBVIOUS
  <2>1. u = <<>>
    OBVIOUS
  <2>2. Among(u, S) = <<>>
    <3>1. PICK f : KeptUpTo(f, u, S, Len(u)) /\ Among(u, S) = f[Len(u)]
      BY AmongIs
    <3> QED
      BY <3>1 DEF KeptUpTo
  <2>3. Places([k \in {} |-> 1], u, S, <<>>)
    BY <2>1 DEF Places
  <2> QED
    BY <2>2, <2>3
<1>2. ASSUME NEW n \in P PROVE n + 1 \in P
  <2> SUFFICES ASSUME NEW u \in Seq(T), Len(u) = n + 1 PROVE Good(u)
    OBVIOUS
  <2> DEFINE v == SubSeq(u, 1, n)  x == u[n + 1]
  <2>1. v \in Seq(T) /\ Len(v) = n /\ x \in T /\ u = Append(v, x) /\ \A i \in 1..n : v[i] = u[i]
    OBVIOUS
  <2>2. Good(v)
    BY <2>1
  <2> HIDE DEF v, x
  <2> DEFINE a == Among(v, S)
  <2>3. PICK f : Places(f, v, S, a)
    BY <2>2
  <2>4. a \in Seq(T) /\ Among(u, S) = IF x \in S THEN Append(a, x) ELSE a
    BY <2>1, <2>2, AmongStep
  <2> HIDE DEF a
  <2>5. CASE x \in S
    <3> DEFINE b == Append(a, x)
               g == [k \in 1..Len(a) + 1 |-> IF k = Len(a) + 1 THEN n + 1 ELSE f[k]]
    <3>1. b \in Seq(T) /\ Len(b) = Len(a) + 1 /\ b[Len(a) + 1] = x /\ \A i \in 1..Len(a) : b[i] = a[i]
      BY <2>1, <2>4
    <3>2. u[n + 1] = x /\ n \in Nat /\ Len(a) \in Nat
      BY <2>4 DEF x
    <3> HIDE DEF b
    <3>3. /\ \A k \in 1..Len(a) : f[k] \in 1..n /\ g[k] = f[k] /\ g[k] \in 1..n + 1
          /\ g[Len(a) + 1] = n + 1
      BY <2>1, <2>3, <3>2 DEF Places
    <3>a. g = [k \in 1..Len(a) + 1 |-> g[k]]
      OBVIOUS
    <3> HIDE DEF g
    <3>0. \A k \in 1..Len(a) + 1 : k \in 1..Len(a) \/ k = Len(a) + 1
      BY <3>2
    <3>4. g \in [1..Len(b) -> 1..Len(u)]
      <4>1. \A k \in 1..Len(a) + 1 : g[k] \in 1..n + 1
        BY <3>0, <3>2, <3>3
      <4> QED
        BY <3>1, <3>a, <4>1, <2>1
    <3>5. \A k \in 1..Len(b) : b[k] = u[g[k]] /\ b[k] \in S
      <4>1. ASSUME NEW k \in 1..Len(a) PROVE b[k] = u[g[k]] /\ b[k] \in S
        <5>1. a[k] = v[f[k]] /\ a[k] \in S
          BY <2>3 DEF Places
        <5> QED
          BY <5>1, <2>1, <3>1, <3>3
      <4>2. b[Len(a) + 1] = u[g[Len(a) + 1]] /\ b[Len(a) + 1] \in S
        BY <2>5, <3>1, <3>2, <3>3
      <4> QED
        BY <4>1, <4>2, <3>0, <3>1
    <3>6. \A j, k \in 1..Len(b) : j < k => g[j] < g[k]
      <4> SUFFICES ASSUME NEW j \in 1..Len(a) + 1, NEW k \in 1..Len(a) + 1, j < k PROVE g[j] < g[k]
        BY <3>1
      <4>1. j \in 1..Len(a)
        BY <3>2
      <4>2. CASE k \in 1..Len(a)
        BY <2>3, <3>3, <4>1, <4>2 DEF Places
      <4>3. CASE k = Len(a) + 1
        BY <3>2, <3>3, <4>1, <4>3
      <4> QED
        BY <3>0, <4>2, <4>3
    <3>7. ASSUME NEW i \in 1..Len(u), u[i] \in S PROVE \E k \in 1..Len(b) : g[k] = i
      <4>1. CASE i = n + 1
        BY <4>1, <3>1, <3>2, <3>3
      <4>2. CASE i \in 1..n
        <5>1. PICK k \in 1..Len(a) : f[k] = i
          BY <4>2, <2>1, <2>3, <3>7 DEF Places
        <5> QED
          BY <5>1, <3>1, <3>2, <3>3
      <4> QED
        BY <4>1, <4>2, <3>2
    <3>8. Places(g, u, S, b)
      BY <3>4, <3>5, <3>6, <3>7 DEF Places
    <3> QED
      BY <2>4, <2>5, <3>1, <3>8 DEF b
  <2>6. CASE x \notin S
    <3>1. u[n + 1] = x /\ n \in Nat /\ Len(a) \in Nat
      BY <2>4 DEF x
    <3>2. Places(f, u, S, a)
      <4>1. \A k \in 1..Len(a) : f[k] \in 1..n
        BY <2>1, <2>3 DEF Places
      <4>2. f \in [1..Len(a) -> 1..Len(u)]
        BY <2>3, <2>1, <4>1, <3>1 DEF Places
      <4>3. \A i \in 1..Len(u) : u[i] \in S => i \in 1..n
        BY <2>6, <3>1
      <4> QED
        BY <2>1, <2>3, <4>1, <4>2, <4>3 DEF Places
    <3> QED
      BY <2>4, <2>6, <3>2
  <2> QED
    BY <2>5, <2>6
<1>3. P = Nat
  <2> HIDE DEF Good
  <2> QED
    BY <1>1, <1>2, Induction
<1>4. Len(s) \in P
  BY <1>3
<1> QED
  BY <1>4

-----------------------------------------------------------------------------
(* Sets in order, and what Among keeps of them.                            *)

(* Two sequences of the same elements are the same.                        *)
LEMMA SameSeq ==
  ASSUME NEW S, NEW s \in Seq(S), NEW t \in Seq(S), Len(s) = Len(t), \A i \in 1..Len(s) : s[i] = t[i]
  PROVE  s = t
OBVIOUS

LEMMA UpTo ==
  ASSUME NEW m \in Nat
  PROVE  IsFiniteSet(1..m) /\ Cardinality(1..m) = m
<1>1. IsFiniteSet(1..m) /\ Cardinality(1..m) = IF 1 > m THEN 0 ELSE m - 1 + 1
  BY FS_Interval
<1> QED
  BY <1>1

(* What Among keeps: the elements of s that are in S, none twice if s has  *)
(* none twice.                                                             *)
LEMMA AmongElements ==
  ASSUME NEW S, NEW T, NEW s \in Seq(T)
  PROVE  LET a == Among(s, S) IN
         /\ a \in Seq(T) /\ Len(a) \in Nat
         /\ {a[k] : k \in 1..Len(a)} = {s[i] : i \in 1..Len(s)} \cap S
         /\ (\A i, j \in 1..Len(s) : s[i] = s[j] => i = j) => \A i, j \in 1..Len(a) : a[i] = a[j] => i = j
         /\ Len(a) = Cardinality({i \in 1..Len(s) : s[i] \in S})
<1> DEFINE a == Among(s, S)
<1>1. PICK f : Places(f, s, S, a)
  BY AmongFacts
<1>2. a \in Seq(T) /\ Len(a) \in Nat /\ Len(s) \in Nat
  BY AmongFacts
<1> HIDE DEF a
<1>3. {a[k] : k \in 1..Len(a)} = {s[i] : i \in 1..Len(s)} \cap S
  <2>1. ASSUME NEW k \in 1..Len(a) PROVE \E i \in 1..Len(s) : a[k] = s[i] /\ a[k] \in S
    BY <1>1 DEF Places
  <2>2. ASSUME NEW i \in 1..Len(s), s[i] \in S PROVE \E k \in 1..Len(a) : a[k] = s[i]
    BY <1>1, <2>2 DEF Places
  <2>3. ASSUME NEW x PROVE x \in {a[k] : k \in 1..Len(a)} <=> (x \in {s[i] : i \in 1..Len(s)} /\ x \in S)
    BY <2>1, <2>2
  <2> QED
    BY <2>3
<1>4. ASSUME NEW i \in 1..Len(a), NEW j \in 1..Len(a), f[i] = f[j] PROVE i = j
  <2>1. f[i] \in 1..Len(s) /\ f[j] \in 1..Len(s)
    BY <1>1 DEF Places
  <2>2. (i < j => f[i] < f[j]) /\ (j < i => f[j] < f[i])
    BY <1>1 DEF Places
  <2> QED
    BY <2>1, <2>2, <1>2, <1>4
<1>5. ASSUME \A i, j \in 1..Len(s) : s[i] = s[j] => i = j, NEW i \in 1..Len(a), NEW j \in 1..Len(a), a[i] = a[j]
      PROVE  i = j
  BY <1>1, <1>4, <1>5 DEF Places
<1>6. Len(a) = Cardinality({i \in 1..Len(s) : s[i] \in S})
  <2> DEFINE I == {i \in 1..Len(s) : s[i] \in S}
  <2>1. f \in Bijection(1..Len(a), I)
    <3>1. f \in [1..Len(a) -> I]
      BY <1>1 DEF Places
    <3>2. \A i \in I : \E k \in 1..Len(a) : f[k] = i
      BY <1>1 DEF Places
    <3>3. IsInjective(f)
      BY <1>4, <3>1 DEF IsInjective
    <3> QED
      BY <3>1, <3>2, <3>3 DEF Bijection, Injection, Surjection
  <2>2. IsFiniteSet(1..Len(a)) /\ Cardinality(1..Len(a)) = Len(a)
    BY <1>2, UpTo
  <2> HIDE DEF I
  <2>3. Cardinality(I) = Cardinality(1..Len(a))
    BY <2>1, <2>2, FS_Bijection DEF ExistsBijection
  <2> QED
    BY <2>2, <2>3 DEF I
<1> QED
  BY <1>2, <1>3, <1>5, <1>6 DEF a

(* How many come before an element, by an order given as a set of pairs.   *)
Before(S, R, x) == {y \in S \ {x} : <<y, x>> \in R}
StrictOrder(S, R) ==
  /\ \A x, y \in S : x # y => (<<x, y>> \in R <=> <<y, x>> \notin R)
  /\ \A x, y, z \in S : x # y /\ y # z /\ x # z /\ <<x, y>> \in R /\ <<y, z>> \in R => <<x, z>> \in R

(* What comes later has more elements before it.                           *)
LEMMA RankRises ==
  ASSUME NEW S, IsFiniteSet(S), NEW R, StrictOrder(S, R), NEW x \in S
  PROVE  /\ Cardinality(Before(S, R, x)) \in 0..Cardinality(S) - 1
         /\ \A y \in S : x # y /\ <<x, y>> \in R =>
              Cardinality(Before(S, R, x)) < Cardinality(Before(S, R, y))
<1>1. ASSUME NEW y \in S PROVE IsFiniteSet(Before(S, R, y)) /\ Cardinality(Before(S, R, y)) \in Nat
  BY FS_Subset, FS_CardinalityType DEF Before
<1>2. Cardinality(Before(S, R, x)) \in 0..Cardinality(S) - 1
  <2>1. IsFiniteSet(S \ {x}) /\ Cardinality(S \ {x}) = Cardinality(S) - 1
    BY FS_RemoveElement
  <2>2. Cardinality(Before(S, R, x)) <= Cardinality(S \ {x})
    BY <2>1, FS_Subset DEF Before
  <2> QED
    BY <1>1, <2>1, <2>2, FS_CardinalityType
<1>3. ASSUME NEW y \in S, x # y, <<x, y>> \in R
      PROVE  Cardinality(Before(S, R, x)) < Cardinality(Before(S, R, y))
  <2>1. Before(S, R, x) \cup {x} \subseteq Before(S, R, y)
    BY <1>3 DEF Before, StrictOrder
  <2>2. x \notin Before(S, R, x)
    BY DEF Before
  <2>3. /\ IsFiniteSet(Before(S, R, x) \cup {x})
        /\ Cardinality(Before(S, R, x) \cup {x}) = Cardinality(Before(S, R, x)) + 1
    BY <1>1, <2>2, FS_AddElement
  <2>4. Cardinality(Before(S, R, x) \cup {x}) <= Cardinality(Before(S, R, y))
    BY <1>1, <2>1, FS_Subset
  <2> QED
    BY <1>1, <2>3, <2>4
<1> QED
  BY <1>2, <1>3

(* In an order that is strict and total every place is taken, once.        *)
LEMMA RankIsPlace ==
  ASSUME NEW S, IsFiniteSet(S), NEW R, StrictOrder(S, R)
  PROVE  /\ \A n \in 1..Cardinality(S) : \E x \in S : Cardinality(Before(S, R, x)) = n - 1
         /\ \A x, y \in S : Cardinality(Before(S, R, x)) = Cardinality(Before(S, R, y)) => x = y
         /\ \A x \in S : \E n \in 1..Cardinality(S) : Cardinality(Before(S, R, x)) = n - 1
<1> DEFINE rank == [x \in S |-> Cardinality(Before(S, R, x))]
<1>0. Cardinality(S) \in Nat
  BY FS_CardinalityType
<1>1. rank \in [S -> 0..Cardinality(S) - 1]
  BY RankRises
<1>2. ASSUME NEW x \in S, NEW y \in S, rank[x] = rank[y] PROVE x = y
  <2> SUFFICES ASSUME x # y PROVE FALSE
    OBVIOUS
  <2>1. rank[x] \in Nat /\ rank[y] \in Nat
    BY <1>0, <1>1
  <2>2. <<x, y>> \in R \/ <<y, x>> \in R
    BY DEF StrictOrder
  <2>3. rank[x] < rank[y] \/ rank[y] < rank[x]
    BY <2>2, RankRises
  <2> HIDE DEF rank
  <2> QED
    BY <1>2, <2>1, <2>3
<1>3. rank \in Injection(S, 0..Cardinality(S) - 1)
  BY <1>1, <1>2 DEF Injection, IsInjective
<1>4. IsFiniteSet(0..Cardinality(S) - 1) /\ Cardinality(0..Cardinality(S) - 1) = Cardinality(S)
  BY <1>0, FS_Interval
<1>5. rank \in Surjection(S, 0..Cardinality(S) - 1)
  <2> HIDE DEF rank
  <2> QED
    BY <1>3, <1>4, FS_Injection
<1>6. ASSUME NEW n \in 1..Cardinality(S) PROVE \E x \in S : Cardinality(Before(S, R, x)) = n - 1
  <2>1. n - 1 \in 0..Cardinality(S) - 1
    BY <1>0
  <2>2. \E x \in S : rank[x] = n - 1
    <3> HIDE DEF rank
    <3> QED
      BY <1>5, <2>1 DEF Surjection
  <2> QED
    BY <2>2
<1>7. ASSUME NEW x \in S PROVE \E n \in 1..Cardinality(S) : Cardinality(Before(S, R, x)) = n - 1
  <2>1. PICK m \in 0..Cardinality(S) - 1 : m = Cardinality(Before(S, R, x))
    BY RankRises
  <2>2. m + 1 \in 1..Cardinality(S) /\ m = m + 1 - 1
    BY <1>0
  <2> QED
    BY <2>1, <2>2
<1> QED
  BY <1>2, <1>6, <1>7

(* What InOrder gives is such a listing.                                   *)
Lists(g, S, R) ==
  /\ g = [n \in 1..Cardinality(S) |-> g[n]]
  /\ \A n \in 1..Cardinality(S) : g[n] \in S /\ Cardinality(Before(S, R, g[n])) = n - 1

LEMMA ListFacts ==
  ASSUME NEW S, IsFiniteSet(S), NEW R, StrictOrder(S, R), NEW g, Lists(g, S, R)
  PROVE  /\ g \in Seq(S) /\ Len(g) = Cardinality(S) /\ Cardinality(S) \in Nat
         /\ {g[n] : n \in 1..Len(g)} = S
         /\ \A m, n \in 1..Len(g) : g[m] = g[n] => m = n
         /\ \A m, n \in 1..Len(g) : m < n => <<g[m], g[n]>> \in R
<1>1. Cardinality(S) \in Nat
  BY FS_CardinalityType
<1>2. g \in Seq(S) /\ Len(g) = Cardinality(S)
  <2>1. g \in [1..Cardinality(S) -> S]
    BY DEF Lists
  <2> QED
    BY <1>1, <2>1
<1>3. \A n \in 1..Len(g) : g[n] \in S /\ Cardinality(Before(S, R, g[n])) = n - 1
  BY <1>2 DEF Lists
<1>4. ASSUME NEW m \in 1..Len(g), NEW n \in 1..Len(g), g[m] = g[n] PROVE m = n
  <2>1. m - 1 = n - 1
    BY <1>3, <1>4
  <2> QED
    BY <2>1, <1>1, <1>2
<1>5. ASSUME NEW m \in 1..Len(g), NEW n \in 1..Len(g), m < n PROVE <<g[m], g[n]>> \in R
  <2>1. g[m] \in S /\ g[n] \in S /\ g[m] # g[n]
    BY <1>1, <1>2, <1>3, <1>4, <1>5
  <2> SUFFICES ASSUME <<g[n], g[m]>> \in R PROVE FALSE
    BY <2>1 DEF StrictOrder
  <2>2. Cardinality(Before(S, R, g[n])) < Cardinality(Before(S, R, g[m]))
    BY <2>1, RankRises
  <2>3. n - 1 < m - 1
    BY <2>2, <1>3
  <2> QED
    BY <2>3, <1>1, <1>2, <1>5
<1>6. {g[n] : n \in 1..Len(g)} = S
  <2>1. ASSUME NEW x \in S PROVE \E n \in 1..Len(g) : g[n] = x
    <3>0. \E n \in 1..Cardinality(S) : Cardinality(Before(S, R, x)) = n - 1
      BY RankIsPlace
    <3>1. PICK n \in 1..Len(g) : Cardinality(Before(S, R, x)) = n - 1
      BY <1>2, <3>0
    <3>2. Cardinality(Before(S, R, g[n])) = n - 1 /\ g[n] \in S
      BY <1>3
    <3>3. g[n] = x
      BY <3>1, <3>2, RankIsPlace
    <3> QED
      BY <3>3
  <2> QED
    BY <1>3, <2>1
<1> QED
  BY <1>1, <1>2, <1>4, <1>5, <1>6

-----------------------------------------------------------------------------
(* Sequences of sequences.                                                 *)

(* One sequence after the other.                                           *)
Join(s, t) == s \o t
FlatUpTo(g, s, m) == g = [i \in 1..m |-> IF i = 1 THEN s[i] ELSE Join(g[i - 1], s[i])]

LEMMA FlatAt ==
  ASSUME NEW g, NEW s, NEW m \in Nat, FlatUpTo(g, s, m)
  PROVE  /\ m >= 1 => g[1] = s[1]
         /\ \A n \in Nat : n >= 1 /\ n + 1 <= m => g[n + 1] = Join(g[n], s[n + 1])
<1>1. ASSUME NEW i \in 1..m PROVE g[i] = IF i = 1 THEN s[i] ELSE Join(g[i - 1], s[i])
  BY DEF FlatUpTo
<1>2. m >= 1 => 1 \in 1..m
  OBVIOUS
<1>3. ASSUME NEW n \in Nat, n >= 1, n + 1 <= m PROVE g[n + 1] = Join(g[n], s[n + 1])
  <2>1. PICK i \in 1..m : i = n + 1
    BY <1>3
  <2>2. i # 1 /\ i - 1 = n
    BY <1>3, <2>1
  <2> QED
    BY <1>1, <2>1, <2>2
<1> QED
  BY <1>1, <1>2, <1>3

(* There is such a function, and so the one FlattenSeq is defined by has   *)
(* its values.                                                             *)
LEMMA FlatExists ==
  ASSUME NEW s, NEW k \in Nat
  PROVE  \E g : FlatUpTo(g, s, k)
<1> DEFINE S == {m \in Nat : \E g : FlatUpTo(g, s, m)}
<1>1. 0 \in S
  <2>1. FlatUpTo([i \in 1..0 |-> s], s, 0)
    BY DEF FlatUpTo
  <2> QED
    BY <2>1
<1>2. ASSUME NEW m \in S PROVE m + 1 \in S
  <2>1. PICK g : FlatUpTo(g, s, m)
    OBVIOUS
  <2> DEFINE next == IF m = 0 THEN s[m + 1] ELSE Join(g[m], s[m + 1])
             h == [n \in 1..m + 1 |-> IF n = m + 1 THEN next ELSE g[n]]
  <2>2. ASSUME NEW n \in 1..m + 1
        PROVE  h[n] = IF n = 1 THEN s[n] ELSE Join(h[n - 1], s[n])
    <3>1. CASE n = m + 1 /\ m = 0
      BY <3>1
    <3>2. CASE n = m + 1 /\ m # 0
      <4>1. h[n] = next /\ n # 1 /\ h[n - 1] = g[m]
        BY <3>2
      <4>2. next = Join(g[m], s[m + 1])
        BY <3>2
      <4> HIDE DEF h, next
      <4> QED
        BY <3>2, <4>1, <4>2
    <3>3. CASE n \in 1..m
      <4>1. g[n] = IF n = 1 THEN s[n] ELSE Join(g[n - 1], s[n])
        BY <2>1, <3>3 DEF FlatUpTo
      <4>2. h[n] = g[n] /\ (n # 1 => h[n - 1] = g[n - 1])
        BY <3>3
      <4> HIDE DEF h
      <4> QED
        BY <4>1, <4>2
    <3> QED
      BY <3>1, <3>2, <3>3
  <2>3. DOMAIN h = 1..m + 1 /\ h = [n \in 1..m + 1 |-> h[n]]
    OBVIOUS
  <2> HIDE DEF h
  <2>4. FlatUpTo(h, s, m + 1)
    BY <2>2, <2>3 DEF FlatUpTo
  <2> QED
    BY <2>4
<1>3. S = Nat
  BY <1>1, <1>2, Induction
<1> QED
  BY <1>3

LEMMA FlatIs ==
  ASSUME NEW T, NEW s \in Seq(T), s # <<>>
  PROVE  \E g : FlatUpTo(g, s, Len(s)) /\ FlattenSeq(s) = g[Len(s)]
<1> DEFINE flatten == CHOOSE g : FlatUpTo(g, s, Len(s))
<1>0. \E g : FlatUpTo(g, s, Len(s))
  BY Len(s) \in Nat, FlatExists
<1>1. FlatUpTo(flatten, s, Len(s))
  BY <1>0, Zenon
<1>2. FlattenSeq(s) = flatten[Len(s)]
  BY DEF FlattenSeq, FlatUpTo, Join
<1> QED
  BY <1>1, <1>2

(* The first sequences, flattened, do not depend on those after them.      *)
LEMMA FlatOnce ==
  ASSUME NEW s, NEW t, NEW m \in Nat, NEW k \in Nat, m <= k, NEW g, NEW h,
         FlatUpTo(g, s, m), FlatUpTo(h, t, k), \A i \in 1..m : s[i] = t[i], m >= 1
  PROVE  g[m] = h[m]
<1>a. \A n \in Nat : n >= 1 /\ n + 1 <= m => g[n + 1] = Join(g[n], s[n + 1])
  BY FlatAt
<1>b. \A n \in Nat : n >= 1 /\ n + 1 <= k => h[n + 1] = Join(h[n], t[n + 1])
  BY FlatAt
<1> DEFINE P == {n \in Nat : n + 1 <= m => g[n + 1] = h[n + 1]}
<1>1. 0 \in P
  BY FlatAt
<1>2. ASSUME NEW n \in P PROVE n + 1 \in P
  <2> SUFFICES ASSUME n + 1 + 1 <= m PROVE g[n + 1 + 1] = h[n + 1 + 1]
    OBVIOUS
  <2> DEFINE i == n + 1
  <2>0. i \in Nat /\ i >= 1 /\ i + 1 <= m /\ i + 1 <= k /\ g[i] = h[i] /\ s[i + 1] = t[i + 1]
    OBVIOUS
  <2> HIDE DEF i
  <2>1. g[i + 1] = Join(g[i], s[i + 1])
    BY <1>a, <2>0
  <2>2. h[i + 1] = Join(h[i], t[i + 1])
    BY <1>b, <2>0
  <2> QED
    BY <2>0, <2>1, <2>2 DEF i
<1>3. P = Nat
  BY <1>1, <1>2, Induction
<1>4. m - 1 \in Nat /\ m - 1 + 1 = m
  OBVIOUS
<1>5. \A n \in Nat : n + 1 <= m => g[n + 1] = h[n + 1]
  BY <1>3
<1> QED
  BY <1>4, <1>5

(* FlattenSeq, one sequence more.                                          *)
LEMMA FlattenStep ==
  ASSUME NEW T, NEW s \in Seq(Seq(T)), NEW x \in Seq(T)
  PROVE  FlattenSeq(<<>>) = <<>> /\ FlattenSeq(Append(s, x)) = IF s = <<>> THEN x ELSE FlattenSeq(s) \o x
<1>1. FlattenSeq(<<>>) = <<>>
  BY DEF FlattenSeq
<1> DEFINE t == Append(s, x)
<1> DEFINE S == Seq(T)
<1>0. s \in Seq(S) /\ x \in S
  OBVIOUS
<1> HIDE DEF S
<1>2. /\ t \in Seq(S) /\ Len(t) = Len(s) + 1 /\ t[Len(s) + 1] = x /\ t # <<>> /\ Len(s) \in Nat
      /\ \A i \in 1..Len(s) : s[i] = t[i]
  BY <1>0
<1> HIDE DEF t
<1>3. PICK h : FlatUpTo(h, t, Len(t)) /\ FlattenSeq(t) = h[Len(t)]
  BY <1>2, FlatIs
<1>4. CASE s = <<>>
  <2>1. Len(t) = 1
    BY <1>2, <1>4
  <2> QED
    BY <1>1, <1>2, <1>3, <1>4, <2>1, FlatAt DEF t
<1>5. CASE s # <<>>
  <2>1. PICK g : FlatUpTo(g, s, Len(s)) /\ FlattenSeq(s) = g[Len(s)]
    BY <1>5, FlatIs
  <2>2. Len(s) >= 1 /\ Len(s) <= Len(t) /\ Len(t) \in Nat
    BY <1>2, <1>5
  <2>3. g[Len(s)] = h[Len(s)]
    <3>1. FlatUpTo(g, s, Len(s)) /\ FlatUpTo(h, t, Len(t)) /\ Len(s) \in Nat
      BY <1>2, <1>3, <2>1
    <3>2. \A i \in 1..Len(s) : s[i] = t[i]
      BY <1>2
    <3> QED
      BY ONLY <2>2, <3>1, <3>2, FlatOnce
  <2>4. h[Len(s) + 1] = Join(h[Len(s)], t[Len(s) + 1])
    BY <1>2, <1>3, <2>2, FlatAt
  <2> QED
    BY <1>1, <1>2, <1>3, <1>5, <2>1, <2>3, <2>4 DEF t, Join
<1> QED
  BY <1>4, <1>5

(* FlattenSeq of sequences of some kind is a sequence of that kind.        *)
LEMMA Flattens ==
  ASSUME NEW T, NEW s \in Seq(Seq(T))
  PROVE  /\ FlattenSeq(s) \in Seq(T)
         /\ \A x \in Seq(T) : FlattenSeq(Append(s, x)) = FlattenSeq(s) \o x
<1> DEFINE P == {n \in Nat : \A u \in Seq(Seq(T)) : Len(u) = n => FlattenSeq(u) \in Seq(T)}
<1>1. 0 \in P
  <2> SUFFICES ASSUME NEW u \in Seq(Seq(T)), Len(u) = 0 PROVE FlattenSeq(u) \in Seq(T)
    OBVIOUS
  <2> QED
    BY u = <<>>, <<>> \in Seq(T), FlattenStep
<1>2. ASSUME NEW n \in P PROVE n + 1 \in P
  <2> SUFFICES ASSUME NEW u \in Seq(Seq(T)), Len(u) = n + 1 PROVE FlattenSeq(u) \in Seq(T)
    OBVIOUS
  <2> DEFINE v == SubSeq(u, 1, n)  x == u[n + 1]
  <2>1. v \in Seq(Seq(T)) /\ Len(v) = n /\ x \in Seq(T) /\ u = Append(v, x)
    OBVIOUS
  <2> HIDE DEF v, x
  <2>2. FlattenSeq(v) \in Seq(T)
    BY <2>1
  <2>3. FlattenSeq(u) = IF v = <<>> THEN x ELSE FlattenSeq(v) \o x
    BY <2>1, FlattenStep
  <2> QED
    BY <2>1, <2>2, <2>3
<1>3. P = Nat
  <2> HIDE DEF P
  <2> QED
    BY <1>1, <1>2, Induction DEF P
<1>4. FlattenSeq(s) \in Seq(T)
  BY <1>3
<1>5. ASSUME NEW x \in Seq(T) PROVE FlattenSeq(Append(s, x)) = FlattenSeq(s) \o x
  <2>1. CASE s = <<>>
    <3>1. <<>> \o x = x
      OBVIOUS
    <3> QED
      BY <2>1, <3>1, FlattenStep
  <2>2. CASE s # <<>>
    BY <2>2, FlattenStep
  <2> QED
    BY <2>1, <2>2
<1> QED
  BY <1>4, <1>5

(* The places of two sequences in one.                                     *)
LEMMA Concatenates ==
  ASSUME NEW T, NEW a \in Seq(T), NEW b \in Seq(T)
  PROVE  /\ a \o b \in Seq(T) /\ Len(a \o b) = Len(a) + Len(b) /\ Len(a) \in Nat /\ Len(b) \in Nat
         /\ \A i \in 1..Len(a) : (a \o b)[i] = a[i]
         /\ \A i \in 1..Len(b) : (a \o b)[Len(a) + i] = b[i]
OBVIOUS

(* A sequence from its front.                                              *)
LEMMA PrefixIs ==
  ASSUME NEW T, NEW f \in Seq(T)
  PROVE  /\ SubSeq(f, 1, 0) = <<>> /\ SubSeq(f, 1, Len(f)) = f
         /\ \A n \in 0..Len(f) - 1 : SubSeq(f, 1, n + 1) = Append(SubSeq(f, 1, n), f[n + 1])
         /\ \A n \in 0..Len(f) : SubSeq(f, 1, n) \in Seq(T) /\ Len(SubSeq(f, 1, n)) = n
                                  /\ \A i \in 1..n : SubSeq(f, 1, n)[i] = f[i]
OBVIOUS
=============================================================================
