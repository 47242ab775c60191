----------------------------- MODULE DumpProofs -----------------------------
(***************************************************************************)
(* Theorems about Dump, for any keys, values, comments and batch size: an  *)
(* import restores what was exported, or fails for a reason, and in between*)
(* the table has the type its columns say, so that the queries of module   *)
(* Query answer as they should.                                            *)
(***************************************************************************)
EXTENDS QueryProofs, Dump

-----------------------------------------------------------------------------
(* Values, literals and rows, written and read back.                       *)

(* What values and literals are made of.                                   *)
LEMMA ValuesAre ==
  /\ \A n : Integer(n).type = "Integer" /\ Integer(n).data = <<n>> /\ Num(Integer(n)) = n
  /\ \A n : Float(n).type = "Float" /\ Float(n).data = <<n>> /\ Num(Float(n)) = n
  /\ \A s : Text(s).type = "Text" /\ Text(s).data = s
  /\ Null.type = "Null" /\ ParseError.type = "error"
<1>1. \A t, d : Val(t, d).type = t /\ Val(t, d).data = d
  BY DEF Val
<1> QED
  BY <1>1 DEF Integer, Float, Text, Null, ParseError, Num

(* What the literals that are no numbers are read as.                      *)
LEMMA LiteralsAre ==
  ASSUME NEW s
  PROVE  /\ expr_to_value(Lit("string", s)) = Text(s)
         /\ expr_to_value(Lit("blob", s)) = ParseError
         /\ expr_to_value(Lit("null", s)) = Null
<1>1. \A k : Lit(k, s).kind = k /\ Lit(k, s).data = s
  BY DEF Lit
<1>2. ASSUME NEW e, e.data = s
      PROVE  /\ e.kind = "string" => expr_to_value(e) = Text(s)
             /\ e.kind = "blob" => expr_to_value(e) = ParseError
             /\ e.kind = "null" => expr_to_value(e) = Null
  BY <1>2 DEF expr_to_value
<1> QED
  BY <1>1, <1>2

(* A float that is a whole number far out stays what it is.                 *)
LEMMA LeastInteger ==
  /\ Rounded(2 * MaxInt + 2) = 2 * MaxInt + 2
  /\ Opposite(2 * MaxInt + 2) # NaN /\ Halves(Opposite(2 * MaxInt + 2)) = -(2 * MaxInt + 2)
<1>1. MaxInt \in Nat /\ MaxInt % 2 = 1 /\ Exact \in Nat /\ MaxFloat \in Nat /\ 2 * MaxInt + 2 <= MaxFloat
  BY MaxIntAssumption, FloatAssumption
<1>2. PICK k \in Nat : MaxInt = 2 * k + 1
  <2> DEFINE M == MaxInt
  <2>1. M \in Nat /\ M % 2 = 1
    BY <1>1
  <2> HIDE DEF M
  <2>2. M = 2 * (M \div 2) + 1 /\ M \div 2 \in Nat
    BY <2>1
  <2> QED
    BY <2>2 DEF M
<1> DEFINE h == 2 * MaxInt + 2
<1>3. h = 4 * k + 4 /\ h \in Nat
  BY <1>2
<1>4. ToFourth(4 * k + 4) = 4 * k + 4
  <2>1. (4 * k + 4) \div 4 = k + 1
    OBVIOUS
  <2>2. (k + 1) % 2 \in 0..1
    OBVIOUS
  <2> DEFINE z == (k + 1) % 2
  <2>3. z \in 0..1
    BY <2>2
  <2> HIDE DEF z
  <2>4. (4 * k + 4 + 1 + z) \div 4 = k + 1
    BY <2>3
  <2>5. ToFourth(4 * k + 4) = 4 * ((4 * k + 4 + 1 + z) \div 4)
    BY <2>1 DEF ToFourth, z
  <2> QED
    BY <2>4, <2>5
<1> HIDE DEF h
<1>5. ToFourth(h) = h
  BY <1>3, <1>4
<1>6. h <= MaxFloat
  BY <1>1 DEF h
<1>7. Rounded(h) = h
  BY <1>5, <1>6 DEF Rounded
<1>8. Opposite(h) # NaN /\ Halves(Opposite(h)) = -h
  BY <1>1, <1>3 DEF Opposite, NaN, Halves
<1> QED
  BY <1>7, <1>8 DEF h

(* A literal that is a number is read as one.                              *)
LEMMA NumberIs ==
  ASSUME NEW g, NEW h, NEW dec
  PROVE  /\ NumberLit(g, h, dec) = [kind |-> "number", sign |-> g, data |-> <<h>>, dec |-> dec]
         /\ expr_to_value(NumberLit(g, h, dec)) = Number(g # "", h, dec)
         /\ Tokens(NumberLit(g, h, dec)) = <<<<"number", g, h, dec>>>>
<1> DEFINE e == [kind |-> "number", sign |-> g, data |-> <<h>>, dec |-> dec]
<1>1. NumberLit(g, h, dec) = e
  BY DEF NumberLit
<1>2. e.kind = "number" /\ e.sign = g /\ e.data[1] = h /\ e.dec = dec
  OBVIOUS
<1> HIDE DEF e
<1>3. expr_to_value(e) = Number(g # "", h, dec)
  BY <1>2 DEF expr_to_value
<1>4. Tokens(e) = <<<<"number", g, h, dec>>>>
  BY <1>2 DEF Tokens
<1> QED
  BY <1>1, <1>3, <1>4 DEF e

(* The sign of a number, and halves of a whole number.                     *)
LEMMA SignIs ==
  ASSUME NEW n \in Int
  PROVE  Sign(n) \in {"", "-"} /\ (Sign(n) # "" <=> n < 0)
BY DEF Sign

LEMMA HalfIs ==
  ASSUME NEW m \in Nat
  PROVE  (2 * m) \div 2 = m
OBVIOUS

LEMMA NaNIs ==
  NaN \notin Infinite
BY FloatAssumption DEF Infinite, Opposite, NaN, Infinity

(* A whole number is read back as a number.                                *)
LEMMA WholeIs ==
  ASSUME NEW n \in Int
  PROVE  LET m == IF n < 0 THEN -n ELSE n  x == expr_to_value(Whole(n)) IN
         /\ x = IF m > MaxInt THEN Float(IF n < 0 THEN Opposite(Rounded(2 * m)) ELSE Rounded(2 * m)) ELSE Integer(n)
         /\ x.type \in Numeric /\ x # ParseError /\ x # Null
<1> DEFINE m == IF n < 0 THEN -n ELSE n  x == expr_to_value(Whole(n))
<1>1. x = Number(Sign(n) # "", 2 * m, FALSE)
  BY NumberIs DEF Whole
<1>2. (Sign(n) # "" <=> n < 0) /\ (2 * m) \div 2 = m
  <2>1. m \in Nat
    OBVIOUS
  <2> HIDE DEF m
  <2> QED
    BY <2>1, SignIs, HalfIs
<1>3. x = IF m > MaxInt THEN Float(IF n < 0 THEN Opposite(Rounded(2 * m)) ELSE Rounded(2 * m))
          ELSE Integer(IF n < 0 THEN -m ELSE m)
  <2> HIDE DEF x, m
  <2> QED
    BY <1>1, <1>2 DEF Number
<1>4. (IF n < 0 THEN -m ELSE m) = n
  OBVIOUS
<1>5. (\E k : x = Float(k)) \/ \E k : x = Integer(k)
  <2> HIDE DEF x, m
  <2> QED
    BY <1>3
<1>6. x.type \in Numeric
  BY <1>5, ValuesAre DEF Numeric
<1>7. x # ParseError /\ x # Null
  <2>1. ParseError.type = "error" /\ Null.type = "Null"
    BY ValuesAre
  <2> QED
    BY <1>6, <2>1 DEF Numeric
<1> QED
  BY <1>3, <1>4, <1>6, <1>7

(* A number of 64 bits comes back as itself.                               *)
LEMMA IntegerBack ==
  ASSUME NEW k \in Int64, NEW v, v = expr_to_value(Whole(k))
  PROVE  /\ coerce_for_type("Integer", v) = Integer(k) /\ v # ParseError /\ v # Null
         /\ v.type \in Numeric
<1> DEFINE m == IF k < 0 THEN -k ELSE k
<1>0. k \in Int /\ k <= MaxInt /\ k >= -MaxInt - 1 /\ MaxInt \in Nat /\ MaxInt >= 1
  BY MaxIntAssumption DEF Int64
<1>1. /\ v = IF m > MaxInt THEN Float(IF k < 0 THEN Opposite(Rounded(2 * m)) ELSE Rounded(2 * m)) ELSE Integer(k)
      /\ v # ParseError /\ v # Null /\ v.type \in Numeric
  BY <1>0, WholeIs
<1>4. CASE v = Integer(k)
  <2>1. v.type = "Integer"
    BY <1>4, ValuesAre
  <2>2. coerce_for_type("Integer", v) = v
    BY <2>1 DEF coerce_for_type
  <2> QED
    BY <1>1, <1>4, <2>2
<1>5. CASE m > MaxInt
  <2>1. k = -MaxInt - 1 /\ k < 0 /\ 2 * m = 2 * MaxInt + 2
    BY <1>0, <1>5
  <2> DEFINE n == Opposite(2 * MaxInt + 2)
  <2>2. v = Float(n)
    BY <1>1, <1>5, <2>1, LeastInteger
  <2> HIDE DEF n
  <2>3. v.type = "Float" /\ Num(v) = n
    BY <2>2, ValuesAre
  <2>4. coerce_for_type("Integer", v) = Integer(AsInteger(n))
    BY <2>3 DEF coerce_for_type
  <2>5. AsInteger(n) = Clamped(Truncated(-(2 * MaxInt + 2)))
    BY LeastInteger DEF AsInteger, n
  <2>6. Truncated(-(2 * MaxInt + 2)) = k
    <3>1. -(2 * MaxInt + 2) < 0 /\ -(-(2 * MaxInt + 2)) = 2 * MaxInt + 2 /\ (2 * MaxInt + 2) \div 2 = MaxInt + 1
      BY <1>0
    <3> QED
      BY <1>0, <2>1, <3>1 DEF Truncated
  <2>7. Clamped(k) = k
    BY <1>0 DEF Clamped
  <2> QED
    BY <1>1, <2>4, <2>5, <2>6, <2>7
<1> QED
  BY <1>1, <1>4, <1>5

(* A float comes back as itself, if it is finite or NaN.                   *)
LEMMA FloatBack ==
  ASSUME NEW n \in Floats, NEW x, x = expr_to_value(FloatLit(n))
  PROVE  /\ n \in Int
         /\ n \in Infinite => x = ParseError
         /\ n \notin Infinite => coerce_for_type("Float", x) = Float(n) /\ x # ParseError /\ x # Null
<1>0. MaxFloat \in Nat /\ Infinity \in Nat /\ Infinity = MaxFloat + 1 /\ NaN = MaxFloat + 2
  BY FloatAssumption DEF Infinity, NaN
<1>1. \A h \in Magnitudes : h \in Nat /\ (h # Infinity => Rounded(h) = h)
  BY <1>0 DEF Magnitudes
<1>2. \A h \in Int : Opposite(h) \in Int /\ Opposite(Opposite(h)) = h
  BY DEF Opposite
<1>3. n \in Int
  BY <1>0, <1>1, <1>2 DEF Floats
<1>4. NaN \notin Infinite
  BY NaNIs
<1>5. ParseError.type = "error" /\ Null.type = "Null"
  BY ValuesAre
<1>6. CASE n = NaN
  <2>1. FloatLit(n) = Lit("name", NaNText)
    BY <1>4, <1>6, Zenon DEF FloatLit
  <2> DEFINE e == Lit("name", NaNText)
  <2>2. e.kind = "name" /\ e.data = NaNText
    BY DEF Lit
  <2> HIDE DEF e
  <2>3. x = Text(NaNText)
    BY <2>1, <2>2 DEF expr_to_value, e
  <2>4. x.type = "Text"
    BY <2>3, ValuesAre
  <2>5. coerce_for_type("Float", x) = Float(NaN)
    BY <2>3, <2>4 DEF coerce_for_type
  <2>6. x # ParseError /\ x # Null
    BY <1>5, <2>4
  <2> QED
    BY <1>3, <1>4, <1>6, <2>5, <2>6
<1>7. CASE n \in Infinite
  <2>1. FloatLit(n) = [Lit("inf", <<>>) EXCEPT !.sign = Sign(n)]
    BY <1>4, <1>7 DEF FloatLit
  <2> DEFINE e == [Lit("inf", <<>>) EXCEPT !.sign = Sign(n)]
  <2>2. e.kind = "inf"
    BY DEF Lit
  <2> HIDE DEF e
  <2>3. x = ParseError
    BY <2>1, <2>2 DEF expr_to_value, e
  <2> QED
    BY <1>3, <1>7, <2>3
<1>8. CASE n # NaN /\ n \notin Infinite
  <2> DEFINE h == IF n < 0 THEN Opposite(n) ELSE n  f == IF n < 0 THEN Opposite(Rounded(h)) ELSE Rounded(h)
  <2>1. FloatLit(n) = NumberLit(Sign(n), h, TRUE)
    BY <1>8 DEF FloatLit
  <2>3. Sign(n) # "" <=> n < 0
    BY SignIs, <1>3
  <2>2. x = Float(IF Sign(n) # "" THEN Opposite(Rounded(h)) ELSE Rounded(h))
    <3> HIDE DEF h
    <3>1. expr_to_value(NumberLit(Sign(n), h, TRUE)) = Number(Sign(n) # "", h, TRUE)
      BY NumberIs
    <3> QED
      BY <2>1, <3>1 DEF Number
  <2>4. Rounded(h) = h
    <3>1. CASE n \in Magnitudes
      BY <1>1, <1>8, <3>1 DEF Infinite
    <3>2. CASE n \notin Magnitudes
      <4>1. PICK g \in Magnitudes : n = Opposite(g)
        BY <1>8, <3>2 DEF Floats
      <4>2. g \in Nat /\ n < 0
        BY <1>1, <4>1 DEF Opposite
      <4>3. h = g
        BY <1>2, <4>1, <4>2
      <4>4. g # Infinity
        BY <1>8, <4>1 DEF Infinite
      <4> HIDE DEF h
      <4> QED
        BY <1>1, <4>3, <4>4
    <3> QED
      BY <3>1, <3>2
  <2>5. f = n
    BY <1>2, <1>3, <2>4
  <2> HIDE DEF h, f
  <2>7. x = Float(n)
    BY <2>2, <2>3, <2>5 DEF f
  <2>8. x.type = "Float"
    BY <2>7, ValuesAre
  <2>9. coerce_for_type("Float", x) = x
    BY <2>8, ValuesAre DEF coerce_for_type
  <2>10. x # ParseError /\ x # Null
    BY <1>5, <2>8
  <2> QED
    BY <1>3, <1>8, <2>7, <2>9, <2>10
<1> QED
  BY <1>6, <1>7, <1>8

(* A row of the table, as the dump writes it.                              *)
Written(r) == [i \in 1..2 |-> format_value(r[i])]

(* A row that is written comes back as itself, if its literals have values *)
(* and their columns take them.                                            *)
LEMMA RowsReturn ==
  ASSUME coltype \in Types, NEW id \in Ids, NEW v \in Cells, NEW r, r = <<Integer(id), v>>
  PROVE  LET e == Written(r) IN
         /\ expr_to_value(e[1]) # ParseError
         /\ expr_to_value(e[2]) = ParseError => ~Survives(v)
         /\ expr_to_value(e[2]) # ParseError /\ Fits(RowOf(e)) => RowOf(e) = r
         /\ expr_to_value(e[2]) # ParseError /\ ~Fits(RowOf(e)) => coltype \in {"Boolean", "Timestamp"} /\ v # Null
<1> DEFINE e == Written(r)  a == coerce_for_type("Integer", expr_to_value(e[1]))
           x == expr_to_value(e[2])  b == coerce_for_type(coltype, x)
<1>1. e[1] = format_value(Integer(id)) /\ e[2] = format_value(v)
  BY DEF Written
<1>2. RowOf(e) = <<a, b>>
  BY DEF RowOf
<1>3. a = Integer(id) /\ expr_to_value(e[1]) # ParseError
  <2>1. Integer(id).type = "Integer" /\ Num(Integer(id)) = id
    BY DEF Integer, Val, Num
  <2>2. e[1] = Whole(id)
    BY <1>1, <2>1 DEF format_value
  <2>3. id \in Int64
    BY IdsAssumption DEF Int64
  <2> QED
    BY <2>2, <2>3, IntegerBack
<1>4. type_matches("Integer", a)
  BY <1>3 DEF type_matches, Integer, Val
<1> HIDE DEF a, e
<1>5. Fits(RowOf(e)) <=> b = Null \/ coltype = b.type
  BY <1>2, <1>4 DEF Fits, type_matches
<1>6. SUFFICES /\ x = ParseError => ~Survives(v)
               /\ x # ParseError /\ (b = Null \/ coltype = b.type) => b = v
               /\ x # ParseError /\ ~(b = Null \/ coltype = b.type) => coltype \in {"Boolean", "Timestamp"} /\ v # Null
  BY <1>2, <1>3, <1>5 DEF e
<1>n. CASE v = Null
  <2>1. e[2] = Lit("null", <<>>)
    BY <1>1, <1>n DEF format_value, Null, Val
  <2>2. x = Null
    BY <2>1, LiteralsAre
  <2>3. b = Null /\ Null # ParseError
    BY <2>2, ValuesAre DEF coerce_for_type, Null, Val, ParseError
  <2> QED
    BY <1>n, <2>2, <2>3
<1>v. CASE v # Null
  <2>1. v \in Of(coltype) /\ v.type = coltype
    BY <1>v, CellIs
  <2>2. PICK d \in Data(coltype) : v = Val(coltype, d)
    BY <2>1 DEF Of
  <2>3. v.data = d
    BY <2>2 DEF Val
  <2>4. CASE coltype = "Integer"
    <3>1. PICK k \in Int64 : d = <<k>>
      BY <2>4 DEF Data
    <3>2. Num(v) = k
      BY <2>3, <3>1 DEF Num
    <3>3. e[2] = Whole(k)
      BY <1>1, <2>1, <2>4, <3>2 DEF format_value
    <3>4. b = Integer(k) /\ x # ParseError
      BY <2>4, <3>3, IntegerBack
    <3>5. b = v /\ b.type = "Integer"
      BY <2>2, <2>4, <3>1, <3>4 DEF Integer, Val
    <3> QED
      BY <2>4, <3>4, <3>5
  <2>5. CASE coltype = "Float"
    <3>1. PICK k \in Floats : d = <<k>>
      <4>1. PICK c \in DataOf["Float"] : v = Val("Float", c)
        BY <1>v, <2>5 DEF CValues, Cells
      <4>2. c \in Seq(Int) /\ Len(c) = 1 /\ c[1] \in Floats
        BY DataAssumption DEF Types
      <4>3. d = c /\ c = <<c[1]>>
        BY <2>3, <4>1, <4>2 DEF Val
      <4> QED
        BY <4>2, <4>3
    <3>2. Num(v) = k
      BY <2>3, <3>1 DEF Num
    <3>3. e[2] = FloatLit(k)
      BY <1>1, <2>1, <2>5, <3>2 DEF format_value
    <3>4. v = Float(k) /\ (Survives(v) <=> k \notin Infinite)
      BY <2>1, <2>2, <2>5, <3>1, <3>2 DEF Float, Val, Survives
    <3>5. /\ k \in Infinite => x = ParseError
          /\ k \notin Infinite => b = v /\ x # ParseError
      BY <2>5, <3>3, <3>4, FloatBack
    <3> QED
      BY <2>1, <2>5, <3>4, <3>5
  <2>6. CASE coltype = "Boolean"
    <3>1. PICK k \in Int : d = <<k>>
      BY <2>6 DEF Data
    <3>2. Num(v) = k
      BY <2>3, <3>1 DEF Num
    <3>3. e[2] = Whole(k)
      BY <1>1, <2>1, <2>6, <3>2 DEF format_value
    <3>4. x.type \in Numeric
      BY <3>3, WholeIs
    <3>5. b = x /\ x # ParseError /\ x # Null /\ x.type # "Boolean"
      BY <2>6, <3>4 DEF coerce_for_type, ParseError, Null, Val, Numeric
    <3> QED
      BY <1>v, <2>6, <3>5
  <2>7. CASE coltype = "Text"
    <3>1. e[2] = Lit("string", d)
      BY <1>1, <2>1, <2>3, <2>7 DEF format_value
    <3>2. x = Text(d)
      BY <3>1, LiteralsAre
    <3>3. x = v /\ x.type = "Text"
      BY <2>2, <2>7, <3>2 DEF Text, Val
    <3>4. b = x /\ x # ParseError
      BY <2>7, <3>3 DEF coerce_for_type, ParseError, Val
    <3> QED
      BY <2>7, <3>3, <3>4
  <2>8. CASE coltype = "Timestamp"
    <3>1. e[2] = Lit("string", d)
      BY <1>1, <2>1, <2>3, <2>8 DEF format_value
    <3>2. x = Text(d)
      BY <3>1, LiteralsAre
    <3>3. x.type = "Text"
      BY <3>2 DEF Text, Val
    <3>4. b = x /\ x # ParseError /\ x # Null
      BY <2>8, <3>3 DEF coerce_for_type, ParseError, Null, Val
    <3> QED
      BY <1>v, <2>8, <3>3, <3>4
  <2>9. CASE coltype = "Blob"
    <3>1. e[2] = Lit("blob", d)
      BY <1>1, <2>1, <2>3, <2>9 DEF format_value
    <3>2. x = ParseError /\ ~Survives(v)
      BY <2>1, <2>9, <3>1, LiteralsAre DEF Survives
    <3> QED
      BY <3>2
  <2> QED
    BY <2>4, <2>5, <2>6, <2>7, <2>8, <2>9 DEF Types
<1> QED
  BY <1>n, <1>v

-----------------------------------------------------------------------------
(* Reading a text.                                                         *)

(* The states the splitter goes through reading a text, and where it ends. *)
Steps(g, u, s) == g[0] = u /\ \A n \in 1..Len(s) : g[n] = Read(g[n - 1], s[n])
Reaches(u, s, v) == \E g : Steps(g, u, s) /\ g[Len(s)] = v

(* One token more.                                                         *)
LEMMA ReachesStep ==
  ASSUME NEW T, NEW s \in Seq(T), NEW x \in T, NEW u, NEW v, Reaches(u, s, v)
  PROVE  Reaches(u, <<>>, u) /\ Reaches(u, Append(s, x), Read(v, x))
<1>1. Reaches(u, <<>>, u)
  <2> DEFINE g == [n \in {0} |-> u]
  <2>1. g[0] = u /\ Len(<<>>) = 0
    OBVIOUS
  <2> HIDE DEF g
  <2> QED
    BY <2>1 DEF Reaches, Steps
<1>2. PICK g : Steps(g, u, s) /\ g[Len(s)] = v
  BY DEF Reaches
<1> DEFINE m == Len(s)  t == Append(s, x)  h == [n \in 0..m + 1 |-> IF n = m + 1 THEN Read(v, x) ELSE g[n]]
<1>3. m \in Nat /\ Len(t) = m + 1 /\ t[m + 1] = x /\ \A n \in 1..m : t[n] = s[n]
  OBVIOUS
<1>4. h[0] = g[0] /\ h[m + 1] = Read(v, x) /\ h[m] = g[m] /\ \A n \in 0..m : h[n] = g[n]
  BY <1>3
<1> HIDE DEF h, t, m
<1>5. ASSUME NEW n \in 1..m + 1 PROVE h[n] = Read(h[n - 1], t[n])
  <2>1. CASE n = m + 1
    <3>1. n - 1 = m /\ g[m] = v
      BY <1>2, <1>3, <2>1 DEF m
    <3> QED
      BY <1>3, <1>4, <2>1, <3>1
  <2>2. CASE n \in 1..m
    <3>1. g[n] = Read(g[n - 1], s[n]) /\ n \in 0..m /\ n - 1 \in 0..m
      BY <1>2, <1>3, <2>2 DEF Steps, m
    <3>2. h[n] = g[n] /\ h[n - 1] = g[n - 1] /\ t[n] = s[n]
      BY <1>3, <1>4, <2>2, <3>1
    <3> QED
      BY <3>1, <3>2
  <2> QED
    BY <1>3, <2>1, <2>2
<1>6. Steps(h, u, t) /\ h[Len(t)] = Read(v, x)
  BY <1>2, <1>3, <1>4, <1>5 DEF Steps
<1> QED
  BY <1>1, <1>6 DEF Reaches, t

(* A text is read to one end.                                              *)
LEMMA ReachesOnce ==
  ASSUME NEW T, NEW s \in Seq(T), NEW u, NEW v, NEW w, Reaches(u, s, v), Reaches(u, s, w)
  PROVE  v = w
<1>1. PICK g : Steps(g, u, s) /\ g[Len(s)] = v
  BY DEF Reaches
<1>2. PICK h : Steps(h, u, s) /\ h[Len(s)] = w
  BY DEF Reaches
<1> DEFINE P == {n \in Nat : n <= Len(s) => g[n] = h[n]}
<1>3. 0 \in P
  BY <1>1, <1>2 DEF Steps
<1>4. ASSUME NEW n \in P PROVE n + 1 \in P
  <2> SUFFICES ASSUME n + 1 <= Len(s) PROVE g[n + 1] = h[n + 1]
    OBVIOUS
  <2>1. n + 1 \in 1..Len(s) /\ (n + 1) - 1 = n /\ g[n] = h[n]
    OBVIOUS
  <2>2. g[n + 1] = Read(g[(n + 1) - 1], s[n + 1]) /\ h[n + 1] = Read(h[(n + 1) - 1], s[n + 1])
    BY <1>1, <1>2, <2>1 DEF Steps
  <2> QED
    BY <2>1, <2>2
<1>5. P = Nat
  <2> HIDE DEF P
  <2> QED
    BY <1>3, <1>4, Induction DEF P
<1>6. Len(s) \in P
  BY <1>5
<1> QED
  BY <1>1, <1>2, <1>6

(* One text after the other.                                               *)
LEMMA ReachesJoin ==
  ASSUME NEW T, NEW s \in Seq(T), NEW t \in Seq(T), NEW u, NEW v, NEW w, Reaches(u, s, v), Reaches(v, t, w)
  PROVE  Reaches(u, s \o t, w)
<1>1. PICK g : Steps(g, u, s) /\ g[Len(s)] = v
  BY DEF Reaches
<1>2. PICK f : Steps(f, v, t) /\ f[Len(t)] = w
  BY DEF Reaches
<1> DEFINE m == Len(s)  k == Len(t)  z == s \o t  h == [n \in 0..m + k |-> IF n <= m THEN g[n] ELSE f[n - m]]
<1>3. /\ m \in Nat /\ k \in Nat /\ Len(z) = m + k
      /\ \A n \in 1..m : z[n] = s[n]
      /\ \A n \in 1..k : z[m + n] = t[n]
  BY Concatenates
<1>4. /\ \A n \in 0..m : h[n] = g[n]
      /\ \A n \in 1..k : h[m + n] = f[n]
  BY <1>3
<1>5. g[0] = u /\ g[m] = v /\ f[0] = v /\ f[k] = w
  BY <1>1, <1>2 DEF Steps
<1> HIDE DEF h, z
<1>6. ASSUME NEW n \in 1..m + k PROVE h[n] = Read(h[n - 1], z[n])
  <2>1. CASE n \in 1..m
    <3>1. g[n] = Read(g[n - 1], s[n]) /\ n \in 0..m /\ n - 1 \in 0..m
      BY <1>1, <1>3, <2>1 DEF Steps
    <3>2. h[n] = g[n] /\ h[n - 1] = g[n - 1] /\ z[n] = s[n]
      BY <1>3, <1>4, <2>1, <3>1
    <3> HIDE DEF m, k
    <3> QED
      BY <3>1, <3>2
  <2>2. CASE n \notin 1..m
    <3>1. PICK i \in 1..k : n = m + i
      <4>1. n - m \in 1..k /\ n = m + (n - m)
        BY <1>3, <2>2
      <4> QED
        BY <4>1
    <3>2. f[i] = Read(f[i - 1], t[i])
      BY <1>2 DEF Steps
    <3>3. h[n] = f[i] /\ z[n] = t[i]
      BY <1>3, <1>4, <3>1
    <3>4. h[n - 1] = f[i - 1]
      <4>1. CASE i = 1
        <5>1. n - 1 = m /\ m \in 0..m /\ i - 1 = 0
          BY <1>3, <3>1, <4>1
        <5> HIDE DEF m, k
        <5> QED
          BY <1>4, <1>5, <5>1
      <4>2. CASE i # 1
        <5>1. i - 1 \in 1..k /\ n - 1 = m + (i - 1)
          BY <1>3, <3>1, <4>2
        <5> HIDE DEF m, k
        <5> QED
          BY <1>4, <5>1
      <4> QED
        BY <4>1, <4>2
    <3> HIDE DEF m, k
    <3> QED
      BY <3>2, <3>3, <3>4
  <2> QED
    BY <2>1, <2>2
<1>7. h[0] = u
  <2>1. 0 \in 0..m
    BY <1>3
  <2> QED
    BY <1>4, <1>5, <2>1
<1>8. h[m + k] = w
  <2>1. CASE k = 0
    <3>1. m + k = m /\ m \in 0..m
      BY <1>3, <2>1
    <3> HIDE DEF m, k
    <3> QED
      BY <1>4, <1>5, <2>1, <3>1
  <2>2. CASE k # 0
    <3>1. k \in 1..k
      BY <1>3, <2>2
    <3> HIDE DEF m, k
    <3> QED
      BY <1>4, <1>5, <3>1
  <2> QED
    BY <2>1, <2>2
<1>9. Steps(h, u, z) /\ h[Len(z)] = w
  BY <1>3, <1>6, <1>7, <1>8 DEF Steps
<1> QED
  BY <1>9 DEF Reaches, z

(* The text after the first n of its characters.                           *)
LEMMA ReachesSome ==
  ASSUME NEW T, NEW s \in Seq(T), NEW u
  PROVE  \E v : Reaches(u, s, v)
<1> DEFINE P == {n \in Nat : n <= Len(s) => \E v : Reaches(u, SubSeq(s, 1, n), v)}
<1>0. /\ SubSeq(s, 1, 0) = <<>> /\ SubSeq(s, 1, Len(s)) = s
      /\ \A n \in 0..Len(s) - 1 : SubSeq(s, 1, n + 1) = Append(SubSeq(s, 1, n), s[n + 1]) /\ s[n + 1] \in T
      /\ \A n \in 0..Len(s) : SubSeq(s, 1, n) \in Seq(T)
  BY PrefixIs
<1>1. 0 \in P
  <2>1. Reaches(u, <<>>, u)
    <3> DEFINE g == [n \in {0} |-> u]
    <3>1. g[0] = u /\ Len(<<>>) = 0
      OBVIOUS
    <3> HIDE DEF g
    <3> QED
      BY <3>1 DEF Reaches, Steps
  <2> QED
    BY <1>0, <2>1
<1>2. ASSUME NEW n \in P PROVE n + 1 \in P
  <2> SUFFICES ASSUME n + 1 <= Len(s) PROVE \E v : Reaches(u, SubSeq(s, 1, n + 1), v)
    OBVIOUS
  <2>1. n \in 0..Len(s) - 1 /\ n \in 0..Len(s) /\ n <= Len(s)
    OBVIOUS
  <2>2. PICK v : Reaches(u, SubSeq(s, 1, n), v)
    BY <2>1
  <2>3. SubSeq(s, 1, n) \in Seq(T) /\ s[n + 1] \in T /\ SubSeq(s, 1, n + 1) = Append(SubSeq(s, 1, n), s[n + 1])
    BY <1>0, <2>1
  <2> QED
    BY <2>2, <2>3, ReachesStep
<1>3. P = Nat
  <2> HIDE DEF P
  <2> QED
    BY <1>1, <1>2, Induction DEF P
<1>4. Len(s) \in P /\ Len(s) \in Nat /\ Len(s) <= Len(s)
  BY <1>3
<1>5. \E v : Reaches(u, SubSeq(s, 1, Len(s)), v)
  BY <1>4
<1> QED
  BY <1>0, <1>5

-----------------------------------------------------------------------------
(* split_sql_statements reads from an empty state.                         *)
(* Truth values, as the splitter's state holds them.                       *)
On == TRUE
Off == FALSE
St(o, c, q, p) == [out |-> o, cur |-> c, quoted |-> q, prev |-> p]
RunOf(g, u, s) == g = [n \in 0..Len(s) |-> IF n = 0 THEN u ELSE Read(g[n - 1], s[n])]

(* split_sql_statements, by the state it ends in.                          *)
LEMMA SplitIs ==
  ASSUME NEW T, NEW s \in Seq(T), NEW v, Reaches(St(<<>>, <<>>, Off, Newline), s, v)
  PROVE  split_sql_statements(s) = IF IsComment(v.cur) THEN v.out ELSE Done(v)
<1> DEFINE u == St(<<>>, <<>>, Off, Newline)
           run == CHOOSE g : RunOf(g, u, s)
<1>1. PICK g : Steps(g, u, s) /\ g[Len(s)] = v
  BY DEF Reaches
<1> DEFINE f == [n \in 0..Len(s) |-> g[n]]
<1>2. \A n \in 0..Len(s) : f[n] = g[n]
  OBVIOUS
<1>3. DOMAIN f = 0..Len(s) /\ f = [n \in 0..Len(s) |-> f[n]] /\ Len(s) \in Nat
  OBVIOUS
<1> HIDE DEF f, u
<1>4. ASSUME NEW n \in 0..Len(s) PROVE f[n] = IF n = 0 THEN u ELSE Read(f[n - 1], s[n])
  <2>1. CASE n = 0
    BY <1>1, <1>2, <2>1 DEF Steps
  <2>2. CASE n # 0
    <3>1. n \in 1..Len(s) /\ n - 1 \in 0..Len(s)
      BY <1>3, <2>2
    <3>2. g[n] = Read(g[n - 1], s[n])
      BY <1>1, <3>1 DEF Steps
    <3> QED
      BY <1>2, <2>2, <3>1, <3>2
  <2> QED
    BY <2>1, <2>2
<1>5. RunOf(f, u, s)
  <2>1. f = [n \in 0..Len(s) |-> IF n = 0 THEN u ELSE Read(f[n - 1], s[n])]
    BY <1>3, <1>4, Zenon
  <2> QED
    BY <2>1 DEF RunOf
<1>6. RunOf(run, u, s)
  BY <1>5
<1> HIDE DEF run
<1>7. Steps(run, u, s)
  <2>1. \A n \in 0..Len(s) : run[n] = IF n = 0 THEN u ELSE Read(run[n - 1], s[n])
    BY <1>6, Zenon DEF RunOf
  <2>2. 0 \in 0..Len(s) /\ \A n \in 1..Len(s) : n # 0 /\ n \in 0..Len(s)
    BY <1>3
  <2> QED
    BY <2>1, <2>2 DEF Steps
<1>8. run[Len(s)] = v
  <2>1. Reaches(u, s, run[Len(s)])
    BY <1>7 DEF Reaches
  <2> QED
    BY <2>1, ReachesOnce DEF u
<1>9. split_sql_statements(s) = IF IsComment(run[Len(s)].cur) THEN run[Len(s)].out ELSE Done(run[Len(s)])
  BY DEF split_sql_statements, run, RunOf, u, St, Off
<1> QED
  BY <1>8, <1>9

-----------------------------------------------------------------------------
(* Tokens.                                                                 *)

(* The tokens of a dump: those of the statements, and those around them.   *)
WordsUsed == {"/*", "*/", "CREATE TABLE", "INSERT", "(", ")", "X", "NULL"}
Letters == {Char(c) : c \in Int}
Words   == {Word(w) : w \in WordsUsed}
Numbers == {<<"number", n[1], n[2], n[3]>> : n \in {"", "-"} \X Int \X BOOLEAN}
Hexes   == {<<"hex", d>> : d \in Seq(Int)}
Names   == {<<"name", d>> : d \in Seq(Int)}
Infs    == {<<"inf", g>> : g \in {"", "-"}}
Textual == Letters \cup Words \cup Numbers \cup Hexes \cup Names \cup Infs
Token == Textual \cup {Newline, DashLine}
Special == {Char(Quote), Char(Semicolon), Newline, DashLine}
Plain == Textual \ Special

(* The tokens are told apart.                                              *)
LEMMA TokensAre ==
  /\ Char(Quote) \in Textual /\ Char(Semicolon) \in Textual /\ Char(Backslash) \in Textual
  /\ Char(Quote) # Char(Semicolon) /\ Char(Quote) # Char(Backslash)
  /\ Newline # DashLine /\ \A t \in Textual : t # Newline /\ t # DashLine
  /\ \A c, d : Char(c) = Char(d) <=> c = d
  /\ \A c \in Int : Char(c) \in Textual
  /\ \A c \in Int \ {Quote, Semicolon} : Char(c) \in Plain
  /\ \A w \in WordsUsed : Word(w) \in Plain
  /\ \A g \in {"", "-"}, h \in Int, d \in BOOLEAN : <<"number", g, h, d>> \in Plain
  /\ \A d \in Seq(Int) : <<"hex", d>> \in Plain /\ <<"name", d>> \in Plain
  /\ \A g \in {"", "-"} : <<"inf", g>> \in Plain
<1>1. {Quote, Backslash, Semicolon} \subseteq Int /\ Quote \notin {Backslash, Semicolon}
  BY CharactersAssumption
<1>2. \A c, d : Char(c) = Char(d) <=> c = d
  BY DEF Char
<1>3. \A c, w : Char(c) # Word(w)
  BY DEF Char, Word
<1>4. Newline = Word("newline") /\ DashLine = Word("--")
  BY DEF Newline, DashLine
<1>5. \A w \in WordsUsed : Word(w) # Newline /\ Word(w) # DashLine
  BY <1>4 DEF Word, WordsUsed
<1>6. Newline # DashLine
  BY <1>4 DEF Word
<1>7. ASSUME NEW g, NEW h, NEW d, NEW c
      PROVE  <<"number", g, h, d>> # Char(c) /\ <<"number", g, h, d>> # Word(c) /\ <<"hex", h>> # Char(c) /\ <<"hex", h>> # Word(c)
             /\ <<"name", h>> # Char(c) /\ <<"name", h>> # Word(c) /\ <<"inf", g>> # Char(c) /\ <<"inf", g>> # Word(c)
  BY DEF Char, Word
<1>8. \A t \in Textual : t # Newline /\ t # DashLine
  <2> SUFFICES ASSUME NEW t \in Textual PROVE t # Newline /\ t # DashLine
    OBVIOUS
  <2>1. CASE t \in Letters
    BY <1>3, <1>4, <2>1 DEF Letters
  <2>2. CASE t \in Words
    BY <1>5, <2>2 DEF Words
  <2>3. CASE t \in Numbers
    BY <1>4, <1>7, <2>3, Zenon DEF Numbers
  <2>4. CASE t \in Hexes
    BY <1>4, <1>7, <2>4, Zenon DEF Hexes
  <2>5. CASE t \in Names
    BY <1>4, <1>7, <2>5, Zenon DEF Names
  <2>6. CASE t \in Infs
    BY <1>4, <1>7, <2>6, Zenon DEF Infs
  <2> QED
    BY <2>1, <2>2, <2>3, <2>4, <2>5, <2>6 DEF Textual
<1>9. \A c \in Int : Char(c) \in Textual
  BY Zenon DEF Textual, Letters
<1>10. \A c \in Int \ {Quote, Semicolon} : Char(c) \in Plain
  BY <1>2, <1>3, <1>4, <1>9 DEF Plain, Special
<1>11. \A w \in WordsUsed : Word(w) \in Plain
  <2>1. \A w \in WordsUsed : Word(w) \in Textual
    BY Zenon DEF Textual, Words
  <2> QED
    BY <1>3, <1>5, <2>1 DEF Plain, Special
<1>12. \A g \in {"", "-"}, h \in Int, d \in BOOLEAN : <<"number", g, h, d>> \in Plain
  <2>1. \A g \in {"", "-"}, h \in Int, d \in BOOLEAN : <<"number", g, h, d>> \in Textual
    <3> SUFFICES ASSUME NEW g \in {"", "-"}, NEW h \in Int, NEW d \in BOOLEAN
                 PROVE  <<"number", g, h, d>> \in Numbers
      BY Zenon DEF Textual
    <3> DEFINE n == <<g, h, d>>
    <3>1. n \in {"", "-"} \X Int \X BOOLEAN /\ n[1] = g /\ n[2] = h /\ n[3] = d
      OBVIOUS
    <3> HIDE DEF n
    <3> QED
      BY <3>1 DEF Numbers
  <2> QED
    BY <1>4, <1>7, <2>1 DEF Plain, Special
<1>13. \A d \in Seq(Int) : <<"hex", d>> \in Plain /\ <<"name", d>> \in Plain
  <2>1. \A d \in Seq(Int) : <<"hex", d>> \in Textual
    BY Zenon DEF Textual, Hexes
  <2>2. \A d \in Seq(Int) : <<"name", d>> \in Textual
    BY Zenon DEF Textual, Names
  <2> QED
    BY <1>4, <1>7, <2>1, <2>2 DEF Plain, Special
<1>14. \A g \in {"", "-"} : <<"inf", g>> \in Plain
  <2>1. \A g \in {"", "-"} : <<"inf", g>> \in Textual
    BY Zenon DEF Textual, Infs
  <2> QED
    BY <1>4, <1>7, <2>1 DEF Plain, Special
<1> QED
  BY <1>1, <1>2, <1>6, <1>8, <1>9, <1>10, <1>11, <1>12, <1>13, <1>14

PutOut(v, x)    == [v EXCEPT !.out = x]
PutCur(v, x)    == [v EXCEPT !.cur = x]
PutQuoted(v, x) == [v EXCEPT !.quoted = x]
PutPrev(v, x)   == [v EXCEPT !.prev = x]

(* What the splitter does with a token, inside a string and outside.       *)
LEMMA ReadIs ==
  ASSUME NEW o, NEW c, NEW p, NEW t
  PROVE  /\ Read(St(o, c, On, p), t) = St(o, Append(c, t), IF t # Char(Quote) \/ p = Char(Backslash) THEN On ELSE Off, t)
         /\ Read(St(o, c, Off, p), Char(Quote)) = St(o, Append(c, Char(Quote)), On, Char(Quote))
         /\ Read(St(o, c, Off, p), Char(Semicolon)) = St(Done(St(o, c, Off, p)), <<>>, Off, Char(Semicolon))
         /\ Read(St(o, c, Off, p), Newline) = St(o, IF IsComment(c) THEN <<>> ELSE Append(c, Newline), Off, Newline)
         /\ t \notin {Char(Quote), Char(Semicolon), Newline} => Read(St(o, c, Off, p), t) = St(o, Append(c, t), Off, t)
<1>1. Char(Quote) # Char(Semicolon) /\ Newline # Char(Quote) /\ Newline # Char(Semicolon)
  BY TokensAre
<1>2. ASSUME NEW a, NEW d, NEW q, NEW r, NEW x
      PROVE  /\ PutPrev(St(a, d, q, r), x) = St(a, d, q, x)
             /\ PutCur(St(a, d, q, r), x) = St(a, x, q, r)
             /\ PutQuoted(St(a, d, q, r), x) = St(a, d, x, r)
             /\ PutOut(St(a, d, q, r), x) = St(x, d, q, r)
  <2>1. PutPrev(St(a, d, q, r), x) = St(a, d, q, x)
    BY DEF St, PutPrev, PutCur, PutQuoted, PutOut
  <2>2. PutCur(St(a, d, q, r), x) = St(a, x, q, r)
    BY DEF St, PutPrev, PutCur, PutQuoted, PutOut
  <2>3. PutQuoted(St(a, d, q, r), x) = St(a, d, x, r)
    BY DEF St, PutPrev, PutCur, PutQuoted, PutOut
  <2>4. PutOut(St(a, d, q, r), x) = St(x, d, q, r)
    BY DEF St, PutPrev, PutCur, PutQuoted, PutOut
  <2> QED
    BY <2>1, <2>2, <2>3, <2>4
<1>3. \A q : /\ St(o, c, q, p).out = o /\ St(o, c, q, p).cur = c /\ St(o, c, q, p).quoted = q /\ St(o, c, q, p).prev = p
  BY DEF St
<1> DEFINE u == St(o, c, Off, p)  w == St(o, c, On, p)
<1>n. w.quoted = On /\ w.cur = c /\ w.prev = p /\ u.quoted = Off /\ u.cur = c /\ u.out = o
  BY <1>3
<1>4. Read(w, t) = St(o, Append(c, t), IF t # Char(Quote) \/ p = Char(Backslash) THEN On ELSE Off, t)
  <2> DEFINE b == IF t # Char(Quote) \/ p = Char(Backslash) THEN On ELSE Off  x == Append(c, t)
  <2>1. Read(w, t) = PutPrev(PutQuoted(PutCur(w, x), b), t)
    <3> HIDE DEF w
    <3> QED
      BY <1>n DEF Read, On, Off, PutPrev, PutCur, PutQuoted, PutOut
  <2> HIDE DEF b, x
  <2>2. PutPrev(PutQuoted(PutCur(w, x), b), t) = St(o, x, b, t)
    <3> HIDE DEF b, x
    <3>1. PutCur(w, x) = St(o, x, On, p)
      BY <1>2
    <3>2. PutQuoted(St(o, x, On, p), b) = St(o, x, b, p)
      BY <1>2
    <3>3. PutPrev(St(o, x, b, p), t) = St(o, x, b, t)
      BY <1>2
    <3> HIDE DEF w
    <3> QED
      BY <3>1, <3>2, <3>3
  <2> QED
    BY <2>1, <2>2 DEF b, x
<1>5. Read(u, Char(Quote)) = St(o, Append(c, Char(Quote)), On, Char(Quote))
  <2> DEFINE x == Append(c, Char(Quote))
  <2>1. Read(u, Char(Quote)) = PutPrev(PutQuoted(PutCur(u, x), On), Char(Quote))
    <3> HIDE DEF u
    <3> QED
      BY <1>n DEF Read, On, Off, PutPrev, PutCur, PutQuoted, PutOut
  <2>2. PutPrev(PutQuoted(PutCur(u, x), On), Char(Quote)) = St(o, x, On, Char(Quote))
    <3> HIDE DEF x
    <3>1. PutCur(u, x) = St(o, x, Off, p)
      BY <1>2
    <3>2. PutQuoted(St(o, x, Off, p), On) = St(o, x, On, p)
      BY <1>2
    <3>3. PutPrev(St(o, x, On, p), Char(Quote)) = St(o, x, On, Char(Quote))
      BY <1>2
    <3> HIDE DEF u
    <3> QED
      BY <3>1, <3>2, <3>3
  <2> QED
    BY <2>1, <2>2
<1>6. Read(u, Char(Semicolon)) = St(Done(u), <<>>, Off, Char(Semicolon))
  <2>1. Read(u, Char(Semicolon)) = PutPrev(PutCur(PutOut(u, Done(u)), <<>>), Char(Semicolon))
    <3> HIDE DEF u
    <3> QED
      BY <1>1, <1>n DEF Read, On, Off, PutPrev, PutCur, PutQuoted, PutOut
  <2>2. PutPrev(PutCur(PutOut(u, Done(u)), <<>>), Char(Semicolon)) = St(Done(u), <<>>, Off, Char(Semicolon))
    <3> DEFINE d == Done(u)
    <3> HIDE DEF d
    <3>1. PutOut(u, d) = St(d, c, Off, p)
      BY <1>2
    <3>2. PutCur(St(d, c, Off, p), <<>>) = St(d, <<>>, Off, p)
      BY <1>2
    <3>3. PutPrev(St(d, <<>>, Off, p), Char(Semicolon)) = St(d, <<>>, Off, Char(Semicolon))
      BY <1>2
    <3> HIDE DEF u
    <3> QED
      BY <3>1, <3>2, <3>3 DEF d
  <2> QED
    BY <2>1, <2>2
<1>7. Read(u, Newline) = St(o, IF IsComment(c) THEN <<>> ELSE Append(c, Newline), Off, Newline)
  <2> DEFINE x == IF IsComment(c) THEN <<>> ELSE Append(c, Newline)
  <2>1. NewlineRead(u) = PutCur(u, x)
    <3> HIDE DEF u
    <3> QED
      BY <1>n DEF NewlineRead, PutCur
  <2>2. Read(u, Newline) = PutPrev(PutCur(u, x), Newline)
    <3> HIDE DEF u, x
    <3> QED
      BY <1>1, <1>n, <2>1 DEF Read, On, Off, PutPrev, PutCur, PutQuoted, PutOut
  <2>3. PutPrev(PutCur(u, x), Newline) = St(o, x, Off, Newline)
    <3> HIDE DEF x
    <3>1. PutCur(u, x) = St(o, x, Off, p)
      BY <1>2
    <3>2. PutPrev(St(o, x, Off, p), Newline) = St(o, x, Off, Newline)
      BY <1>2
    <3> HIDE DEF u
    <3> QED
      BY <3>1, <3>2
  <2> QED
    BY <2>2, <2>3
<1>8. ASSUME t \notin {Char(Quote), Char(Semicolon), Newline} PROVE Read(u, t) = St(o, Append(c, t), Off, t)
  <2> DEFINE x == Append(c, t)
  <2>1. Read(u, t) = PutPrev(PutCur(u, x), t)
    <3> HIDE DEF u
    <3> QED
      BY <1>8, <1>n DEF Read, On, Off, PutPrev, PutCur, PutQuoted, PutOut
  <2>2. PutPrev(PutCur(u, x), t) = St(o, x, Off, t)
    <3> HIDE DEF x
    <3>1. PutCur(u, x) = St(o, x, Off, p)
      BY <1>2
    <3>2. PutPrev(St(o, x, Off, p), t) = St(o, x, Off, t)
      BY <1>2
    <3> HIDE DEF u
    <3> QED
      BY <3>1, <3>2
  <2> QED
    BY <2>1, <2>2
<1> QED
  BY <1>4, <1>5, <1>6, <1>7, <1>8

-----------------------------------------------------------------------------
(* Texts that are read through.                                            *)

(* Facts about joining sequences.                                          *)
LEMMA JoinThree ==
  ASSUME NEW T, NEW a \in Seq(T), NEW b \in Seq(T), NEW c \in Seq(T)
  PROVE  Join(Join(a, b), c) = Join(a, Join(b, c))
BY ConcatAssociative DEF Join

LEMMA AppendJoinAt ==
  ASSUME NEW T, NEW a \in Seq(T), NEW b \in Seq(T), NEW x \in T
  PROVE  Append(Join(a, b), x) = Join(a, Append(b, x))
BY DEF Join

LEMMA AppendJoin ==
  \A T : \A a, b \in Seq(T), x \in T : Append(Join(a, b), x) = Join(a, Append(b, x))
BY AppendJoinAt

LEMMA JoinEmpty ==
  \A T : \A a \in Seq(T) : Join(a, <<>>) = a /\ Join(<<>>, a) = a
BY ConcatEmptySeq DEF Join

LEMMA JoinOneAt ==
  ASSUME NEW T, NEW a \in Seq(T), NEW x \in T
  PROVE  Join(a, <<x>>) = Append(a, x)
<1> DEFINE u == a \o <<x>>  v == Append(a, x)
<1>1. u \in Seq(T) /\ v \in Seq(T) /\ Len(u) = Len(v) /\ \A i \in 1..Len(u) : u[i] = v[i]
  OBVIOUS
<1>2. u = v
  <2> HIDE DEF u, v
  <2> QED
    BY <1>1, SameSeq
<1> QED
  BY <1>2 DEF Join

LEMMA JoinOne ==
  \A T : \A a \in Seq(T), x \in T : Join(a, <<x>>) = Append(a, x)
BY JoinOneAt

LEMMA JoinIn ==
  \A T : \A a, b \in Seq(T) : Join(a, b) \in Seq(T) /\ Len(Join(a, b)) = Len(a) + Len(b)
BY DEF Join

(* FlattenSeq, from the front.                                             *)
LEMMA FlattenGrows ==
  ASSUME NEW T, NEW s \in Seq(Seq(T))
  PROVE  /\ FlattenSeq(s) \in Seq(T)
         /\ FlattenSeq(SubSeq(s, 1, 0)) = <<>> /\ FlattenSeq(SubSeq(s, 1, Len(s))) = FlattenSeq(s)
         /\ \A k \in 0..Len(s) : FlattenSeq(SubSeq(s, 1, k)) \in Seq(T)
         /\ \A k \in 0..Len(s) - 1 : FlattenSeq(SubSeq(s, 1, k + 1)) = Join(FlattenSeq(SubSeq(s, 1, k)), s[k + 1])
<1>1. /\ SubSeq(s, 1, 0) = <<>> /\ SubSeq(s, 1, Len(s)) = s
      /\ \A n \in 0..Len(s) - 1 : SubSeq(s, 1, n + 1) = Append(SubSeq(s, 1, n), s[n + 1]) /\ s[n + 1] \in Seq(T)
      /\ \A n \in 0..Len(s) : SubSeq(s, 1, n) \in Seq(Seq(T))
  BY PrefixIs
<1>2. FlattenSeq(<<>>) = <<>>
  BY FlattenStep, <<>> \in Seq(Seq(T)), <<>> \in Seq(T)
<1>3. \A k \in 0..Len(s) : FlattenSeq(SubSeq(s, 1, k)) \in Seq(T)
  BY <1>1, Flattens
<1>4. ASSUME NEW k \in 0..Len(s) - 1
      PROVE  FlattenSeq(SubSeq(s, 1, k + 1)) = Join(FlattenSeq(SubSeq(s, 1, k)), s[k + 1])
  <2> DEFINE v == SubSeq(s, 1, k)  x == s[k + 1]
  <2>1. v \in Seq(Seq(T)) /\ x \in Seq(T) /\ SubSeq(s, 1, k + 1) = Append(v, x)
    BY <1>1
  <2> HIDE DEF v, x
  <2>2. FlattenSeq(Append(v, x)) = FlattenSeq(v) \o x
    BY <2>1, Flattens
  <2> QED
    BY <2>1, <2>2 DEF Join, v, x
<1> QED
  BY <1>1, <1>2, <1>3, <1>4, Flattens

(* A text the splitter reads through, whatever it has read before.         *)
Clean(s) ==
  /\ s \in Seq(Textual)
  /\ \A o, p : \A c \in Seq(Token) : \E q : Reaches(St(o, c, Off, p), s, St(o, Join(c, s), Off, q))

(* Texts are made of tokens.                                               *)
LEMMA TextualIsToken ==
  /\ Textual \subseteq Token /\ \A s \in Seq(Textual) : s \in Seq(Token)
  /\ \A s \in Seq(Plain) : s \in Seq(Textual)
<1>1. Textual \subseteq Token /\ Plain \subseteq Textual
  BY DEF Token, Plain
<1>2. ASSUME NEW S, NEW T, S \subseteq T, NEW s \in Seq(S) PROVE s \in Seq(T)
  BY <1>2
<1> QED
  BY <1>1, <1>2

(* A text without quotes, semicolons and line ends is clean.               *)
LEMMA CleanPlain ==
  ASSUME NEW s \in Seq(Plain)
  PROVE  Clean(s)
<1>0. s \in Seq(Textual)
  BY TextualIsToken
<1> SUFFICES ASSUME NEW o, NEW p, NEW c \in Seq(Token)
             PROVE  \E q : Reaches(St(o, c, Off, p), s, St(o, Join(c, s), Off, q))
  BY <1>0 DEF Clean
<1> DEFINE u == St(o, c, Off, p)
           Good(t) == \E q : Reaches(u, t, St(o, Join(c, t), Off, q))
           P == {n \in Nat : n <= Len(s) => Good(SubSeq(s, 1, n))}
<1>1. /\ SubSeq(s, 1, 0) = <<>> /\ SubSeq(s, 1, Len(s)) = s
      /\ \A n \in 0..Len(s) - 1 : SubSeq(s, 1, n + 1) = Append(SubSeq(s, 1, n), s[n + 1]) /\ s[n + 1] \in Plain
      /\ \A n \in 0..Len(s) : SubSeq(s, 1, n) \in Seq(Plain)
  BY PrefixIs
<1>2. ASSUME NEW t \in Seq(Plain), NEW x \in Plain, Good(t) PROVE Good(<<>>) /\ Good(Append(t, x))
  <2>1. PICK q : Reaches(u, t, St(o, Join(c, t), Off, q))
    BY <1>2
  <2>2. t \in Seq(Token) /\ x \in Token
    BY TextualIsToken DEF Plain
  <2>3. Read(St(o, Join(c, t), Off, q), x) = St(o, Append(Join(c, t), x), Off, x)
    BY ReadIs DEF Plain, Special
  <2>4. Append(Join(c, t), x) = Join(c, Append(t, x)) /\ Join(c, <<>>) = c
    <3>1. Append(Join(c, t), x) = Join(c, Append(t, x))
      <4>1. c \in Seq(Token) /\ t \in Seq(Token) /\ x \in Token
        BY <2>2
      <4>2. \A a, b \in Seq(Token), y \in Token : Append(Join(a, b), y) = Join(a, Append(b, y))
        BY ONLY AppendJoin
      <4> QED
        BY ONLY <4>1, <4>2, Zenon
    <3>2. Join(c, <<>>) = c
      BY JoinEmpty
    <3> QED
      BY <3>1, <3>2
  <2> HIDE DEF u
  <2>5. Reaches(u, Append(t, x), St(o, Join(c, Append(t, x)), Off, x)) /\ Reaches(u, <<>>, u)
    BY <2>1, <2>3, <2>4, ReachesStep
  <2> QED
    BY <2>4, <2>5 DEF u
<1>3. 0 \in P
  <2>1. Reaches(u, <<>>, u)
    <3> DEFINE g == [n \in {0} |-> u]
    <3>1. g[0] = u /\ Len(<<>>) = 0
      OBVIOUS
    <3> HIDE DEF g, u
    <3> QED
      BY <3>1 DEF Reaches, Steps
  <2>2. Join(c, <<>>) = c
    BY ConcatEmptySeq DEF Join
  <2>3. Good(<<>>)
    BY <2>1, <2>2
  <2> HIDE DEF Good
  <2> QED
    BY <1>1, <2>3
<1>4. ASSUME NEW n \in P PROVE n + 1 \in P
  <2> HIDE DEF Good
  <2> SUFFICES ASSUME n + 1 <= Len(s) PROVE Good(SubSeq(s, 1, n + 1))
    OBVIOUS
  <2>1. n \in 0..Len(s) - 1 /\ n \in 0..Len(s) /\ Good(SubSeq(s, 1, n))
    OBVIOUS
  <2> QED
    BY <1>1, <1>2, <2>1
<1>5. P = Nat
  <2> HIDE DEF P
  <2> QED
    BY <1>3, <1>4, Induction DEF P
<1>6. Good(SubSeq(s, 1, Len(s)))
  <2> HIDE DEF Good
  <2>1. Len(s) \in P /\ Len(s) <= Len(s)
    BY <1>5
  <2> QED
    BY <2>1
<1> QED
  BY <1>1, <1>6

(* Clean texts, joined, are clean.                                         *)
LEMMA CleanJoin ==
  ASSUME NEW s, NEW t, Clean(s), Clean(t)
  PROVE  Clean(Join(s, t))
<1>1. /\ s \in Seq(Textual) /\ t \in Seq(Textual) /\ Join(s, t) \in Seq(Textual)
      /\ s \in Seq(Token) /\ t \in Seq(Token) /\ Join(s, t) = s \o t
  BY Concatenates, TextualIsToken DEF Clean, Join
<1> SUFFICES ASSUME NEW o, NEW p, NEW c \in Seq(Token)
             PROVE  \E q : Reaches(St(o, c, Off, p), Join(s, t), St(o, Join(c, Join(s, t)), Off, q))
  BY <1>1 DEF Clean
<1>2. PICK q : Reaches(St(o, c, Off, p), s, St(o, Join(c, s), Off, q))
  BY DEF Clean
<1>3. Join(c, s) \in Seq(Token)
  BY <1>1, Concatenates DEF Join
<1>4. PICK r : Reaches(St(o, Join(c, s), Off, q), t, St(o, Join(Join(c, s), t), Off, r))
  BY <1>3 DEF Clean
<1>5. Join(Join(c, s), t) = Join(c, Join(s, t))
  <2> DEFINE T == Token
  <2>1. c \in Seq(T) /\ s \in Seq(T) /\ t \in Seq(T)
    BY <1>1
  <2> HIDE DEF T
  <2> QED
    BY ONLY <2>1, JoinThree
<1>6. Reaches(St(o, c, Off, p), s \o t, St(o, Join(Join(c, s), t), Off, r))
  BY <1>1, <1>2, <1>4, ReachesJoin
<1> QED
  BY <1>1, <1>5, <1>6

(* And so are many.                                                        *)
LEMMA CleanFlatten ==
  ASSUME NEW s \in Seq(Seq(Textual)), \A i \in 1..Len(s) : Clean(s[i])
  PROVE  Clean(FlattenSeq(s))
<1> DEFINE G(k) == FlattenSeq(SubSeq(s, 1, k))
           P == {k \in Nat : k <= Len(s) => Clean(G(k))}
<1>1. /\ G(0) = <<>> /\ G(Len(s)) = FlattenSeq(s)
      /\ \A k \in 0..Len(s) - 1 : G(k + 1) = Join(G(k), s[k + 1])
  BY FlattenGrows
<1> HIDE DEF G
<1>2. 0 \in P
  <2>1. Clean(<<>>)
    BY CleanPlain, <<>> \in Seq(Plain)
  <2> QED
    BY <1>1, <2>1
<1>3. ASSUME NEW k \in P PROVE k + 1 \in P
  <2> SUFFICES ASSUME k + 1 <= Len(s) PROVE Clean(G(k + 1))
    OBVIOUS
  <2>1. k \in 0..Len(s) - 1 /\ k + 1 \in 1..Len(s) /\ Clean(G(k))
    OBVIOUS
  <2> QED
    BY <1>1, <2>1, CleanJoin
<1>4. P = Nat
  <2> HIDE DEF P
  <2> QED
    BY <1>2, <1>3, Induction DEF P
<1>5. Len(s) \in P /\ Len(s) <= Len(s)
  BY <1>4
<1>6. Clean(G(Len(s)))
  BY <1>5
<1> QED
  BY <1>1, <1>6

(* The same, for characters.                                               *)
LEMMA AppendJoinInt ==
  \A a, b \in Seq(Int), x \in Int : Append(Join(a, b), x) = Join(a, Append(b, x))
<1> DEFINE T == Int
<1> HIDE DEF T
<1>1. \A a, b \in Seq(T), x \in T : Append(Join(a, b), x) = Join(a, Append(b, x))
  BY ONLY AppendJoin
<1> QED
  BY ONLY <1>1, Zenon DEF T

(* The tokens of characters.                                               *)
LEMMA CharsAre ==
  ASSUME NEW s \in Seq(Int)
  PROVE  /\ Chars(s) \in Seq(Textual) /\ Len(Chars(s)) = Len(s)
         /\ \A i \in 1..Len(s) : Chars(s)[i] = Char(s[i])
<1> DEFINE c == [i \in 1..Len(s) |-> Char(s[i])]
<1>1. \A i \in 1..Len(s) : s[i] \in Int
  OBVIOUS
<1>2. \A i \in 1..Len(s) : Char(s[i]) \in Textual
  BY <1>1, TokensAre
<1>3. Chars(s) = c /\ Len(s) \in Nat
  BY DEF Chars
<1>4. c \in Seq(Textual) /\ Len(c) = Len(s) /\ \A i \in 1..Len(s) : c[i] = Char(s[i])
  BY <1>2, <1>3
<1> QED
  BY <1>3, <1>4

LEMMA CharsAppend ==
  ASSUME NEW s \in Seq(Int), NEW x \in Int
  PROVE  Chars(Append(s, x)) = Append(Chars(s), Char(x))
<1> DEFINE t == Append(s, x)  a == Chars(t)  b == Append(Chars(s), Char(x))
<1>1. t \in Seq(Int) /\ Len(t) = Len(s) + 1 /\ t[Len(s) + 1] = x /\ (\A i \in 1..Len(s) : t[i] = s[i]) /\ Len(s) \in Nat
  OBVIOUS
<1>2. a \in Seq(Textual) /\ Len(a) = Len(t) /\ \A i \in 1..Len(t) : a[i] = Char(t[i])
  BY <1>1, CharsAre
<1>3. Chars(s) \in Seq(Textual) /\ Len(Chars(s)) = Len(s) /\ (\A i \in 1..Len(s) : Chars(s)[i] = Char(s[i])) /\ Char(x) \in Textual
  BY CharsAre, TokensAre
<1>4. b \in Seq(Textual) /\ Len(b) = Len(s) + 1 /\ b[Len(s) + 1] = Char(x) /\ \A i \in 1..Len(s) : b[i] = Chars(s)[i]
  BY <1>3
<1> HIDE DEF t, a, b
<1>5. ASSUME NEW i \in 1..Len(a) PROVE a[i] = b[i]
  <2>1. CASE i = Len(s) + 1
    BY <1>1, <1>2, <1>4, <2>1
  <2>2. CASE i \in 1..Len(s)
    BY <1>1, <1>2, <1>3, <1>4, <2>2
  <2> QED
    BY <1>1, <1>2, <2>1, <2>2
<1> QED
  BY <1>1, <1>2, <1>4, <1>5, SameSeq DEF a, b, t

(* The pieces a string is escaped into.                                    *)
Doubled(s) == [i \in DOMAIN s |-> IF s[i] = Quote THEN <<Quote, Quote>> ELSE <<s[i]>>]

(* An escaped string, character by character.                              *)
LEMMA EscapedIs ==
  ASSUME NEW d \in Seq(Int)
  PROVE  LET F == Doubled(d)  G(k) == FlattenSeq(SubSeq(F, 1, k)) IN
         /\ Escaped(d) \in Seq(Int) /\ Escaped(d) = G(Len(d)) /\ G(0) = <<>>
         /\ \A k \in 0..Len(d) : G(k) \in Seq(Int)
         /\ \A k \in 0..Len(d) - 1 : G(k + 1) = IF d[k + 1] = Quote THEN Append(Append(G(k), Quote), Quote)
                                                ELSE Append(G(k), d[k + 1])
<1> DEFINE F == Doubled(d)  G(k) == FlattenSeq(SubSeq(F, 1, k))
<1>0. Quote \in Int
  BY CharactersAssumption
<1>1. F \in Seq(Seq(Int)) /\ Len(F) = Len(d) /\ Len(d) \in Nat
      /\ \A i \in 1..Len(d) : F[i] = IF d[i] = Quote THEN <<Quote, Quote>> ELSE <<d[i]>>
  <2> DEFINE f(i) == IF d[i] = Quote THEN <<Quote, Quote>> ELSE <<d[i]>>
             n == Len(d)
  <2>1. n \in Nat /\ DOMAIN d = 1..n /\ \A i \in 1..n : d[i] \in Int
    OBVIOUS
  <2>2. \A x \in Int : <<x>> \in Seq(Int) /\ <<x, x>> \in Seq(Int)
    OBVIOUS
  <2>3. \A i \in 1..n : f(i) \in Seq(Int)
    BY <1>0, <2>1, <2>2
  <2>4. F = [i \in 1..n |-> f(i)] /\ \A i \in 1..n : f(i) = IF d[i] = Quote THEN <<Quote, Quote>> ELSE <<d[i]>>
    BY <2>1 DEF Doubled
  <2> HIDE DEF F, f, n
  <2>5. F \in Seq(Seq(Int)) /\ Len(F) = n /\ \A i \in 1..n : F[i] = f(i)
    BY <2>1, <2>3, <2>4
  <2> QED
    BY <2>1, <2>4, <2>5 DEF n
<1>2. Escaped(d) = FlattenSeq(F)
  BY DEF Escaped, Doubled
<1> HIDE DEF F
<1>3. /\ FlattenSeq(F) \in Seq(Int) /\ G(0) = <<>> /\ G(Len(F)) = FlattenSeq(F)
      /\ \A k \in 0..Len(F) : G(k) \in Seq(Int)
      /\ \A k \in 0..Len(F) - 1 : G(k + 1) = Join(G(k), F[k + 1])
  BY <1>1, FlattenGrows
<1> HIDE DEF G
<1>4. ASSUME NEW k \in 0..Len(d) - 1
      PROVE  G(k + 1) = IF d[k + 1] = Quote THEN Append(Append(G(k), Quote), Quote) ELSE Append(G(k), d[k + 1])
  <2>0. Len(d) \in Nat /\ Len(F) = Len(d)
    BY <1>1
  <2>1. k + 1 \in 1..Len(d) /\ k \in 0..Len(F) /\ k \in 0..Len(F) - 1
    BY <2>0
  <2>5. d[k + 1] \in Int
    BY <2>1
  <2>6. G(k) \in Seq(Int) /\ G(k + 1) = Join(G(k), F[k + 1])
    BY <1>3, <2>1
  <2>2. ASSUME NEW a \in Seq(Int), NEW x \in Int
        PROVE  Join(a, <<x>>) = Append(a, x) /\ Join(a, <<x, x>>) = Append(Append(a, x), x)
    <3>1. Join(a, <<x>>) = Append(a, x)
      BY JoinOne
    <3>2. <<x>> \in Seq(Int) /\ Append(<<x>>, x) = <<x, x>>
      <4> DEFINE p == Append(<<x>>, x)  q == <<x, x>>
      <4>1. p \in Seq(Int) /\ q \in Seq(Int) /\ Len(p) = 2 /\ Len(q) = 2 /\ p[1] = x /\ p[2] = x /\ q[1] = x /\ q[2] = x
        OBVIOUS
      <4> HIDE DEF p, q
      <4>3. ASSUME NEW i \in 1..Len(p) PROVE p[i] = q[i]
        <5>1. i = 1 \/ i = 2
          BY <4>1
        <5> QED
          BY <4>1, <5>1
      <4>2. p = q
        BY <4>1, <4>3, SameSeq
      <4> QED
        BY <4>2 DEF p, q
    <3>3. Append(Join(a, <<x>>), x) = Join(a, Append(<<x>>, x))
      <4>1. \A b, c \in Seq(Int), y \in Int : Append(Join(b, c), y) = Join(b, Append(c, y))
        BY AppendJoinInt
      <4> QED
        BY ONLY a \in Seq(Int), x \in Int, <3>2, <4>1, Zenon
    <3> QED
      BY <3>1, <3>2, <3>3
  <2>3. CASE d[k + 1] = Quote
    <3>1. F[k + 1] = <<Quote, Quote>>
      BY <1>1, <2>1, <2>3
    <3> QED
      BY <1>0, <2>2, <2>3, <2>6, <3>1
  <2>4. CASE d[k + 1] # Quote
    <3>1. F[k + 1] = <<d[k + 1]>>
      BY <1>1, <2>1, <2>4
    <3> QED
      BY <2>2, <2>4, <2>5, <2>6, <3>1
  <2> QED
    BY <2>3, <2>4
<1> QED
  BY <1>1, <1>2, <1>3, <1>4 DEF G, F

(* A text without a backslash before a quote or at its end is read through.*)
LEMMA CleanText ==
  ASSUME NEW d \in Seq(Int), SplitsWell(d)
  PROVE  Clean(Chars(<<Quote>> \o Escaped(d) \o <<Quote>>))
<1> DEFINE F == Doubled(d)  G(k) == FlattenSeq(SubSeq(F, 1, k))
           W(k) == Join(<<Quote>>, G(k))  all == <<Quote>> \o Escaped(d) \o <<Quote>>
<1>0. Quote \in Int /\ Backslash \in Int /\ Quote # Backslash /\ <<Quote>> \in Seq(Int)
  BY CharactersAssumption
<1>1. /\ Escaped(d) \in Seq(Int) /\ Escaped(d) = G(Len(d)) /\ G(0) = <<>>
      /\ \A k \in 0..Len(d) : G(k) \in Seq(Int)
      /\ \A k \in 0..Len(d) - 1 : G(k + 1) = IF d[k + 1] = Quote THEN Append(Append(G(k), Quote), Quote)
                                             ELSE Append(G(k), d[k + 1])
  BY EscapedIs
<1> HIDE DEF G
<1>2. /\ \A k \in 0..Len(d) : W(k) \in Seq(Int)
      /\ W(0) = <<Quote>>
      /\ \A k \in 0..Len(d) - 1 : W(k + 1) = IF d[k + 1] = Quote THEN Append(Append(W(k), Quote), Quote)
                                             ELSE Append(W(k), d[k + 1])
  <2>1. \A k \in 0..Len(d) : W(k) \in Seq(Int)
    BY <1>0, <1>1, JoinIn
  <2>2. W(0) = <<Quote>>
    BY <1>0, <1>1, JoinEmpty
  <2>3. ASSUME NEW k \in 0..Len(d) - 1
        PROVE  W(k + 1) = IF d[k + 1] = Quote THEN Append(Append(W(k), Quote), Quote) ELSE Append(W(k), d[k + 1])
    <3>1. G(k) \in Seq(Int) /\ d[k + 1] \in Int
      BY <1>1
    <3>2. ASSUME NEW g \in Seq(Int), NEW x \in Int
          PROVE  Join(<<Quote>>, Append(g, x)) = Append(Join(<<Quote>>, g), x) /\ Append(g, x) \in Seq(Int)
      <4>1. \A b, e \in Seq(Int), y \in Int : Append(Join(b, e), y) = Join(b, Append(e, y))
        BY AppendJoinInt
      <4>2. <<Quote>> \in Seq(Int) /\ g \in Seq(Int) /\ x \in Int
        BY <1>0
      <4>3. Append(g, x) \in Seq(Int)
        BY ONLY <4>2
      <4>4. Append(Join(<<Quote>>, g), x) = Join(<<Quote>>, Append(g, x))
        BY ONLY <4>1, <4>2, Zenon
      <4> QED
        BY <4>3, <4>4
    <3>3. CASE d[k + 1] = Quote
      <4>1. G(k + 1) = Append(Append(G(k), Quote), Quote)
        BY <1>1, <3>3
      <4>2. Append(G(k), Quote) \in Seq(Int) /\ Join(<<Quote>>, Append(G(k), Quote)) = Append(Join(<<Quote>>, G(k)), Quote)
        BY <1>0, <3>1, <3>2
      <4>3. Join(<<Quote>>, Append(Append(G(k), Quote), Quote)) = Append(Join(<<Quote>>, Append(G(k), Quote)), Quote)
        BY <1>0, <3>2, <4>2
      <4> QED
        BY <3>3, <4>1, <4>2, <4>3
    <3>4. CASE d[k + 1] # Quote
      <4>1. G(k + 1) = Append(G(k), d[k + 1])
        BY <1>1, <3>4
      <4> QED
        BY <3>1, <3>2, <3>4, <4>1
    <3> QED
      BY <3>3, <3>4
  <2> QED
    BY <2>1, <2>2, <2>3
<1>3. all = Append(W(Len(d)), Quote) /\ all \in Seq(Int)
  <2>1. Len(d) \in 0..Len(d)
    OBVIOUS
  <2>2. Join(W(Len(d)), <<Quote>>) = Append(W(Len(d)), Quote)
    BY <1>0, <1>2, <2>1, JoinOne
  <2>3. all = Join(W(Len(d)), <<Quote>>)
    BY <1>1 DEF Join
  <2>4. all \in Seq(Int)
    BY <1>0, <1>2, <2>1, <2>3, JoinIn
  <2> QED
    BY <2>2, <2>3, <2>4
<1> HIDE DEF W, all
<1>4. SUFFICES ASSUME NEW o, NEW p, NEW c \in Seq(Token)
               PROVE  \E q : Reaches(St(o, c, Off, p), Chars(all), St(o, Join(c, Chars(all)), Off, q))
  BY <1>3, CharsAre DEF Clean, all
<1> DEFINE u == St(o, c, Off, p)
           Quoted(s, v) == s \in Seq(Int) /\ Reaches(u, Chars(s), St(o, Join(c, Chars(s)), On, v))
           last(k) == IF k = 0 THEN Char(Quote) ELSE Char(d[k])
           P == {k \in Nat : k <= Len(d) => Quoted(W(k), last(k))}
<1>5. ASSUME NEW s \in Seq(Int), NEW x \in Int, NEW r, NEW q, NEW b, NEW y,
             Reaches(u, Chars(s), St(o, Join(c, Chars(s)), b, r)),
             Read(St(o, Join(c, Chars(s)), b, r), Char(x)) = St(o, Append(Join(c, Chars(s)), Char(x)), y, q)
      PROVE  Append(s, x) \in Seq(Int) /\ Reaches(u, Chars(Append(s, x)), St(o, Join(c, Chars(Append(s, x))), y, q))
  <2>1. Chars(s) \in Seq(Token) /\ Char(x) \in Token /\ Chars(Append(s, x)) = Append(Chars(s), Char(x))
    BY CharsAre, CharsAppend, TextualIsToken, TokensAre
  <2>2. Append(Join(c, Chars(s)), Char(x)) = Join(c, Append(Chars(s), Char(x)))
    <3> HIDE DEF u
    <3>1. c \in Seq(Token) /\ Chars(s) \in Seq(Token) /\ Char(x) \in Token
      BY <2>1
    <3>2. \A a, e \in Seq(Token), z \in Token : Append(Join(a, e), z) = Join(a, Append(e, z))
      BY ONLY AppendJoin
    <3> QED
      BY ONLY <3>1, <3>2, Zenon
  <2> HIDE DEF u
  <2>3. Reaches(u, Append(Chars(s), Char(x)), St(o, Append(Join(c, Chars(s)), Char(x)), y, q))
    BY <1>5, <2>1, ReachesStep
  <2>4. Append(s, x) \in Seq(Int)
    OBVIOUS
  <2> QED
    BY <2>1, <2>2, <2>3, <2>4
<1>6. Quoted(W(0), Char(Quote))
  <2> DEFINE e == <<>>
  <2>1. e \in Seq(Int) /\ Append(e, Quote) = <<Quote>> /\ Chars(e) = <<>>
    BY DEF Chars
  <2>2. Reaches(u, <<>>, u) /\ Join(c, <<>>) = c
    <3> DEFINE g == [n \in {0} |-> u]
    <3>1. g[0] = u /\ Len(<<>>) = 0
      OBVIOUS
    <3> HIDE DEF g, u
    <3> QED
      BY <3>1, JoinEmpty DEF Reaches, Steps
  <2> HIDE DEF e
  <2>3. Reaches(u, Chars(e), St(o, Join(c, Chars(e)), Off, p))
    BY <2>1, <2>2
  <2>4. Read(St(o, Join(c, Chars(e)), Off, p), Char(Quote)) = St(o, Append(Join(c, Chars(e)), Char(Quote)), On, Char(Quote))
    BY ReadIs
  <2> HIDE DEF u
  <2>5. Append(e, Quote) \in Seq(Int) /\ Reaches(u, Chars(Append(e, Quote)), St(o, Join(c, Chars(Append(e, Quote))), On, Char(Quote)))
    BY <1>0, <1>5, <2>1, <2>3, <2>4
  <2> QED
    BY <1>2, <2>1, <2>5
<1>7. ASSUME NEW s, NEW r, NEW x \in Int \ {Quote}, Quoted(s, r) PROVE Quoted(Append(s, x), Char(x))
  <2>1. Char(x) # Char(Quote)
    BY TokensAre
  <2>2. Read(St(o, Join(c, Chars(s)), On, r), Char(x)) = St(o, Append(Join(c, Chars(s)), Char(x)), On, Char(x))
    BY <2>1, ReadIs
  <2> HIDE DEF u
  <2> QED
    BY <1>5, <1>7, <2>2
<1>8. ASSUME NEW s, NEW r, Quoted(s, r), r # Char(Backslash)
      PROVE  /\ Reaches(u, Chars(Append(s, Quote)), St(o, Join(c, Chars(Append(s, Quote))), Off, Char(Quote)))
             /\ Quoted(Append(Append(s, Quote), Quote), Char(Quote))
  <2>1. Read(St(o, Join(c, Chars(s)), On, r), Char(Quote)) = St(o, Append(Join(c, Chars(s)), Char(Quote)), Off, Char(Quote))
    BY <1>8, ReadIs
  <2> HIDE DEF u
  <2>2. Append(s, Quote) \in Seq(Int) /\ Reaches(u, Chars(Append(s, Quote)), St(o, Join(c, Chars(Append(s, Quote))), Off, Char(Quote)))
    BY <1>0, <1>5, <1>8, <2>1
  <2> DEFINE t == Append(s, Quote)
  <2> HIDE DEF t
  <2>3. Read(St(o, Join(c, Chars(t)), Off, Char(Quote)), Char(Quote)) = St(o, Append(Join(c, Chars(t)), Char(Quote)), On, Char(Quote))
    BY ReadIs
  <2>4. t \in Seq(Int) /\ Reaches(u, Chars(t), St(o, Join(c, Chars(t)), Off, Char(Quote)))
    BY <2>2 DEF t
  <2>5. Append(t, Quote) \in Seq(Int) /\ Reaches(u, Chars(Append(t, Quote)), St(o, Join(c, Chars(Append(t, Quote))), On, Char(Quote)))
    BY <1>0, <1>5, <2>3, <2>4
  <2> QED
    BY <2>2, <2>5 DEF t
<1>9. ASSUME NEW k \in 0..Len(d), k < Len(d) => d[k + 1] = Quote PROVE last(k) # Char(Backslash)
  <2>1. CASE k = 0
    BY <2>1, TokensAre
  <2>2. CASE k # 0
    <3>1. k \in DOMAIN d /\ (d[k] = Backslash => k < Len(d) /\ d[k + 1] # Quote)
      BY <2>2 DEF SplitsWell
    <3>2. d[k] # Backslash
      BY <1>9, <3>1
    <3> QED
      BY <2>2, <3>2, TokensAre
  <2> QED
    BY <2>1, <2>2
<1> HIDE DEF Quoted
<1>10. 0 \in P
  BY <1>6
<1>11. ASSUME NEW k \in P PROVE k + 1 \in P
  <2> SUFFICES ASSUME k + 1 <= Len(d) PROVE Quoted(W(k + 1), last(k + 1))
    OBVIOUS
  <2>1. k \in 0..Len(d) - 1 /\ k \in 0..Len(d) /\ k < Len(d) /\ d[k + 1] \in Int /\ Quoted(W(k), last(k)) /\ last(k + 1) = Char(d[k + 1])
    OBVIOUS
  <2>2. CASE d[k + 1] = Quote
    <3>1. last(k) # Char(Backslash)
      BY <1>9, <2>1, <2>2
    <3> HIDE DEF last
    <3> QED
      BY <1>2, <1>8, <2>1, <2>2, <3>1
  <2>3. CASE d[k + 1] # Quote
    <3> HIDE DEF last
    <3> QED
      BY <1>2, <1>7, <2>1, <2>3
  <2> QED
    BY <2>2, <2>3
<1>12. P = Nat
  <2> HIDE DEF P
  <2> QED
    BY <1>10, <1>11, Induction DEF P
<1>13. Quoted(W(Len(d)), last(Len(d))) /\ last(Len(d)) # Char(Backslash)
  <2>1. Len(d) \in P /\ Len(d) \in 0..Len(d)
    BY <1>12
  <2> QED
    BY <1>9, <2>1
<1> HIDE DEF last, u
<1>14. Reaches(u, Chars(Append(W(Len(d)), Quote)), St(o, Join(c, Chars(Append(W(Len(d)), Quote))), Off, Char(Quote)))
  BY <1>8, <1>13
<1> QED
  BY <1>3, <1>14 DEF u

-----------------------------------------------------------------------------
(* Comment lines.                                                          *)

(* The first and the last of some places.                                  *)
LEMMA LeastIs ==
  ASSUME NEW n \in Nat, NEW S \in SUBSET (1..n), S # {}
  PROVE  /\ Min(S) \in S /\ \A y \in S : Min(S) <= y
         /\ Max(S) \in S /\ \A y \in S : y <= Max(S)
<1>1. \E x \in S : \A y \in S : x <= y
  <2>1. S \subseteq Nat
    OBVIOUS
  <2> QED
    BY <2>1, LeastNumber
<1>2. \E x \in S : \A y \in S : x >= y
  <2> DEFINE T == {k \in Nat : \E x \in S : k = n - x}
  <2>1. T \subseteq Nat /\ T # {}
    <3>1. PICK x \in S : TRUE
      OBVIOUS
    <3>2. n - x \in Nat
      OBVIOUS
    <3> QED
      BY <3>2
  <2>2. PICK k \in T : \A m \in T : k <= m
    BY <2>1, LeastNumber
  <2>3. PICK x \in S : k = n - x
    BY <2>2
  <2>4. ASSUME NEW y \in S PROVE x >= y
    <3>1. n - y \in T
      OBVIOUS
    <3> QED
      BY <2>2, <2>3, <3>1
  <2> QED
    BY <2>4
<1> QED
  BY <1>1, <1>2 DEF Min, Max

(* What trim() and the test for a comment line make of the texts met.      *)
LEMMA TrimIs ==
  ASSUME NEW s \in Seq(Token)
  PROVE  Trim(s) \in Seq(Token)
<1> DEFINE solid == {i \in DOMAIN s : s[i] # Newline}
<1>1. CASE solid = {}
  BY <1>1 DEF Trim
<1>2. CASE solid # {}
  <2>1. solid \in SUBSET (1..Len(s)) /\ Len(s) \in Nat
    OBVIOUS
  <2>2. Min(solid) \in 1..Len(s) /\ Max(solid) \in 1..Len(s)
    BY <1>2, <2>1, LeastIs
  <2>3. Trim(s) = SubSeq(s, Min(solid), Max(solid))
    BY <1>2 DEF Trim
  <2> HIDE DEF solid
  <2> QED
    BY <2>2, <2>3
<1> QED
  BY <1>1, <1>2

(* trim() leaves a text alone that neither begins nor ends with a line end.*)
LEMMA TrimText ==
  ASSUME NEW t \in Seq(Token), t # <<>>, t[1] # Newline, t[Len(t)] # Newline
  PROVE  Trim(t) = t /\ Trim(Join(<<Newline>>, t)) = t
<1>1. Trim(t) = t
  <2> DEFINE solid == {i \in DOMAIN t : t[i] # Newline}
  <2>1. solid \in SUBSET (1..Len(t)) /\ Len(t) \in Nat /\ 1 \in solid /\ Len(t) \in solid
    OBVIOUS
  <2>2. Min(solid) = 1 /\ Max(solid) = Len(t)
    <3> HIDE DEF solid
    <3>1. /\ Min(solid) \in solid /\ \A y \in solid : Min(solid) <= y
          /\ Max(solid) \in solid /\ \A y \in solid : y <= Max(solid)
      BY <2>1, LeastIs
    <3>2. Min(solid) \in 1..Len(t) /\ Max(solid) \in 1..Len(t) /\ Min(solid) <= 1 /\ Len(t) <= Max(solid)
      BY <2>1, <3>1
    <3> QED
      BY <2>1, <3>2
  <2>3. Trim(t) = SubSeq(t, Min(solid), Max(solid))
    BY <2>1 DEF Trim
  <2> HIDE DEF solid
  <2> QED
    BY <2>2, <2>3, PrefixIs
<1>2. Trim(Join(<<Newline>>, t)) = t
  <2> DEFINE s == Join(<<Newline>>, t)  solid == {i \in DOMAIN s : s[i] # Newline}  u == SubSeq(s, 2, Len(s))
  <2>0. <<Newline>> \in Seq(Token) /\ Len(<<Newline>>) = 1 /\ <<Newline>>[1] = Newline
    BY DEF Token
  <2>1. s \in Seq(Token) /\ Len(s) = Len(t) + 1 /\ Len(t) \in Nat /\ s[1] = Newline /\ \A i \in 1..Len(t) : s[i + 1] = t[i]
    BY <2>0, Concatenates DEF Join
  <2> HIDE DEF s
  <2>2. solid \in SUBSET (2..Len(s)) /\ Len(s) \in Nat /\ 2 \in solid /\ Len(s) \in solid
    <3>1. Len(t) \in 1..Len(t) /\ 1 \in 1..Len(t)
      OBVIOUS
    <3>2. s[1 + 1] = t[1] /\ s[Len(t) + 1] = t[Len(t)]
      BY <2>1, <3>1
    <3> QED
      BY <2>1, <3>1, <3>2
  <2>3. Min(solid) = 2 /\ Max(solid) = Len(s)
    <3> HIDE DEF solid
    <3>1. /\ Min(solid) \in solid /\ \A y \in solid : Min(solid) <= y
          /\ Max(solid) \in solid /\ \A y \in solid : y <= Max(solid)
      <4>1. solid \in SUBSET (1..Len(s))
        BY <2>2
      <4> QED
        BY <2>2, <4>1, LeastIs
    <3>2. Min(solid) \in 2..Len(s) /\ Max(solid) \in 2..Len(s) /\ Min(solid) <= 2 /\ Len(s) <= Max(solid)
      BY <2>2, <3>1
    <3> QED
      BY <2>2, <3>2
  <2>4. Trim(s) = u
    <3>1. Trim(s) = SubSeq(s, Min(solid), Max(solid))
      BY <2>2 DEF Trim
    <3> HIDE DEF solid
    <3> QED
      BY <2>3, <3>1
  <2>5. u \in Seq(Token) /\ Len(u) = Len(t) /\ \A i \in 1..Len(u) : u[i] = s[i + 1]
    BY <2>1
  <2> HIDE DEF u
  <2> QED
    BY <2>1, <2>4, <2>5, SameSeq DEF s
<1> QED
  BY <1>1, <1>2

(* Blank texts, and comment lines.                                         *)
LEMMA TrimBlank ==
  /\ Trim(<<>>) = <<>> /\ Trim(<<Newline>>) = <<>>
  /\ ~IsComment(<<>>) /\ ~IsComment(<<Newline>>)
  /\ IsComment(<<DashLine>>) /\ IsComment(<<Newline, DashLine>>)
<1>1. Trim(<<>>) = <<>>
  <2>1. {i \in DOMAIN <<>> : <<>>[i] # Newline} = {}
    OBVIOUS
  <2> QED
    BY <2>1 DEF Trim
<1>2. Trim(<<Newline>>) = <<>>
  <2>1. {i \in DOMAIN <<Newline>> : <<Newline>>[i] # Newline} = {}
    OBVIOUS
  <2> QED
    BY <2>1 DEF Trim
<1>3. Trim(<<DashLine>>) = <<DashLine>> /\ Trim(<<Newline, DashLine>>) = <<DashLine>>
  <2> DEFINE t == <<DashLine>>
  <2>1. t \in Seq(Token) /\ t # <<>> /\ Len(t) = 1 /\ t[1] # Newline
    <3>1. DashLine \in Token /\ DashLine # Newline
      BY TokensAre, Zenon DEF Token
    <3> QED
      BY <3>1
  <2>2. Join(<<Newline>>, t) = <<Newline, DashLine>>
    <3> DEFINE p == Join(<<Newline>>, t)  q == <<Newline, DashLine>>
    <3>1. p \in Seq(Token) /\ q \in Seq(Token) /\ Len(p) = 2 /\ Len(q) = 2 /\ p[1] = q[1] /\ p[2] = q[2]
      BY DEF Join, Token
    <3> HIDE DEF p, q
    <3>2. ASSUME NEW i \in 1..Len(p) PROVE p[i] = q[i]
      <4>1. i = 1 \/ i = 2
        BY <3>1
      <4> QED
        BY <3>1, <4>1
    <3>3. p = q
      BY <3>1, <3>2, SameSeq
    <3> QED
      BY <3>3 DEF p, q
  <2> HIDE DEF t
  <2>3. Trim(t) = t /\ Trim(Join(<<Newline>>, t)) = t
    BY <2>1, TrimText
  <2> QED
    BY <2>2, <2>3 DEF t
<1> QED
  BY <1>1, <1>2, <1>3 DEF IsComment

(* A text of a statement is no comment line.                               *)
LEMMA TextTrim ==
  ASSUME NEW s \in Seq(Textual), s # <<>>
  PROVE  /\ s \in Seq(Token)
         /\ Trim(s) = s /\ Trim(Join(<<Newline>>, s)) = s
         /\ ~IsComment(s) /\ ~IsComment(Join(<<Newline>>, s))
<1>1. s \in Seq(Token)
  BY TextualIsToken
<1>2. Len(s) \in 1..Len(s) /\ 1 \in 1..Len(s)
  OBVIOUS
<1>3. ASSUME NEW i \in 1..Len(s) PROVE s[i] # Newline /\ s[i] # DashLine
  <2>1. s[i] \in Textual
    OBVIOUS
  <2> QED
    BY <2>1, TokensAre, Zenon
<1>4. Trim(s) = s /\ Trim(Join(<<Newline>>, s)) = s
  BY <1>1, <1>2, <1>3, TrimText
<1> QED
  BY <1>1, <1>2, <1>3, <1>4 DEF IsComment

-----------------------------------------------------------------------------
(* The statements of a dump, read.                                         *)

(* What the splitter may hold between two statements, and the text of one  *)
(* as export_to_string writes it.                                          *)
Blank == {<<>>, <<Newline>>}
Block(s, n) == s \o <<Char(Semicolon), Newline>> \o When(n = 1, <<DashLine, Newline>>)

(* Such a text is made of tokens.                                          *)
LEMMA BlockIn ==
  ASSUME NEW s \in Seq(Token), NEW n
  PROVE  Block(s, n) \in Seq(Token)
<1> DEFINE m == <<Char(Semicolon), Newline>>  w == <<DashLine, Newline>>
<1>1. Newline \in Token /\ DashLine \in Token /\ Char(Semicolon) \in Token
  BY TokensAre, Zenon DEF Token
<1>2. m \in Seq(Token) /\ w \in Seq(Token) /\ <<>> \in Seq(Token)
  BY <1>1
<1>3. Block(s, n) = (s \o m) \o w \/ Block(s, n) = (s \o m) \o <<>>
  BY DEF Block, When
<1> HIDE DEF m, w
<1>4. s \o m \in Seq(Token)
  BY <1>2, Concatenates
<1> QED
  BY <1>2, <1>3, <1>4, Concatenates

(* Two tokens.                                                             *)
LEMMA ReachesTwo ==
  ASSUME NEW u, NEW x, NEW y
  PROVE  Reaches(u, <<x, y>>, Read(Read(u, x), y))
<1> DEFINE a == Read(u, x)  b == Read(a, y)  s == <<x, y>>
           g == [n \in 0..2 |-> IF n = 0 THEN u ELSE IF n = 1 THEN a ELSE b]
<1>1. g[0] = u /\ g[1] = a /\ g[2] = b
  OBVIOUS
<1>2. Len(s) = 2 /\ s[1] = x /\ s[2] = y
  OBVIOUS
<1>3. a = Read(u, x) /\ b = Read(a, y)
  OBVIOUS
<1> HIDE DEF a, b, s, g
<1>4. ASSUME NEW n \in 1..Len(s) PROVE g[n] = Read(g[n - 1], s[n])
  <2>1. n = 1 \/ n = 2
    BY <1>2
  <2> QED
    BY <1>1, <1>2, <1>3, <2>1
<1>5. Reaches(u, s, b)
  BY <1>1, <1>2, <1>4 DEF Reaches, Steps
<1> QED
  BY <1>5 DEF a, b, s

(* The comment line at the beginning and at the end leaves nothing.        *)
LEMMA EndRead ==
  ASSUME NEW o, NEW c \in Blank, NEW p
  PROVE  Reaches(St(o, c, Off, p), <<DashLine, Newline>>, St(o, <<>>, Off, Newline))
<1>1. DashLine \notin {Char(Quote), Char(Semicolon), Newline}
  BY TokensAre, Zenon
<1>2. Read(St(o, c, Off, p), DashLine) = St(o, Append(c, DashLine), Off, DashLine)
  BY <1>1, ReadIs
<1>3. IsComment(Append(c, DashLine))
  <2>1. CASE c = <<>>
    <3>1. Append(c, DashLine) = <<DashLine>>
      BY <2>1
    <3> QED
      BY <3>1, TrimBlank
  <2>2. CASE c = <<Newline>>
    <3> DEFINE e == Append(c, DashLine)  f == <<Newline, DashLine>>
    <3>1. e \in Seq(Token) /\ f \in Seq(Token) /\ Len(e) = 2 /\ Len(f) = 2 /\ e[1] = f[1] /\ e[2] = f[2]
      BY <2>2 DEF Token
    <3> HIDE DEF e, f
    <3>2. ASSUME NEW i \in 1..Len(e) PROVE e[i] = f[i]
      <4>1. i = 1 \/ i = 2
        BY <3>1
      <4> QED
        BY <3>1, <4>1
    <3>3. e = f
      BY <3>1, <3>2, SameSeq
    <3> QED
      BY <3>3, TrimBlank DEF e, f
  <2> QED
    BY <2>1, <2>2 DEF Blank
<1>4. Read(St(o, Append(c, DashLine), Off, DashLine), Newline) = St(o, <<>>, Off, Newline)
  BY <1>3, ReadIs
<1> QED
  BY <1>2, <1>4, ReachesTwo

(* A clean statement becomes a piece of its own.                           *)
LEMMA BlockRead ==
  ASSUME NEW s, Clean(s), s # <<>>, NEW o, NEW c \in Blank, NEW p, NEW n
  PROVE  \E d \in Blank : \E q : Reaches(St(o, c, Off, p), Block(s, n), St(Append(o, s), d, Off, q))
<1> DEFINE m == <<Char(Semicolon), Newline>>  w == <<DashLine, Newline>>  e == Join(c, s)  x == Append(o, s)
           u == St(o, c, Off, p)  v == St(x, <<Newline>>, Off, Newline)
<1>1. s \in Seq(Textual) /\ s \in Seq(Token) /\ Trim(s) = s /\ Trim(Join(<<Newline>>, s)) = s
  BY TextTrim DEF Clean
<1>2. c \in Seq(Token) /\ m \in Seq(Token) /\ w \in Seq(Token)
  <2>1. Newline \in Token /\ DashLine \in Token /\ Char(Semicolon) \in Token
    BY TokensAre, Zenon DEF Token
  <2>2. \A a, b \in Token : <<a, b>> \in Seq(Token) /\ <<a>> \in Seq(Token)
    OBVIOUS
  <2>3. <<>> \in Seq(Token)
    OBVIOUS
  <2> QED
    BY <2>1, <2>2, <2>3, Zenon DEF Blank
<1>3. Trim(e) = s
  <2>1. CASE c = <<>>
    BY <1>1, <2>1, JoinEmpty
  <2>2. CASE c = <<Newline>>
    BY <1>1, <2>2
  <2> QED
    BY <2>1, <2>2 DEF Blank
<1>4. PICK r : Reaches(u, s, St(o, e, Off, r))
  BY <1>2 DEF Clean
<1>5. Done(St(o, e, Off, r)) = x
  <2>1. St(o, e, Off, r).cur = e /\ St(o, e, Off, r).out = o
    BY DEF St
  <2> HIDE DEF e
  <2> QED
    BY <1>3, <2>1 DEF Done
<1> HIDE DEF e, x
<1>6. Reaches(St(o, e, Off, r), m, v)
  <2>1. Read(St(o, e, Off, r), Char(Semicolon)) = St(x, <<>>, Off, Char(Semicolon))
    BY <1>5, ReadIs
  <2>2. Read(St(x, <<>>, Off, Char(Semicolon)), Newline) = St(x, Append(<<>>, Newline), Off, Newline)
    <3>1. ~IsComment(<<>>)
      BY TrimBlank
    <3> DEFINE k == <<>>
    <3> HIDE DEF k
    <3>2. Read(St(x, k, Off, Char(Semicolon)), Newline) = St(x, IF IsComment(k) THEN <<>> ELSE Append(k, Newline), Off, Newline)
      BY ReadIs
    <3>3. ~IsComment(k)
      BY <3>1 DEF k
    <3>4. Read(St(x, k, Off, Char(Semicolon)), Newline) = St(x, Append(k, Newline), Off, Newline)
      BY <3>2, <3>3
    <3> QED
      BY <3>4 DEF k
  <2>3. Append(<<>>, Newline) = <<Newline>>
    OBVIOUS
  <2> QED
    BY <2>1, <2>2, <2>3, ReachesTwo
<1> HIDE DEF u, m
<1>7. Reaches(u, s \o m, v) /\ s \o m \in Seq(Token)
  BY <1>1, <1>2, <1>4, <1>6, ReachesJoin, Concatenates
<1>8. CASE n # 1
  <2>1. Block(s, n) = (s \o m) \o <<>> /\ (s \o m) \o <<>> = s \o m
    BY <1>7, <1>8, ConcatEmptySeq, Zenon DEF Block, When, m
  <2> QED
    BY <1>7, <2>1 DEF Blank, v, u, x
<1>9. CASE n = 1
  <2>1. Block(s, n) = (s \o m) \o w
    BY <1>9, Zenon DEF Block, When, m
  <2>2. Reaches(v, w, St(x, <<>>, Off, Newline))
    BY EndRead DEF Blank
  <2> HIDE DEF v, w
  <2>3. Reaches(u, (s \o m) \o w, St(x, <<>>, Off, Newline)) /\ (s \o m) \o w \in Seq(Token)
    BY <1>2, <1>7, <2>2, ReachesJoin, Concatenates
  <2> QED
    BY <2>1, <2>3 DEF Blank, u, x
<1> QED
  BY <1>8, <1>9

(* A piece that is out stays out.                                          *)
Holding(v, x) == \E o \in Seq(Seq(Token)), c \in Seq(Token), q \in {On, Off} : \E p :
                   v = St(o, c, q, p) /\ o # <<>> /\ o[1] = x

(* One token more.                                                         *)
LEMMA HoldingStep ==
  ASSUME NEW v, NEW x, Holding(v, x), NEW t \in Token
  PROVE  Holding(Read(v, t), x)
<1>1a. PICK o \in Seq(Seq(Token)), c \in Seq(Token), q \in {On, Off} : \E p : v = St(o, c, q, p) /\ o # <<>> /\ o[1] = x
  BY DEF Holding
<1>1. PICK p : v = St(o, c, q, p) /\ o # <<>> /\ o[1] = x
  BY <1>1a
<1>2. Append(c, t) \in Seq(Token) /\ <<>> \in Seq(Token) /\ Append(c, Newline) \in Seq(Token)
  BY DEF Token
<1>3. ASSUME NEW e \in Seq(Token), NEW r \in {On, Off}, NEW y PROVE Holding(St(o, e, r, y), x)
  BY <1>1 DEF Holding
<1>4. CASE q = On
  <2>1. Read(v, t) = St(o, Append(c, t), IF t # Char(Quote) \/ p = Char(Backslash) THEN On ELSE Off, t)
    BY <1>1, <1>4, ReadIs
  <2> QED
    BY <1>2, <1>3, <2>1
<1>5. CASE q = Off
  <2>1. CASE t = Char(Quote)
    <3>1. Read(v, t) = St(o, Append(c, t), On, t)
      BY <1>1, <1>5, <2>1, ReadIs
    <3> QED
      BY <1>2, <1>3, <3>1
  <2>2. CASE t = Char(Semicolon)
    <3> DEFINE d == Done(St(o, c, Off, p))
    <3>1. Read(v, t) = St(d, <<>>, Off, t)
      BY <1>1, <1>5, <2>2, ReadIs
    <3>2. d = o \/ d = Append(o, Trim(c))
      BY DEF Done, St
    <3>3. Trim(c) \in Seq(Token)
      BY TrimIs
    <3> HIDE DEF d
    <3>4. d \in Seq(Seq(Token)) /\ d # <<>> /\ d[1] = x
      <4>1. CASE d = o
        BY <1>1, <4>1
      <4>2. CASE d = Append(o, Trim(c))
        <5> DEFINE z == Trim(c)  Z == Seq(Token)
        <5>1. o \in Seq(Z) /\ z \in Z /\ o # <<>> /\ o[1] = x /\ d = Append(o, z)
          BY <1>1, <3>3, <4>2
        <5> HIDE DEF z, Z
        <5>2. d \in Seq(Z) /\ d # <<>> /\ d[1] = x
          BY <5>1
        <5> QED
          BY <5>2 DEF Z
      <4> QED
        BY <3>2, <4>1, <4>2
    <3> QED
      BY <1>2, <3>1, <3>4 DEF Holding
  <2>3. CASE t = Newline
    <3>1. Read(v, t) = St(o, IF IsComment(c) THEN <<>> ELSE Append(c, Newline), Off, t)
      BY <1>1, <1>5, <2>3, ReadIs
    <3> QED
      BY <1>2, <1>3, <3>1
  <2>4. CASE t \notin {Char(Quote), Char(Semicolon), Newline}
    <3>1. Read(v, t) = St(o, Append(c, t), Off, t)
      BY <1>1, <1>5, <2>4, ReadIs
    <3> QED
      BY <1>2, <1>3, <3>1
  <2> QED
    BY <2>1, <2>2, <2>3, <2>4
<1> QED
  BY <1>4, <1>5

(* A whole text more.                                                      *)
LEMMA HoldingOn ==
  ASSUME NEW u, NEW x, Holding(u, x), NEW s \in Seq(Token), NEW v, Reaches(u, s, v)
  PROVE  Holding(v, x)
<1>1. PICK g : Steps(g, u, s) /\ g[Len(s)] = v
  BY DEF Reaches
<1> DEFINE P == {n \in Nat : n <= Len(s) => Holding(g[n], x)}
<1>2. 0 \in P
  BY <1>1 DEF Steps
<1>3. ASSUME NEW n \in P PROVE n + 1 \in P
  <2> SUFFICES ASSUME n + 1 <= Len(s) PROVE Holding(g[n + 1], x)
    OBVIOUS
  <2>1. n + 1 \in 1..Len(s) /\ Holding(g[n], x) /\ s[n + 1] \in Token /\ (n + 1) - 1 = n
    OBVIOUS
  <2>2. g[n + 1] = Read(g[n], s[n + 1])
    BY <1>1, <2>1 DEF Steps
  <2> QED
    BY <2>1, <2>2, HoldingStep
<1>4. P = Nat
  <2> HIDE DEF P
  <2> QED
    BY <1>2, <1>3, Induction DEF P
<1>5. Len(s) \in P /\ Len(s) <= Len(s)
  BY <1>4
<1> QED
  BY <1>1, <1>5

(* And so it is among the pieces in the end.                               *)
LEMMA HeldOut ==
  ASSUME NEW v, NEW x, Holding(v, x)
  PROVE  /\ v.out \in Seq(Seq(Token)) /\ v.out # <<>> /\ v.out[1] = x
         /\ Done(v) \in Seq(Seq(Token)) /\ Done(v) # <<>> /\ Done(v)[1] = x
<1>1a. PICK o \in Seq(Seq(Token)), c \in Seq(Token), q \in {On, Off} : \E p : v = St(o, c, q, p) /\ o # <<>> /\ o[1] = x
  BY DEF Holding
<1>1. PICK p : v = St(o, c, q, p) /\ o # <<>> /\ o[1] = x
  BY <1>1a
<1>2. v.out = o /\ v.cur = c
  BY <1>1 DEF St
<1> DEFINE z == Trim(c)  Z == Seq(Token)
<1>3. z \in Z /\ o \in Seq(Z)
  BY <1>1, TrimIs
<1>4. Done(v) = o \/ Done(v) = Append(o, z)
  BY <1>2 DEF Done
<1> HIDE DEF z, Z
<1>5. Append(o, z) \in Seq(Z) /\ Append(o, z) # <<>> /\ Append(o, z)[1] = x
  BY <1>1, <1>3
<1>6. Done(v) \in Seq(Z) /\ Done(v) # <<>> /\ Done(v)[1] = x
  BY <1>1, <1>3, <1>4, <1>5
<1> QED
  BY <1>1, <1>2, <1>6 DEF Z

(* The first statement of a dump, if it is clean, is the first piece; if   *)
(* all are clean, the pieces are the statements.                           *)
LEMMA Splits ==
  ASSUME NEW X, NEW sts \in Seq(X), sts # <<>>, NEW text, text = [n \in 1..Len(sts) |-> SqlOf(sts[n])],
         \A n \in 1..Len(sts) : text[n] \in Seq(Textual) /\ text[n] # <<>>,
         Clean(text[1])
  PROVE  LET p == split_sql_statements(export_to_string(sts)) IN
         /\ p \in Seq(Seq(Token)) /\ p # <<>> /\ p[1] = text[1]
         /\ (\A n \in 1..Len(sts) : Clean(text[n])) => Len(p) = Len(sts) /\ \A n \in 1..Len(sts) : p[n] = text[n]
<1> DEFINE B == [n \in 1..Len(sts) |-> Block(text[n], n)]  G(k) == FlattenSeq(SubSeq(B, 1, k))
           D == <<DashLine, Newline>>  R(k) == Join(D, G(k))  all == Join(Join(D, FlattenSeq(B)), D)
           u == St(<<>>, <<>>, Off, Newline)
<1>0. Len(sts) \in Nat /\ Len(sts) >= 1 /\ DOMAIN sts = 1..Len(sts)
  OBVIOUS
<1>1. export_to_string(sts) = all
  <2>1. \A n \in 1..Len(sts) : Block(text[n], n) = SqlOf(sts[n]) \o <<Char(Semicolon), Newline>> \o When(n = 1, <<DashLine, Newline>>)
    BY Zenon DEF Block
  <2>2. B = [n \in DOMAIN sts |-> SqlOf(sts[n]) \o <<Char(Semicolon), Newline>> \o When(n = 1, <<DashLine, Newline>>)]
    BY <1>0, <2>1, Zenon
  <2> QED
    BY <2>2, Zenon DEF export_to_string, Join
<1>2. /\ \A n \in 1..Len(sts) : B[n] = Block(text[n], n) /\ B[n] \in Seq(Token)
      /\ B \in Seq(Seq(Token)) /\ Len(B) = Len(sts)
  <2>1. ASSUME NEW n \in 1..Len(sts) PROVE Block(text[n], n) \in Seq(Token)
    <3>1. text[n] \in Seq(Token)
      BY TextualIsToken
    <3> QED
      BY <3>1, BlockIn
  <2> DEFINE Z == Seq(Token)  b(n) == Block(text[n], n)
  <2>2. (\A n \in 1..Len(sts) : b(n) \in Z) /\ B = [n \in 1..Len(sts) |-> b(n)]
    BY <2>1
  <2> HIDE DEF Z, b, B
  <2>3. B \in Seq(Z) /\ Len(B) = Len(sts) /\ \A n \in 1..Len(sts) : B[n] = b(n) /\ B[n] \in Z
    BY <1>0, <2>2
  <2> QED
    BY <2>3 DEF Z, b
<1> HIDE DEF B
<1>3. /\ G(0) = <<>> /\ G(Len(sts)) = FlattenSeq(B) /\ FlattenSeq(B) \in Seq(Token)
      /\ \A k \in 0..Len(sts) : G(k) \in Seq(Token)
      /\ \A k \in 0..Len(sts) - 1 : G(k + 1) = Join(G(k), B[k + 1])
  BY <1>2, FlattenGrows
<1>4. D \in Seq(Token)
  <2>1. DashLine \in Token /\ Newline \in Token
    BY DEF Token
  <2> QED
    BY <2>1
<1> HIDE DEF G, D
<1>5. /\ R(0) = D /\ all = Join(R(Len(sts)), D)
      /\ \A k \in 0..Len(sts) : R(k) \in Seq(Token)
      /\ \A k \in 0..Len(sts) - 1 : R(k + 1) = Join(R(k), B[k + 1])
  <2>1. R(0) = D
    BY <1>3, <1>4, JoinEmpty
  <2>2. ASSUME NEW k \in 0..Len(sts) PROVE R(k) \in Seq(Token)
    BY <1>3, <1>4, JoinIn
  <2>3. ASSUME NEW k \in 0..Len(sts) - 1 PROVE R(k + 1) = Join(R(k), B[k + 1])
    <3>1. G(k) \in Seq(Token) /\ B[k + 1] \in Seq(Token) /\ G(k + 1) = Join(G(k), B[k + 1])
      <4>1. k \in 0..Len(sts) /\ k + 1 \in 1..Len(sts)
        BY <1>0
      <4> QED
        BY <1>2, <1>3, <4>1
    <3>2. Join(Join(D, G(k)), B[k + 1]) = Join(D, Join(G(k), B[k + 1]))
      <4> DEFINE T == Token
      <4>1. D \in Seq(T) /\ G(k) \in Seq(T) /\ B[k + 1] \in Seq(T)
        BY <1>4, <3>1
      <4> HIDE DEF T
      <4> QED
        BY ONLY <4>1, JoinThree
    <3> QED
      BY <3>1, <3>2
  <2> QED
    BY <1>3, <2>1, <2>2, <2>3
<1> HIDE DEF R
<1>6. Reaches(u, R(0), u)
  BY <1>5, EndRead DEF Blank, D
<1> DEFINE x == text[1]
<1>7. \E v : Holding(v, x) /\ Reaches(u, R(Len(sts)), v)
  <2> DEFINE Good(k) == \E v : Holding(v, x) /\ Reaches(u, R(k), v)
             P == {k \in Nat : k + 1 <= Len(sts) => Good(k + 1)}
  <2>1. Good(1)
    <3>1a. PICK d \in Blank : \E q : Reaches(u, Block(x, 1), St(Append(<<>>, x), d, Off, q))
      <4>1. <<>> \in Blank /\ Clean(x) /\ x # <<>>
        BY <1>0 DEF Blank
      <4> HIDE DEF x
      <4> QED
        BY <4>1, BlockRead
    <3>1. PICK q : Reaches(u, Block(x, 1), St(Append(<<>>, x), d, Off, q))
      BY <3>1a
    <3>2. B[1] = Block(x, 1) /\ B[1] \in Seq(Token) /\ R(1) = Join(R(0), B[1]) /\ R(0) \in Seq(Token)
      <4>1. 0 \in 0..Len(sts) - 1 /\ 0 \in 0..Len(sts) /\ 0 + 1 = 1 /\ 1 \in 1..Len(sts)
        BY <1>0
      <4> QED
        BY <1>2, <1>5, <4>1
    <3>3. Reaches(u, R(1), St(Append(<<>>, x), d, Off, q))
      <4> HIDE DEF u, x
      <4>1. Reaches(u, R(0) \o B[1], St(Append(<<>>, x), d, Off, q))
        BY <1>6, <3>1, <3>2, ReachesJoin
      <4> QED
        BY <3>2, <4>1 DEF Join
    <3>4. Append(<<>>, x) \in Seq(Seq(Token)) /\ Append(<<>>, x) # <<>> /\ Append(<<>>, x)[1] = x /\ d \in Seq(Token)
      <4> DEFINE Z == Seq(Token)
      <4>1. x \in Z
        BY <1>0, TextualIsToken
      <4> HIDE DEF Z, x
      <4>2. Append(<<>>, x) \in Seq(Z) /\ Append(<<>>, x) # <<>> /\ Append(<<>>, x)[1] = x
        BY <4>1
      <4>3. d \in Seq(Token)
        <5>1. Newline \in Token
          BY DEF Token
        <5>2. <<Newline>> \in Seq(Token) /\ <<>> \in Seq(Token)
          BY <5>1
        <5> QED
          BY <5>2 DEF Blank
      <4> QED
        BY <4>2, <4>3 DEF Z
    <3> HIDE DEF x
    <3>5. Holding(St(Append(<<>>, x), d, Off, q), x)
      BY <3>4 DEF Holding
    <3> QED
      BY <3>3, <3>5
  <2>2. 0 \in P
    BY <2>1
  <2>3. ASSUME NEW k \in P PROVE k + 1 \in P
    <3> SUFFICES ASSUME (k + 1) + 1 <= Len(sts) PROVE Good((k + 1) + 1)
      OBVIOUS
    <3> DEFINE j == k + 1
    <3>1. j \in 0..Len(sts) - 1 /\ j \in 0..Len(sts) /\ j + 1 \in 1..Len(sts) /\ Good(j)
      OBVIOUS
    <3> HIDE DEF j, x
    <3>2. R(j + 1) = Join(R(j), B[j + 1]) /\ B[j + 1] \in Seq(Token) /\ R(j) \in Seq(Token)
      BY <1>2, <1>5, <3>1
    <3>3. PICK v : Holding(v, x) /\ Reaches(u, R(j), v)
      BY <3>1
    <3>4. PICK w : Reaches(v, B[j + 1], w)
      BY <3>2, ReachesSome
    <3>5. Holding(w, x)
      BY <3>2, <3>3, <3>4, HoldingOn
    <3> HIDE DEF u
    <3>6. Reaches(u, R(j) \o B[j + 1], w)
      BY <3>2, <3>3, <3>4, ReachesJoin
    <3>7. Good(j + 1)
      BY <3>2, <3>5, <3>6 DEF Join
    <3> QED
      BY <3>7 DEF j
  <2> HIDE DEF Good
  <2>4. P = Nat
    <3> HIDE DEF P
    <3> QED
      BY <2>2, <2>3, Induction DEF P
  <2>5. Len(sts) - 1 \in P /\ (Len(sts) - 1) + 1 = Len(sts)
    <3> HIDE DEF P
    <3> QED
      BY <1>0, <2>4
  <2>6. Good(Len(sts))
    BY <1>0, <2>5
  <2> QED
    BY <2>6 DEF Good
<1> HIDE DEF x
<1>8. all \in Seq(Token) /\ R(Len(sts)) \in Seq(Token) /\ all = R(Len(sts)) \o D
  <2>1. Len(sts) \in 0..Len(sts)
    BY <1>0
  <2>2. R(Len(sts)) \in Seq(Token) /\ all = Join(R(Len(sts)), D)
    BY <1>5, <2>1
  <2> HIDE DEF all
  <2> QED
    BY <1>4, <2>2, Concatenates DEF Join
<1> HIDE DEF all
<1> DEFINE p == split_sql_statements(export_to_string(sts))
<1>9. ASSUME NEW v, Reaches(u, all, v) PROVE p = IF IsComment(v.cur) THEN v.out ELSE Done(v)
  BY <1>1, <1>8, <1>9, SplitIs
<1> HIDE DEF p
<1>10. p \in Seq(Seq(Token)) /\ p # <<>> /\ p[1] = x
  <2>1. PICK v : Holding(v, x) /\ Reaches(u, R(Len(sts)), v)
    BY <1>7
  <2>2. PICK w : Reaches(v, D, w)
    BY <1>4, ReachesSome
  <2>3. Holding(w, x)
    BY <1>4, <2>1, <2>2, HoldingOn
  <2>4. Reaches(u, all, w)
    <3> HIDE DEF u
    <3> QED
      BY <1>4, <1>8, <2>1, <2>2, ReachesJoin
  <2>5. p = IF IsComment(w.cur) THEN w.out ELSE Done(w)
    BY <1>9, <2>4
  <2> QED
    BY <2>3, <2>5, HeldOut
<1>11. ASSUME \A n \in 1..Len(sts) : Clean(text[n])
       PROVE  Len(p) = Len(sts) /\ \A n \in 1..Len(sts) : p[n] = text[n]
  <2> DEFINE Z == Seq(Token)
             Out(o, k) == o \in Seq(Z) /\ Len(o) = k /\ \A i \in 1..k : o[i] = text[i]
             Good(k) == \E o : \E d \in Blank : \E q : Out(o, k) /\ Reaches(u, R(k), St(o, d, Off, q))
             P == {k \in Nat : k <= Len(sts) => Good(k)}
  <2>1. 0 \in P
    <3>1. Out(<<>>, 0) /\ <<>> \in Blank
      BY DEF Blank
    <3> HIDE DEF Out
    <3> QED
      BY <1>6, <3>1
  <2>2. ASSUME NEW k \in P PROVE k + 1 \in P
    <3> HIDE DEF Good
    <3> SUFFICES ASSUME k + 1 <= Len(sts) PROVE Good(k + 1)
      OBVIOUS
    <3>1. k \in 0..Len(sts) - 1 /\ k \in 0..Len(sts) /\ k + 1 \in 1..Len(sts) /\ Good(k) /\ k \in Nat
      BY <1>0
    <3>2. R(k + 1) = Join(R(k), B[k + 1]) /\ B[k + 1] = Block(text[k + 1], k + 1) /\ B[k + 1] \in Seq(Token) /\ R(k) \in Seq(Token)
      BY <1>2, <1>5, <3>1
    <3> HIDE DEF u, Out
    <3>3a. PICK o : \E d \in Blank : \E q : Out(o, k) /\ Reaches(u, R(k), St(o, d, Off, q))
      BY <3>1 DEF Good
    <3>3b. PICK d \in Blank : \E q : Out(o, k) /\ Reaches(u, R(k), St(o, d, Off, q))
      BY <3>3a
    <3>3. PICK q : Out(o, k) /\ Reaches(u, R(k), St(o, d, Off, q))
      BY <3>3b
    <3>4. Clean(text[k + 1]) /\ text[k + 1] # <<>> /\ text[k + 1] \in Z
      BY <1>11, <3>1, TextualIsToken
    <3>5a. PICK e \in Blank : \E r : Reaches(St(o, d, Off, q), B[k + 1], St(Append(o, text[k + 1]), e, Off, r))
      <4> DEFINE y == text[k + 1]
      <4>1. Clean(y) /\ y # <<>> /\ B[k + 1] = Block(y, k + 1)
        BY <3>2, <3>4
      <4> HIDE DEF y
      <4>2. \E e \in Blank : \E r : Reaches(St(o, d, Off, q), Block(y, k + 1), St(Append(o, y), e, Off, r))
        BY <4>1, BlockRead
      <4> QED
        BY <4>1, <4>2 DEF y
    <3>5. PICK r : Reaches(St(o, d, Off, q), B[k + 1], St(Append(o, text[k + 1]), e, Off, r))
      BY <3>5a
    <3>6. Reaches(u, R(k) \o B[k + 1], St(Append(o, text[k + 1]), e, Off, r))
      BY <3>2, <3>3, <3>5, ReachesJoin
    <3>7. Out(Append(o, text[k + 1]), k + 1)
      <4> DEFINE y == text[k + 1]  s == Append(o, y)
      <4>1. o \in Seq(Z) /\ Len(o) = k /\ y \in Z /\ \A i \in 1..k : o[i] = text[i]
        BY <3>3, <3>4 DEF Out
      <4>0. y = text[k + 1]
        OBVIOUS
      <4> HIDE DEF Z, y
      <4>2. s \in Seq(Z) /\ Len(s) = k + 1 /\ s[k + 1] = y /\ \A i \in 1..k : s[i] = o[i]
        BY <3>1, <4>1
      <4> HIDE DEF s
      <4>3. ASSUME NEW i \in 1..k + 1 PROVE s[i] = text[i]
        <5>1. CASE i = k + 1
          BY <4>0, <4>2, <5>1
        <5>2. CASE i \in 1..k
          BY <4>1, <4>2, <5>2
        <5> QED
          BY <3>1, <5>1, <5>2
      <4> QED
        BY <4>2, <4>3 DEF Out, s, y
    <3> QED
      <4> DEFINE z == Append(o, text[k + 1])
      <4> HIDE DEF z
      <4>1. Reaches(u, R(k + 1), St(z, e, Off, r)) /\ Out(z, k + 1)
        BY <3>2, <3>6, <3>7 DEF Join, z
      <4> QED
        BY <4>1 DEF Good
  <2> HIDE DEF Good
  <2>3. P = Nat
    <3> HIDE DEF P
    <3> QED
      BY <2>1, <2>2, Induction DEF P
  <2>4. Len(sts) \in P /\ Len(sts) <= Len(sts)
    BY <1>0, <2>3
  <2>5a. PICK o : \E d \in Blank : \E q : Out(o, Len(sts)) /\ Reaches(u, R(Len(sts)), St(o, d, Off, q))
    BY <2>4 DEF Good
  <2>5b. PICK d \in Blank : \E q : Out(o, Len(sts)) /\ Reaches(u, R(Len(sts)), St(o, d, Off, q))
    BY <2>5a
  <2>5. PICK q : Out(o, Len(sts)) /\ Reaches(u, R(Len(sts)), St(o, d, Off, q))
    BY <2>5b
  <2>6. Reaches(St(o, d, Off, q), D, St(o, <<>>, Off, Newline))
    BY EndRead DEF D
  <2>7. Reaches(u, all, St(o, <<>>, Off, Newline))
    <3> HIDE DEF u
    <3> QED
      BY <1>4, <1>8, <2>5, <2>6, ReachesJoin
  <2>8. p = o
    <3> DEFINE w == St(o, <<>>, Off, Newline)
    <3>1. w.out = o /\ w.cur = <<>>
      BY DEF St
    <3>2. p = IF IsComment(w.cur) THEN w.out ELSE Done(w)
      BY <1>9, <2>7
    <3> HIDE DEF w
    <3>3. ~IsComment(w.cur) /\ Trim(w.cur) = <<>>
      BY <3>1, TrimBlank
    <3> QED
      BY <3>1, <3>2, <3>3 DEF Done
  <2> QED
    BY <2>5, <2>8
<1> QED
  BY <1>10, <1>11 DEF p, x

-----------------------------------------------------------------------------
(* The texts of the statements.                                            *)

(* The token of a primary key.                                             *)
KeyToken(n) == <<"number", Sign(n), 2 * (IF n < 0 THEN -n ELSE n), FALSE>>

(* The token of a key tells the key.                                       *)
LEMMA KeyTokenIs ==
  /\ \A n \in Int : KeyToken(n) \in Plain /\ Tokens(Whole(n)) = <<KeyToken(n)>>
  /\ \A m, n \in Int : KeyToken(m) = KeyToken(n) => m = n
<1>1. ASSUME NEW n \in Int PROVE KeyToken(n) \in Plain /\ Tokens(Whole(n)) = <<KeyToken(n)>>
  <2> DEFINE h == 2 * (IF n < 0 THEN -n ELSE n)
  <2>1. Sign(n) \in {"", "-"} /\ h \in Int /\ FALSE \in BOOLEAN
    <3>1. h \in Int
      OBVIOUS
    <3> QED
      BY <3>1, SignIs
  <2>2. Tokens(NumberLit(Sign(n), h, FALSE)) = <<<<"number", Sign(n), h, FALSE>>>>
    BY NumberIs
  <2> HIDE DEF h
  <2>3. <<"number", Sign(n), h, FALSE>> \in Plain
    BY <2>1, TokensAre
  <2> QED
    BY <2>2, <2>3 DEF KeyToken, Whole, h
<1>2. ASSUME NEW m \in Int, NEW n \in Int, KeyToken(m) = KeyToken(n) PROVE m = n
  <2>1. Sign(m) = Sign(n) /\ 2 * (IF m < 0 THEN -m ELSE m) = 2 * (IF n < 0 THEN -n ELSE n)
    BY <1>2 DEF KeyToken
  <2>2. m < 0 <=> n < 0
    BY <2>1 DEF Sign
  <2> QED
    BY <2>1, <2>2
<1> QED
  BY <1>1, <1>2

(* The text of a float is one token.                                       *)
LEMMA FloatText ==
  ASSUME NEW n \in Int
  PROVE  \E t \in Plain : Tokens(FloatLit(n)) = <<t>>
<1>1. Sign(n) \in {"", "-"}
  BY SignIs
<1>2. CASE n = NaN
  <2> DEFINE e == Lit("name", NaNText)
  <2>1. e.kind = "name" /\ e.data = NaNText
    BY DEF Lit
  <2>2. NaNText \in Seq(Int)
    BY DEF NaNText
  <2> HIDE DEF e
  <2>3. Tokens(e) = <<<<"name", NaNText>>>>
    BY <2>1 DEF Tokens
  <2>4. FloatLit(n) = e
    BY <1>2, NaNIs, Zenon DEF FloatLit, e
  <2>5. <<"name", NaNText>> \in Plain
    BY <2>2, TokensAre
  <2> QED
    BY <2>3, <2>4, <2>5
<1>3. CASE n # NaN /\ n \in Infinite
  <2> DEFINE e == [Lit("inf", <<>>) EXCEPT !.sign = Sign(n)]
  <2>1. e.kind = "inf" /\ e.sign = Sign(n)
    BY DEF Lit
  <2> HIDE DEF e
  <2>2. Tokens(e) = <<<<"inf", Sign(n)>>>>
    BY <2>1 DEF Tokens
  <2>3. FloatLit(n) = e
    BY <1>3 DEF FloatLit, e
  <2>4. <<"inf", Sign(n)>> \in Plain
    BY <1>1, TokensAre
  <2> QED
    BY <2>2, <2>3, <2>4
<1>4. CASE n # NaN /\ n \notin Infinite
  <2> DEFINE h == IF n < 0 THEN Opposite(n) ELSE n
  <2>1. FloatLit(n) = NumberLit(Sign(n), h, TRUE)
    BY <1>4 DEF FloatLit
  <2>2. h \in Int /\ TRUE \in BOOLEAN
    BY DEF Opposite
  <2> HIDE DEF h
  <2>3. Tokens(NumberLit(Sign(n), h, TRUE)) = <<<<"number", Sign(n), h, TRUE>>>>
    BY NumberIs
  <2>4. <<"number", Sign(n), h, TRUE>> \in Plain
    BY <1>1, <2>2, TokensAre
  <2> QED
    BY <2>1, <2>3, <2>4
<1> QED
  BY <1>2, <1>3, <1>4

(* The texts of strings, blobs and NULL.                                   *)
LEMMA StringText ==
  ASSUME NEW d \in Seq(Int)
  PROVE  /\ Tokens(Lit("string", d)) \in Seq(Textual) /\ Tokens(Lit("blob", d)) \in Seq(Textual)
         /\ Tokens(Lit("null", d)) \in Seq(Plain)
         /\ SplitsWell(d) => Clean(Tokens(Lit("string", d)))
<1>1. \A k : Lit(k, d).kind = k /\ Lit(k, d).data = d
  BY DEF Lit
<1>2. ASSUME NEW e, e.data = d
      PROVE  /\ e.kind = "string" => Tokens(e) = Chars(<<Quote>> \o Escaped(d) \o <<Quote>>)
             /\ e.kind = "blob" => Tokens(e) = <<Word("X")>> \o Chars(<<Quote>>) \o <<<<"hex", d>>>> \o Chars(<<Quote>>)
             /\ e.kind = "null" => Tokens(e) = <<Word("NULL")>>
  BY <1>2 DEF Tokens
<1>3. /\ Tokens(Lit("string", d)) = Chars(<<Quote>> \o Escaped(d) \o <<Quote>>)
      /\ Tokens(Lit("blob", d)) = <<Word("X")>> \o Chars(<<Quote>>) \o <<<<"hex", d>>>> \o Chars(<<Quote>>)
      /\ Tokens(Lit("null", d)) = <<Word("NULL")>>
  BY <1>1, <1>2
<1>4. <<Quote>> \in Seq(Int)
  BY CharactersAssumption
<1>5. Chars(<<Quote>> \o Escaped(d) \o <<Quote>>) \in Seq(Textual)
  <2>1. Escaped(d) \in Seq(Int)
    BY EscapedIs
  <2>2. <<Quote>> \o Escaped(d) \o <<Quote>> \in Seq(Int)
    BY <1>4, <2>1
  <2> QED
    BY <2>2, CharsAre
<1>6. <<Word("X")>> \o Chars(<<Quote>>) \o <<<<"hex", d>>>> \o Chars(<<Quote>>) \in Seq(Textual)
  <2> DEFINE x == Word("X")  q == Chars(<<Quote>>)  z == <<"hex", d>>
  <2>1. x \in Plain /\ z \in Plain
    BY TokensAre DEF WordsUsed
  <2>2. x \in Textual /\ z \in Textual /\ q \in Seq(Textual)
    BY <1>4, <2>1, CharsAre DEF Plain
  <2> HIDE DEF x, q, z
  <2>3. <<x>> \in Seq(Textual) /\ <<z>> \in Seq(Textual)
    BY <2>2
  <2>4. <<x>> \o q \in Seq(Textual)
    BY <2>2, <2>3, Concatenates
  <2>5. (<<x>> \o q) \o <<z>> \in Seq(Textual)
    BY <2>3, <2>4, Concatenates
  <2>6. ((<<x>> \o q) \o <<z>>) \o q \in Seq(Textual)
    BY <2>2, <2>5, Concatenates
  <2> QED
    BY <2>6 DEF x, q, z
<1>7. <<Word("NULL")>> \in Seq(Plain)
  <2>1. Word("NULL") \in Plain
    BY TokensAre DEF WordsUsed
  <2> QED
    BY <2>1
<1> QED
  BY <1>3, <1>5, <1>6, <1>7, CleanText

(* The text of a cell.                                                     *)
LEMMA CellText ==
  ASSUME coltype \in Types, NEW v \in Cells
  PROVE  LET t == Tokens(format_value(v)) IN t \in Seq(Textual) /\ (Survives(v) => Clean(t))
<1> DEFINE e == format_value(v)  t == Tokens(e)
<1>0. \A s \in Seq(Plain) : s \in Seq(Textual) /\ Clean(s)
  BY TextualIsToken, CleanPlain
<1>1. SUFFICES t \in Seq(Plain) \/ (t \in Seq(Textual) /\ (Survives(v) => Clean(t)))
  BY <1>0
<1>n. CASE v = Null
  <2>1. e = Lit("null", <<>>)
    BY <1>n DEF format_value, Null, Val
  <2>2. <<>> \in Seq(Int)
    OBVIOUS
  <2> QED
    BY <2>1, <2>2, StringText
<1>v. CASE v # Null
  <2>1. v \in Of(coltype) /\ v.type = coltype /\ v.data \in Seq(Int)
    BY <1>v, CellIs
  <2>2. CASE coltype \in {"Integer", "Float", "Boolean"}
    <3>1. Num(v) \in Int
      <4>1. PICK d \in Data(coltype) : v = Val(coltype, d)
        BY <2>1 DEF Of
      <4>2. v.data = d
        BY <4>1 DEF Val
      <4>3. \E k \in Int : d = <<k>>
        BY <2>2, <4>1 DEF Data, Int64
      <4> QED
        BY <4>2, <4>3 DEF Num
    <3>2. e = Whole(Num(v)) \/ e = FloatLit(Num(v))
      BY <2>1, <2>2 DEF format_value
    <3>3. \E x \in Plain : t = <<x>>
      <4>1. Tokens(Whole(Num(v))) = <<KeyToken(Num(v))>> /\ KeyToken(Num(v)) \in Plain
        BY <3>1, KeyTokenIs
      <4>2. \E x \in Plain : Tokens(FloatLit(Num(v))) = <<x>>
        BY <3>1, FloatText
      <4> HIDE DEF e
      <4> QED
        BY <3>2, <4>1, <4>2
    <3> QED
      BY <3>3
  <2>3. CASE coltype \in {"Text", "Timestamp"}
    <3>1. e = Lit("string", v.data)
      BY <2>1, <2>3 DEF format_value
    <3>2. Survives(v) => SplitsWell(v.data)
      <4>1. CASE coltype = "Text"
        BY <2>1, <4>1 DEF Survives
      <4>2. CASE coltype = "Timestamp"
        <5>1. PICK d \in DataOf["Timestamp"] : v = Val("Timestamp", d)
          BY <1>v, <4>2 DEF CValues, Cells
        <5>2. v.data = d /\ Backslash \notin ToSet(d)
          BY <5>1, CharactersAssumption DEF Val
        <5> QED
          BY <5>2 DEF SplitsWell, ToSet
      <4> QED
        BY <2>3, <4>1, <4>2
    <3> QED
      BY <2>1, <3>1, <3>2, StringText
  <2>4. CASE coltype = "Blob"
    <3>1. e = Lit("blob", v.data)
      BY <2>1, <2>4 DEF format_value
    <3>2. ~Survives(v)
      BY <2>1, <2>4 DEF Survives
    <3> QED
      BY <2>1, <3>1, <3>2, StringText
  <2> QED
    BY <2>2, <2>3, <2>4 DEF Types
<1> QED
  BY <1>n, <1>v

(* The places of two joined sequences.                                     *)
LEMMA JoinLen ==
  ASSUME NEW T, NEW a \in Seq(T), NEW b \in Seq(T), NEW c, c = Join(a, b)
  PROVE  c \in Seq(T) /\ Len(c) = Len(a) + Len(b) /\ Len(a) \in Nat /\ Len(b) \in Nat
BY Concatenates DEF Join

LEMMA JoinLeft ==
  ASSUME NEW T, NEW a \in Seq(T), NEW b \in Seq(T), NEW c, c = Join(a, b), NEW i \in 1..Len(a)
  PROVE  c[i] = a[i]
BY Concatenates DEF Join

LEMMA JoinRight ==
  ASSUME NEW T, NEW a \in Seq(T), NEW b \in Seq(T), NEW c, c = Join(a, b), NEW i \in 1..Len(b), NEW j, j = Len(a) + i
  PROVE  c[j] = b[i]
BY Concatenates DEF Join

(* The text of a row in an INSERT.                                         *)
RowText(e) == <<Word("(")>> \o FlattenSeq([i \in 1..2 |-> Tokens(e[i])]) \o <<Word(")")>>

(* Two sequences, flattened.                                               *)
LEMMA FlattenTwo ==
  ASSUME NEW T, NEW f, NEW a \in Seq(T), NEW b \in Seq(T), f = [i \in 1..2 |-> f[i]], f[1] = a, f[2] = b
  PROVE  FlattenSeq(f) = Join(a, b)
<1> DEFINE Z == Seq(T)
<1>1. a \in Z /\ b \in Z
  OBVIOUS
<1> HIDE DEF Z
<1>2. f \in Seq(Z) /\ Len(f) = 2 /\ f[1] = a /\ f[2] = b
  <2>1. f[1] = a /\ f[2] = b
    OBVIOUS
  <2>2. f = [i \in 1..2 |-> f[i]]
    OBVIOUS
  <2>3. ASSUME NEW i \in 1..2 PROVE f[i] \in Z
    <3>1. i = 1 \/ i = 2
      OBVIOUS
    <3> QED
      BY <1>1, <2>1, <3>1
  <2> QED
    BY ONLY <2>1, <2>2, <2>3
<1>3. /\ FlattenSeq(SubSeq(f, 1, 0)) = <<>> /\ FlattenSeq(SubSeq(f, 1, Len(f))) = FlattenSeq(f)
      /\ \A k \in 0..Len(f) - 1 : FlattenSeq(SubSeq(f, 1, k + 1)) = Join(FlattenSeq(SubSeq(f, 1, k)), f[k + 1])
  BY <1>2, FlattenGrows DEF Z
<1> DEFINE G(k) == FlattenSeq(SubSeq(f, 1, k))
<1>4. G(0) = <<>> /\ G(2) = FlattenSeq(f) /\ G(0 + 1) = Join(G(0), f[0 + 1]) /\ G(1 + 1) = Join(G(1), f[1 + 1])
  BY <1>2, <1>3
<1> HIDE DEF G
<1>5. G(1) = Join(<<>>, a) /\ FlattenSeq(f) = Join(G(1), b)
  BY <1>2, <1>4
<1>6. Join(<<>>, a) = a
  BY JoinEmpty
<1> QED
  BY <1>2, <1>5, <1>6 DEF Z

(* The text of a row begins with its key.                                  *)
LEMMA RowTextIs ==
  ASSUME coltype \in Types, NEW id \in Ids, NEW v \in Cells, NEW e, e = Written(<<Integer(id), v>>)
  PROVE  LET t == RowText(e) IN
         /\ t \in Seq(Textual) /\ Len(t) >= 3 /\ t[1] = Word("(") /\ t[2] = KeyToken(id) /\ t[Len(t)] = Word(")")
         /\ Survives(v) => Clean(t)
<1> DEFINE m == KeyToken(id)  a == <<m>>  b == Tokens(format_value(v))  f == [i \in 1..2 |-> IF i = 1 THEN a ELSE b]
           l == Word("(")  r == Word(")")  t == RowText(e)
<1>1. id \in Int
  BY IdsAssumption, MaxIntAssumption
<1>2. b \in Seq(Textual) /\ (Survives(v) => Clean(b))
  BY CellText
<1>3. m \in Plain /\ l \in Plain /\ r \in Plain
  BY <1>1, KeyTokenIs, TokensAre DEF WordsUsed
<1>4. f = [i \in 1..2 |-> Tokens(e[i])]
  <2>1. e[1] = format_value(Integer(id)) /\ e[2] = format_value(v)
    BY DEF Written
  <2>2. format_value(Integer(id)) = Whole(id)
    <3>1. Integer(id).type = "Integer" /\ Num(Integer(id)) = id
      BY ValuesAre
    <3> QED
      BY <3>1 DEF format_value
  <2>3. Tokens(e[1]) = a /\ Tokens(e[2]) = b
    BY <1>1, <2>1, <2>2, KeyTokenIs
  <2> HIDE DEF a, b
  <2>4. ASSUME NEW i \in 1..2 PROVE (IF i = 1 THEN a ELSE b) = Tokens(e[i])
    <3>1. i = 1 \/ i = 2
      OBVIOUS
    <3> QED
      BY <2>3, <3>1
  <2> QED
    BY <2>4
<1>5. t = (<<l>> \o FlattenSeq(f)) \o <<r>>
  BY <1>4 DEF RowText
<1> HIDE DEF b, l, r, m, t
<1>6. <<l>> \in Seq(Plain) /\ <<r>> \in Seq(Plain) /\ a \in Seq(Plain)
  BY <1>3
<1>7. <<l>> \in Seq(Textual) /\ <<r>> \in Seq(Textual) /\ a \in Seq(Textual) /\ Clean(<<l>>) /\ Clean(<<r>>) /\ Clean(a)
  BY <1>6, TextualIsToken, CleanPlain
<1>8. FlattenSeq(f) = Join(a, b)
  <2> HIDE DEF a
  <2>1. f = [i \in 1..2 |-> f[i]] /\ f[1] = a /\ f[2] = b
    OBVIOUS
  <2> HIDE DEF f
  <2> QED
    BY <1>2, <1>7, <2>1, FlattenTwo
<1>9. t = Join(Join(<<l>>, Join(a, b)), <<r>>)
  BY <1>5, <1>8 DEF Join
<1>10. Survives(v) => Clean(t)
  <2> HIDE DEF a
  <2> QED
    BY <1>2, <1>7, <1>9, CleanJoin
<1>11. t \in Seq(Textual) /\ Len(t) >= 3 /\ t[1] = l /\ t[2] = m /\ t[Len(t)] = r
  <2> DEFINE p == Join(a, b)  q == Join(<<l>>, p)
  <2>1. Len(a) = 1 /\ a[1] = m /\ Len(<<l>>) = 1 /\ <<l>>[1] = l /\ Len(<<r>>) = 1 /\ <<r>>[1] = r
    OBVIOUS
  <2> DEFINE x == <<l>>  y == <<r>>
  <2>2. x \in Seq(Textual) /\ y \in Seq(Textual) /\ Len(x) = 1 /\ x[1] = l /\ Len(y) = 1 /\ y[1] = r /\ t = Join(q, y) /\ q = Join(x, p)
    BY <1>7, <1>9
  <2> HIDE DEF a, x, y, p, q
  <2>3. p \in Seq(Textual) /\ Len(p) = 1 + Len(b) /\ Len(b) \in Nat /\ p[1] = m
    <3>1. a \in Seq(Textual) /\ b \in Seq(Textual) /\ 1 \in 1..Len(a) /\ p = Join(a, b)
      BY <1>2, <1>7, <2>1 DEF p
    <3>2. p \in Seq(Textual) /\ Len(p) = Len(a) + Len(b) /\ Len(b) \in Nat
      BY <3>1, JoinLen
    <3>3. p[1] = a[1]
      BY <3>1, JoinLeft
    <3> QED
      BY <2>1, <3>2, <3>3
  <2>4. q \in Seq(Textual) /\ Len(q) = 1 + Len(p) /\ q[1] = l /\ q[2] = m
    <3>1. 1 \in 1..Len(x) /\ 1 \in 1..Len(p) /\ 2 = Len(x) + 1
      BY <2>2, <2>3
    <3>0. x \in Seq(Textual) /\ p \in Seq(Textual) /\ q = Join(x, p)
      BY <2>2, <2>3
    <3>2. q \in Seq(Textual) /\ Len(q) = Len(x) + Len(p)
      BY ONLY <3>0, JoinLen
    <3>3. q[1] = x[1]
      BY ONLY <3>0, <3>1, JoinLeft
    <3>4. q[2] = p[1]
      BY ONLY <3>0, <3>1, JoinRight
    <3> QED
      BY <2>2, <2>3, <3>2, <3>3, <3>4
  <2>5. /\ t \in Seq(Textual) /\ Len(t) = Len(q) + 1 /\ Len(q) >= 2
        /\ t[1] = l /\ t[2] = m /\ t[Len(t)] = r
    <3>1. Len(q) \in Nat /\ Len(q) >= 2 /\ 1 \in 1..Len(q) /\ 2 \in 1..Len(q) /\ 1 \in 1..Len(y)
      BY <2>2, <2>3, <2>4
    <3>2. t \in Seq(Textual) /\ Len(t) = Len(q) + Len(y)
      BY <2>2, <2>4, JoinLen
    <3>3. t[1] = q[1] /\ t[2] = q[2]
      BY <2>2, <2>4, <3>1, JoinLeft
    <3>4. Len(t) = Len(q) + 1
      BY <2>2, <3>2
    <3>0. q \in Seq(Textual) /\ y \in Seq(Textual) /\ t = Join(q, y)
      BY <2>2, <2>4
    <3>5. t[Len(t)] = y[1]
      BY ONLY <3>0, <3>1, <3>4, JoinRight
    <3> QED
      BY <2>2, <2>4, <3>1, <3>2, <3>3, <3>4, <3>5
  <2> QED
    BY <2>3, <2>4, <2>5
<1> QED
  BY <1>10, <1>11 DEF l, r, m, t

(* A text that begins with two tokens and ends with one, and so does it    *)
(* with more of its kind after it.                                         *)
Framed(t, x, y) == t \in Seq(Textual) /\ Len(t) >= 3 /\ t[1] = x[1] /\ t[2] = x[2] /\ t[Len(t)] = y

(* Framed texts, joined, are framed.                                       *)
LEMMA FramesJoin ==
  ASSUME NEW a, NEW b, NEW x, NEW z, NEW y, Framed(a, x, y), Framed(b, z, y)
  PROVE  Framed(Join(a, b), x, y)
<1> DEFINE c == Join(a, b)
<1>1. a \in Seq(Textual) /\ b \in Seq(Textual) /\ c = Join(a, b)
  BY DEF Framed
<1> HIDE DEF c
<1>2. Len(a) >= 3 /\ Len(b) >= 3 /\ b[Len(b)] = y /\ a[1] = x[1] /\ a[2] = x[2] /\ Len(a) \in Nat /\ Len(b) \in Nat
  BY DEF Framed
<1>3. c \in Seq(Textual) /\ Len(c) = Len(a) + Len(b)
  BY ONLY <1>1, JoinLen
<1>4. 1 \in 1..Len(a) /\ 2 \in 1..Len(a) /\ Len(b) \in 1..Len(b)
  BY <1>2
<1>5. c[1] = a[1] /\ c[2] = a[2]
  BY ONLY <1>1, <1>4, JoinLeft
<1>6. c[Len(c)] = b[Len(b)]
  BY ONLY <1>1, <1>3, <1>4, JoinRight
<1> QED
  BY <1>2, <1>3, <1>5, <1>6 DEF Framed, c

(* An INSERT of rows of a table.                                           *)
IsInsert(st, rs) ==
  /\ st.is = "insert" /\ st.comment = <<>>
  /\ \E m \in Nat \ {0} : DOMAIN st.rows = 1..m /\ Len(st.rows) = m
  /\ \A k \in DOMAIN st.rows : \E r \in rs : st.rows[k] = Written(r)

(* The text of an INSERT shows the key of its first row.                   *)
LEMMA InsertText ==
  ASSUME coltype \in Types, NEW rs, TableRows(rs), NEW st, IsInsert(st, rs)
  PROVE  LET t == SqlOf(st) IN
         /\ t \in Seq(Textual) /\ Len(t) >= 4 /\ t[1] = Word("INSERT") /\ t[Len(t)] = Word(")")
         /\ \A id \in Ids, v \in Cells : st.rows[1] = Written(<<Integer(id), v>>) => t[3] = KeyToken(id)
         /\ (\A r \in rs : Survives(r[2])) => Clean(t)
<1>1. PICK m \in Nat \ {0} : DOMAIN st.rows = 1..m
  BY DEF IsInsert
<1> DEFINE f == [k \in 1..m |-> RowText(st.rows[k])]  G(k) == FlattenSeq(SubSeq(f, 1, k))  w == Word("INSERT")
           x == f[1]  y == Word(")")
<1>2. ASSUME NEW k \in 1..m
      PROVE  /\ f[k] \in Seq(Textual) /\ Framed(f[k], f[k], y)
             /\ \A id \in Ids, v \in Cells : st.rows[k] = Written(<<Integer(id), v>>) => f[k][2] = KeyToken(id)
             /\ (\A r \in rs : Survives(r[2])) => Clean(f[k])
  <2>1. PICK r \in rs : st.rows[k] = Written(r)
    BY <1>1 DEF IsInsert
  <2>2. PICK id \in Ids, v \in Cells : r = <<Integer(id), v>>
    BY DEF TableRows
  <2> DEFINE t == f[k]
  <2>3. t = RowText(st.rows[k]) /\ r[2] = v
    BY <2>2
  <2> HIDE DEF f
  <2>4. /\ t \in Seq(Textual) /\ Len(t) >= 3 /\ t[Len(t)] = y
        /\ Survives(v) => Clean(t)
    BY <2>1, <2>2, <2>3, RowTextIs
  <2>5. \A i \in Ids, u \in Cells : st.rows[k] = Written(<<Integer(i), u>>) => t[2] = KeyToken(i)
    BY <2>3, RowTextIs
  <2> QED
    BY <2>3, <2>4, <2>5 DEF Framed
<1>3. f \in Seq(Seq(Textual)) /\ Len(f) = m
  <2> DEFINE Z == Seq(Textual)
  <2>1. (\A k \in 1..m : f[k] \in Z) /\ f = [k \in 1..m |-> f[k]]
    BY <1>2
  <2> HIDE DEF f, Z
  <2>2. f \in Seq(Z) /\ Len(f) = m
    BY ONLY <2>1, m \in Nat \ {0}
  <2> QED
    BY <2>2 DEF Z
<1>4. SqlOf(st) = Join(<<w>>, FlattenSeq(f))
  <2>1. st.is # "create"
    BY DEF IsInsert
  <2>2. f = [k \in DOMAIN st.rows |-> <<Word("(")>> \o FlattenSeq([i \in 1..2 |-> Tokens(st.rows[k][i])]) \o <<Word(")")>>]
    BY <1>1, Zenon DEF RowText
  <2> QED
    BY <2>1, <2>2, Zenon DEF SqlOf, Join
<1> HIDE DEF f
<1>5. /\ G(0) = <<>> /\ G(m) = FlattenSeq(f) /\ FlattenSeq(f) \in Seq(Textual)
      /\ \A k \in 0..m - 1 : G(k + 1) = Join(G(k), f[k + 1])
  BY <1>3, FlattenGrows
<1> HIDE DEF G, x, y
<1>6. Framed(G(m), x, y)
  <2> DEFINE P == {k \in Nat : k + 1 <= m => Framed(G(k + 1), x, y)}
  <2>1. 0 \in P
    <3>1. G(0 + 1) = Join(G(0), f[0 + 1]) /\ 1 \in 1..m
      BY <1>5
    <3>2. f[1] \in Seq(Textual) /\ Framed(f[1], f[1], y)
      BY <1>2, <3>1
    <3>3. Join(<<>>, f[1]) = f[1]
      BY <3>2, JoinEmpty
    <3> QED
      BY <1>5, <3>1, <3>2, <3>3 DEF x
  <2>2. ASSUME NEW k \in P PROVE k + 1 \in P
    <3> DEFINE j == k + 1
    <3> SUFFICES ASSUME j + 1 <= m PROVE Framed(G(j + 1), x, y)
      OBVIOUS
    <3>1. j \in 0..m - 1 /\ j + 1 \in 1..m /\ Framed(G(j), x, y)
      OBVIOUS
    <3> HIDE DEF j
    <3>2. G(j + 1) = Join(G(j), f[j + 1]) /\ Framed(f[j + 1], f[j + 1], y)
      BY <1>2, <1>5, <3>1
    <3> QED
      BY <3>1, <3>2, FramesJoin
  <2>3. P = Nat
    <3> HIDE DEF P
    <3> QED
      BY <2>1, <2>2, Induction DEF P
  <2>4. m - 1 \in P /\ (m - 1) + 1 = m
    <3> HIDE DEF P
    <3> QED
      BY <2>3
  <2> QED
    BY <2>4
<1> DEFINE g == FlattenSeq(f)  h == <<w>>  t == SqlOf(st)
<1>7. w \in Plain /\ h \in Seq(Plain) /\ h \in Seq(Textual) /\ Clean(h) /\ Len(h) = 1 /\ h[1] = w
  <2>1. w \in Plain
    BY TokensAre DEF WordsUsed
  <2>2. h \in Seq(Plain) /\ Len(h) = 1 /\ h[1] = w
    BY <2>1
  <2> HIDE DEF h
  <2> QED
    BY <2>1, <2>2, TextualIsToken, CleanPlain
<1>8. t = Join(h, g) /\ Framed(g, x, y)
  BY <1>4, <1>5, <1>6
<1> HIDE DEF h, g, t, w
<1>9. t \in Seq(Textual) /\ Len(t) >= 4 /\ t[1] = w /\ t[3] = x[2] /\ t[Len(t)] = y
  <2>1. g \in Seq(Textual) /\ Len(g) >= 3 /\ g[2] = x[2] /\ g[Len(g)] = y /\ Len(g) \in Nat
    BY <1>8 DEF Framed
  <2>2. h \in Seq(Textual) /\ g \in Seq(Textual) /\ t = Join(h, g)
    BY <1>7, <1>8, <2>1
  <2>3. 1 \in 1..Len(h) /\ 2 \in 1..Len(g) /\ 3 = Len(h) + 2 /\ Len(g) \in 1..Len(g)
    BY <1>7, <2>1
  <2>4. t \in Seq(Textual) /\ Len(t) = Len(h) + Len(g)
    BY ONLY <2>2, JoinLen
  <2>5. t[1] = h[1]
    BY ONLY <2>2, <2>3, JoinLeft
  <2>6. t[3] = g[2]
    BY ONLY <2>2, <2>3, JoinRight
  <2>7. t[Len(t)] = g[Len(g)]
    <3> DEFINE n == Len(t)  k == Len(g)
    <3>1. k \in 1..Len(g) /\ n = Len(h) + k
      BY <2>3, <2>4
    <3> HIDE DEF n, k
    <3>2. t[n] = g[k]
      BY ONLY <2>2, <3>1, JoinRight
    <3> QED
      BY <3>2 DEF n, k
  <2> QED
    BY <1>7, <2>1, <2>4, <2>5, <2>6, <2>7
<1>10. ASSUME \A r \in rs : Survives(r[2]) PROVE Clean(t)
  <2>1. \A i \in 1..Len(f) : Clean(f[i])
    BY <1>2, <1>3, <1>10
  <2>2. Clean(g)
    BY <1>3, <2>1, CleanFlatten DEF g
  <2> QED
    BY <1>7, <1>8, <2>2, CleanJoin
<1>11. \A id \in Ids, v \in Cells : st.rows[1] = Written(<<Integer(id), v>>) => x[2] = KeyToken(id)
  <2>1. 1 \in 1..m
    OBVIOUS
  <2> QED
    BY <1>2, <2>1 DEF x
<1> QED
  BY <1>9, <1>10, <1>11 DEF t, w, y

(* The text of the CREATE TABLE, which shows its comment.                  *)
LEMMA CreateText ==
  ASSUME NEW c \in Seq(Int)
  PROVE  LET t == SqlOf(Create(c)) IN
         /\ t \in Seq(Textual) /\ Len(t) >= 1 /\ t[1] = Word("/*") /\ t[Len(t)] = Word("CREATE TABLE")
         /\ {Quote, Semicolon} \cap ToSet(c) = {} => Clean(t)
<1> DEFINE a == Word("/*")  d == Word("*/")  e == Word("CREATE TABLE")  h == <<a>>  l == <<d, e>>  s == Chars(c)
           t == SqlOf(Create(c))  p == Join(h, s)
<1>1. t = Join(p, l)
  <2>1. Create(c).is = "create" /\ Create(c).comment = c
    BY DEF Create
  <2> DEFINE st == Create(c)
  <2> HIDE DEF st
  <2>2. SqlOf(st) = (<<Word("/*")>> \o Chars(st.comment)) \o <<Word("*/"), Word("CREATE TABLE")>>
    BY <2>1 DEF SqlOf, st
  <2> QED
    BY <2>1, <2>2 DEF Join, st
<1>2. a \in Plain /\ d \in Plain /\ e \in Plain
  BY TokensAre DEF WordsUsed
<1> HIDE DEF a, d, e, t
<1>3. h \in Seq(Plain) /\ l \in Seq(Plain) /\ Len(h) = 1 /\ h[1] = a /\ Len(l) = 2 /\ l[2] = e
  BY <1>2
<1> HIDE DEF h, l
<1>4. h \in Seq(Textual) /\ l \in Seq(Textual) /\ Clean(h) /\ Clean(l) /\ s \in Seq(Textual)
  BY <1>3, TextualIsToken, CleanPlain, CharsAre
<1>5. ASSUME {Quote, Semicolon} \cap ToSet(c) = {} PROVE Clean(t)
  <2>1. Len(s) = Len(c) /\ \A i \in 1..Len(c) : s[i] = Char(c[i])
    BY CharsAre
  <2>2. ASSUME NEW i \in 1..Len(c) PROVE s[i] \in Plain
    <3>1. c[i] \in Int /\ c[i] \in ToSet(c)
      BY DEF ToSet
    <3>2. c[i] \in Int \ {Quote, Semicolon}
      BY <1>5, <3>1
    <3>3. Char(c[i]) \in Plain
      BY <3>2, TokensAre
    <3> QED
      BY <2>1, <3>3
  <2>3. s \in Seq(Plain)
    <3> HIDE DEF s
    <3> QED
      BY <1>4, <2>1, <2>2
  <2>4. Clean(s)
    BY <2>3, CleanPlain
  <2> QED
    BY <1>1, <1>4, <2>4, CleanJoin
<1>6. t \in Seq(Textual) /\ Len(t) >= 1 /\ t[1] = a /\ t[Len(t)] = e
  <2> HIDE DEF p, s
  <2>1. h \in Seq(Textual) /\ s \in Seq(Textual) /\ p = Join(h, s) /\ 1 \in 1..Len(h)
    BY <1>3, <1>4 DEF p
  <2>2. p \in Seq(Textual) /\ Len(p) = Len(h) + Len(s) /\ Len(s) \in Nat
    BY ONLY <2>1, JoinLen
  <2>3. p[1] = h[1]
    BY ONLY <2>1, JoinLeft
  <2>4. p \in Seq(Textual) /\ l \in Seq(Textual) /\ t = Join(p, l) /\ 1 \in 1..Len(p) /\ 2 \in 1..Len(l)
    BY <1>1, <1>3, <1>4, <2>2
  <2>5. t \in Seq(Textual) /\ Len(t) = Len(p) + Len(l) /\ Len(p) \in Nat
    BY ONLY <2>4, JoinLen
  <2>6. t[1] = p[1]
    BY ONLY <2>4, JoinLeft
  <2>7. Len(t) = Len(p) + 2
    BY <1>3, <2>5
  <2>8. t[Len(t)] = l[2]
    BY ONLY <2>4, <2>7, JoinRight
  <2> QED
    BY <1>3, <2>3, <2>5, <2>6, <2>7, <2>8
<1> QED
  BY <1>5, <1>6 DEF t, a, e

-----------------------------------------------------------------------------
(* What a dump holds.                                                      *)

(* N batches of B items take L items.                                      *)
Batches(L, B, N) ==
  /\ N \in Nat /\ N >= 1
  /\ \A n \in 1..N : (n - 1) * B \in Nat /\ (n - 1) * B < L
  /\ \A p \in 1..L : \E n \in 1..N : \E k \in 1..B : p = (n - 1) * B + k
  /\ \A m, n \in 1..N : (m - 1) * B = (n - 1) * B => m = n

(* The batches of generate_insert_data_from_rows.                          *)
LEMMA BatchesCover ==
  ASSUME NEW L \in Nat, NEW B \in Nat, L >= 1, B >= 1, NEW N, N = (L + B - 1) \div B
  PROVE  Batches(L, B, N)
<1>1. N \in Nat /\ N >= 1 /\ N * B <= L + B - 1 /\ L + B - 1 < N * B + B
  OBVIOUS
<1>2. ASSUME NEW n \in 1..N PROVE (n - 1) * B \in Nat /\ (n - 1) * B < L
  BY <1>1
<1>3. ASSUME NEW p \in 1..L PROVE \E n \in 1..N : \E k \in 1..B : p = (n - 1) * B + k
  <2> DEFINE n == (p - 1) \div B + 1  k == p - (n - 1) * B
  <2>1. n \in Nat /\ n >= 1 /\ k \in 1..B /\ p = (n - 1) * B + k
    OBVIOUS
  <2> HIDE DEF n, k
  <2>2. n <= N
    <3> SUFFICES ASSUME n > N PROVE FALSE
      BY <1>1, <2>1
    <3>1. (n - 1) * B >= L
      BY <1>1, <2>1
    <3>2. (n - 1) * B \in Int
      BY <2>1
    <3> QED
      BY <2>1, <3>1, <3>2
  <2>3. n \in 1..N
    BY <1>1, <2>1, <2>2
  <2> QED
    BY ONLY <2>1, <2>3, Zenon
<1>4. ASSUME NEW m \in 1..N, NEW n \in 1..N, (m - 1) * B = (n - 1) * B PROVE m = n
  BY <1>1, <1>4
<1> QED
  BY <1>1, <1>2, <1>3, <1>4 DEF Batches

(* What is written of a row tells its key.                                 *)
LEMMA WrittenKey ==
  ASSUME NEW a \in Ids, NEW b \in Ids, NEW v, NEW w, Written(<<Integer(a), v>>) = Written(<<Integer(b), w>>)
  PROVE  a = b
<1>1. Written(<<Integer(a), v>>)[1] = format_value(Integer(a)) /\ Written(<<Integer(b), w>>)[1] = format_value(Integer(b))
  BY DEF Written
<1>2. a \in Int /\ b \in Int
  BY IdsAssumption, MaxIntAssumption
<1>3. format_value(Integer(a)) = Whole(a) /\ format_value(Integer(b)) = Whole(b)
  <2>1. \A n : Integer(n).type = "Integer" /\ Num(Integer(n)) = n
    BY ValuesAre
  <2> QED
    BY <2>1 DEF format_value
<1>4. Tokens(Whole(a)) = <<KeyToken(a)>> /\ Tokens(Whole(b)) = <<KeyToken(b)>>
  BY <1>2, KeyTokenIs
<1>5. KeyToken(a) = KeyToken(b)
  <2> HIDE DEF KeyToken
  <2>1. <<KeyToken(a)>> = <<KeyToken(b)>>
    BY <1>1, <1>3, <1>4
  <2> QED
    BY <2>1
<1> QED
  BY <1>2, <1>5, KeyTokenIs

(* What a dump holds: the table, then every row in one of its inserts,     *)
(* which all begin with different rows.                                    *)
Dumped(sts, c, rs) ==
  /\ Len(sts) \in Nat \ {0} /\ sts \in Seq({sts[n] : n \in 1..Len(sts)})
  /\ sts[1] = Create(c)
  /\ \A n \in 2..Len(sts) : IsInsert(sts[n], rs)
  /\ \A r \in rs : \E n \in 2..Len(sts) : \E k \in DOMAIN sts[n].rows : sts[n].rows[k] = Written(r)
  /\ \A m, n \in 2..Len(sts) : \A r, t \in rs :
       sts[m].rows[1] = Written(r) /\ sts[n].rows[1] = Written(t) /\ r[1] = t[1] => m = n

(* What generate_insert_data_from_rows makes.                              *)
LEMMA InsertsAre ==
  ASSUME Typed, rows # {}
  PROVE  LET ins == InsertsOf(scan_table) IN
         /\ ins \in Seq({ins[n] : n \in 1..Len(ins)}) /\ Len(ins) \in Nat
         /\ \A n \in 1..Len(ins) : IsInsert(ins[n], rows)
         /\ \A r \in rows : \E n \in 1..Len(ins) : \E k \in DOMAIN ins[n].rows : ins[n].rows[k] = Written(r)
         /\ \A m, n \in 1..Len(ins) : \A r, t \in rows :
              ins[m].rows[1] = Written(r) /\ ins[n].rows[1] = Written(t) /\ r[1] = t[1] => m = n
<1> DEFINE rs == scan_table  L == Len(rs)  B == Batch  N == (L + B - 1) \div B
           lines(n) == [k \in 1..Smallest(B, L - (n - 1) * B) |-> [i \in 1..2 |-> format_value(rs[(n - 1) * B + k][i])]]
           ins == [n \in 1..N |-> [is |-> "insert", comment |-> <<>>, rows |-> lines(n)]]
<1>1. rs \in Seq(rows) /\ {rs[n] : n \in 1..L} = rows /\ L \in Nat /\ \A m, n \in 1..L : rs[m] = rs[n] => m = n
  <2>1. Rowed(scan_table) /\ {scan_table[n] : n \in 1..Len(scan_table)} = rows
    BY ONLY Typed, EngineFinds
  <2> HIDE DEF ins, lines, N, B
  <2>2. rs \in Seq(rows) /\ \A m, n \in 1..L : rs[m] = rs[n] => m = n
    BY ONLY <2>1 DEF Rowed
  <2>3. L \in Nat
    BY ONLY <2>2
  <2> QED
    BY <2>1, <2>2, <2>3
<1>2. L >= 1 /\ rs # <<>>
  BY <1>1
<1>3. B \in Nat /\ B >= 1
  <2>1. IsFiniteSet(rows)
    BY DEF Typed, TableRows
  <2>2. Cardinality(rows) \in Nat /\ Cardinality(rows) # 0
    BY <2>1, FS_CardinalityType, FS_EmptySet
  <2> QED
    BY <2>2, BatchSizeAssumption DEF Batch
<1>4. InsertsOf(rs) = ins
  BY <1>2, Zenon DEF InsertsOf
<1> HIDE DEF rs, L, B
<1>5. /\ N \in Nat /\ N >= 1
      /\ \A n \in 1..N : (n - 1) * B \in Nat /\ (n - 1) * B < L
      /\ \A p \in 1..L : \E n \in 1..N : \E k \in 1..B : p = (n - 1) * B + k
      /\ \A m, n \in 1..N : (m - 1) * B = (n - 1) * B => m = n
  <2>1. N = (L + B - 1) \div B
    OBVIOUS
  <2> HIDE DEF N
  <2>2. Batches(L, B, N)
    BY <1>1, <1>2, <1>3, <2>1, BatchesCover
  <2> QED
    BY <2>2 DEF Batches
<1> DEFINE size(n) == Smallest(B, L - (n - 1) * B)
<1>6. ASSUME NEW n \in 1..N
      PROVE  /\ size(n) \in Nat \ {0} /\ \A k \in 1..size(n) : (n - 1) * B + k \in 1..L
             /\ \A k \in 1..B : (n - 1) * B + k <= L => k \in 1..size(n)
  <2> DEFINE b == (n - 1) * B
  <2>1. b \in Nat /\ b < L
    BY <1>5
  <2> HIDE DEF b
  <2>2. size(n) = IF B < L - b THEN B ELSE L - b
    BY DEF Smallest, b
  <2> HIDE DEF size
  <2>3. /\ size(n) \in Nat \ {0} /\ \A k \in 1..size(n) : b + k \in 1..L
        /\ \A k \in 1..B : b + k <= L => k \in 1..size(n)
    BY <1>1, <1>3, <2>1, <2>2
  <2> QED
    BY <2>3 DEF b
<1>7. ASSUME NEW n \in 1..N
      PROVE  /\ ins[n].is = "insert" /\ ins[n].comment = <<>> /\ ins[n].rows = lines(n) /\ DOMAIN ins[n].rows = 1..size(n) /\ Len(ins[n].rows) = size(n)
             /\ \A k \in 1..size(n) : ins[n].rows[k] = Written(rs[(n - 1) * B + k])
  <2> DEFINE ls == lines(n)  w(k) == [i \in 1..2 |-> format_value(rs[(n - 1) * B + k][i])]
  <2>1. ins[n].is = "insert" /\ ins[n].comment = <<>> /\ ins[n].rows = ls
    <3> HIDE DEF N, ls
    <3>1. ins = [j \in 1..N |-> [is |-> "insert", comment |-> <<>>, rows |-> lines(j)]]
      OBVIOUS
    <3> HIDE DEF ins, lines
    <3>2. ins[n] = [is |-> "insert", comment |-> <<>>, rows |-> lines(n)]
      BY <3>1
    <3> QED
      BY <3>2 DEF ls
  <2>2. ls = [k \in 1..size(n) |-> w(k)]
    OBVIOUS
  <2>3. \A k : w(k) = Written(rs[(n - 1) * B + k])
    BY Zenon DEF Written
  <2>4. size(n) \in Nat
    BY <1>6
  <2> HIDE DEF ls, w, ins, size
  <2>5. DOMAIN ls = 1..size(n) /\ Len(ls) = size(n) /\ \A k \in 1..size(n) : ls[k] = w(k)
    BY <2>2, <2>4
  <2> QED
    BY <2>1, <2>3, <2>5 DEF ls
<1>8. ins \in Seq({ins[n] : n \in 1..Len(ins)}) /\ Len(ins) = N
  <2>0. N \in Nat
    BY <1>5
  <2>1. ins = [n \in 1..N |-> ins[n]]
    OBVIOUS
  <2> HIDE DEF ins, N
  <2>2. Len(ins) = N
    BY <2>0, <2>1
  <2>3. \A n \in 1..N : ins[n] \in {ins[j] : j \in 1..N}
    OBVIOUS
  <2> DEFINE Z == {ins[j] : j \in 1..N}
  <2> HIDE DEF Z
  <2>4. ins \in Seq(Z)
    BY <2>0, <2>1, <2>3 DEF Z
  <2> QED
    BY <2>2, <2>4 DEF Z
<1> HIDE DEF ins, lines, N, size
<1>9. ASSUME NEW n \in 1..N PROVE IsInsert(ins[n], rows)
  <2>1. /\ ins[n].is = "insert" /\ ins[n].comment = <<>> /\ DOMAIN ins[n].rows = 1..size(n) /\ Len(ins[n].rows) = size(n) /\ size(n) \in Nat \ {0}
    BY <1>6, <1>7
  <2>2. ASSUME NEW k \in 1..size(n) PROVE \E r \in rows : ins[n].rows[k] = Written(r)
    <3>1. (n - 1) * B + k \in 1..L
      BY <1>6
    <3>2. rs[(n - 1) * B + k] \in rows
      BY <1>1, <3>1
    <3> QED
      BY <1>7, <3>2
  <2> QED
    BY <2>1, <2>2 DEF IsInsert
<1>10. ASSUME NEW r \in rows PROVE \E n \in 1..N : \E k \in DOMAIN ins[n].rows : ins[n].rows[k] = Written(r)
  <2>1. PICK p \in 1..L : r = rs[p]
    BY <1>1
  <2>2. PICK n \in 1..N : \E k \in 1..B : p = (n - 1) * B + k
    BY <1>5
  <2>3. PICK k \in 1..B : p = (n - 1) * B + k
    BY <2>2
  <2>4. k \in 1..size(n)
    <3>1. (n - 1) * B + k <= L
      BY <1>1, <2>1, <2>3
    <3> QED
      BY <1>6, <3>1
  <2> QED
    BY <1>7, <2>1, <2>3, <2>4
<1>11. ASSUME NEW m \in 1..N, NEW n \in 1..N, NEW r \in rows, NEW t \in rows,
              ins[m].rows[1] = Written(r), ins[n].rows[1] = Written(t), r[1] = t[1]
       PROVE  m = n
  <2> DEFINE p == (m - 1) * B + 1  q == (n - 1) * B + 1
  <2>1. 1 \in 1..size(m) /\ 1 \in 1..size(n)
    BY <1>6
  <2>2. p \in 1..L /\ q \in 1..L /\ Written(rs[p]) = Written(r) /\ Written(rs[q]) = Written(t)
    BY <1>6, <1>7, <1>11, <2>1
  <2>3. \A x, y \in rows : Written(x) = Written(y) => x = y
    <3> SUFFICES ASSUME NEW x \in rows, NEW y \in rows, Written(x) = Written(y) PROVE x = y
      OBVIOUS
    <3>1. PICK a \in Ids, v \in Cells : x = <<Integer(a), v>>
      BY DEF Typed, TableRows
    <3>2. PICK b \in Ids, w \in Cells : y = <<Integer(b), w>>
      BY DEF Typed, TableRows
    <3>3. a = b
      BY <3>1, <3>2, WrittenKey
    <3>4. x[1] = y[1]
      BY <3>1, <3>2, <3>3
    <3> QED
      BY <3>4 DEF Typed, TableRows
  <2>4. rs[p] \in rows /\ rs[q] \in rows
    BY <1>1, <2>2
  <2>5. rs[p] = r /\ rs[q] = t /\ r = t
    BY <1>11, <2>2, <2>3, <2>4 DEF Typed, TableRows
  <2>6. p = q
    BY <1>1, <2>2, <2>5
  <2>7. (m - 1) * B \in Nat /\ (n - 1) * B \in Nat
    BY <1>5
  <2>8. (m - 1) * B = (n - 1) * B
    <3> DEFINE a == (m - 1) * B  b == (n - 1) * B
    <3>1. a + 1 = b + 1 /\ a \in Nat /\ b \in Nat
      BY <2>6, <2>7
    <3> HIDE DEF a, b
    <3>2. a = b
      BY <3>1
    <3> QED
      BY <3>2 DEF a, b
  <2> QED
    BY <1>5, <2>8
<1> QED
  BY <1>4, <1>5, <1>8, <1>9, <1>10, <1>11 DEF rs

(* What an export makes holds the table as it is.                          *)
LEMMA DumpIs ==
  ASSUME Typed, NEW c, NEW sts, sts = <<Create(c)>> \o InsertsOf(scan_table)
  PROVE  Dumped(sts, c, rows)
<1> DEFINE ins == InsertsOf(scan_table)  X == {Create(c)} \cup {ins[n] : n \in 1..Len(ins)}  h == <<Create(c)>>
<1>1. CASE rows = {}
  <2>1. {scan_table[n] : n \in 1..Len(scan_table)} = {} /\ Rowed(scan_table)
    BY <1>1, EngineFinds
  <2>2. scan_table = <<>>
    <3> DEFINE s == scan_table
    <3> HIDE DEF s
    <3>1. s \in Seq(rows) /\ {s[n] : n \in 1..Len(s)} = {}
      BY <2>1 DEF Rowed, s
    <3>2. Len(s) \in Nat /\ ~(Len(s) >= 1)
      <4>1. Len(s) \in Nat
        BY <3>1
      <4>2. ASSUME Len(s) >= 1 PROVE FALSE
        <5>1. 1 \in 1..Len(s)
          BY <4>1, <4>2
        <5>2. s[1] \in {s[n] : n \in 1..Len(s)}
          BY <5>1
        <5> QED
          BY <3>1, <5>2
      <4> QED
        BY <4>1, <4>2
    <3>3. s = <<>>
      BY <3>1, <3>2
    <3> QED
      BY <3>3 DEF s
  <2>3. ins = <<>>
    BY <2>2 DEF InsertsOf
  <2>4. sts = <<Create(c)>>
    <3>1. sts = <<Create(c)>> \o <<>>
      BY <2>3
    <3> DEFINE x == Create(c)
    <3> HIDE DEF x
    <3>2. <<x>> \in Seq({x}) /\ \A s \in Seq({x}) : s \o <<>> = s
      BY ConcatEmptySeq
    <3> QED
      BY <3>1, <3>2 DEF x
  <2>5. Len(sts) = 1 /\ sts[1] = Create(c)
    BY <2>4
  <2>6. sts \in Seq({sts[n] : n \in 1..Len(sts)})
    <3> DEFINE x == Create(c)
    <3> HIDE DEF x
    <3>1. {sts[n] : n \in 1..Len(sts)} = {x}
      BY <2>5 DEF x
    <3>3. sts = <<x>>
      BY <2>4 DEF x
    <3>2. sts \in Seq({x})
      <4>1. <<x>> \in Seq({x})
        OBVIOUS
      <4> QED
        BY ONLY <3>3, <4>1
    <3> QED
      BY <3>1, <3>2
  <2>7. 2..Len(sts) = {}
    BY <2>5
  <2> QED
    BY <1>1, <2>5, <2>6, <2>7 DEF Dumped
<1>2. CASE rows # {}
  <2>1. /\ ins \in Seq({ins[n] : n \in 1..Len(ins)}) /\ Len(ins) \in Nat
        /\ \A n \in 1..Len(ins) : IsInsert(ins[n], rows)
        /\ \A r \in rows : \E n \in 1..Len(ins) : \E k \in DOMAIN ins[n].rows : ins[n].rows[k] = Written(r)
        /\ \A m, n \in 1..Len(ins) : \A r, t \in rows :
             ins[m].rows[1] = Written(r) /\ ins[n].rows[1] = Written(t) /\ r[1] = t[1] => m = n
    BY <1>2, InsertsAre
  <2> HIDE DEF ins
  <2>2. ins \in Seq(X)
    <3> DEFINE Z == {ins[n] : n \in 1..Len(ins)}
    <3>1. ins \in Seq(Z) /\ Z \subseteq X
      BY <2>1
    <3> HIDE DEF Z, X
    <3> QED
      BY <3>1
  <2>3. Create(c) \in X
    OBVIOUS
  <2> HIDE DEF X
  <2> DEFINE x == Create(c)
  <2> HIDE DEF x
  <2>4. h \in Seq(X) /\ Len(h) = 1 /\ h[1] = x
    BY <2>3 DEF x
  <2> HIDE DEF h
  <2>5. sts = Join(h, ins)
    BY DEF Join, h, ins
  <2>0. h \in Seq(X) /\ ins \in Seq(X) /\ sts = Join(h, ins)
    BY <2>2, <2>4, <2>5
  <2>6. sts \in Seq(X) /\ Len(sts) = 1 + Len(ins)
    <3>1. sts \in Seq(X) /\ Len(sts) = Len(h) + Len(ins)
      BY ONLY <2>0, JoinLen
    <3> QED
      BY <2>4, <3>1
  <2>7. sts[1] = x
    <3>1. 1 \in 1..Len(h)
      BY <2>4
    <3>2. sts[1] = h[1]
      BY ONLY <2>0, <3>1, JoinLeft
    <3> QED
      BY <2>4, <3>2
  <2>8. ASSUME NEW n \in 2..Len(sts) PROVE n - 1 \in 1..Len(ins) /\ sts[n] = ins[n - 1]
    <3> DEFINE k == n - 1
    <3>1. k \in 1..Len(ins) /\ n = Len(h) + k
      BY <2>1, <2>4, <2>6
    <3> HIDE DEF k
    <3>2. sts[n] = ins[k]
      BY ONLY <2>0, <3>1, JoinRight
    <3> QED
      BY <3>1, <3>2 DEF k
  <2>9. ASSUME NEW k \in 1..Len(ins) PROVE k + 1 \in 2..Len(sts) /\ sts[k + 1] = ins[k]
    <3>1. k + 1 \in 2..Len(sts) /\ (k + 1) - 1 = k
      BY <2>1, <2>6
    <3> QED
      BY <2>8, <3>1
  <2>10. sts \in Seq({sts[n] : n \in 1..Len(sts)})
    <3>1. \A n \in 1..Len(sts) : sts[n] \in {sts[k] : k \in 1..Len(sts)}
      OBVIOUS
    <3> DEFINE Z == {sts[k] : k \in 1..Len(sts)}
    <3> HIDE DEF Z
    <3>3. \A n \in 1..Len(sts) : sts[n] \in Z
      BY <3>1 DEF Z
    <3>2. sts \in Seq(Z)
      BY ONLY <2>6, <3>3
    <3> QED
      BY <3>2 DEF Z
  <2>11. Len(sts) \in Nat \ {0}
    BY <2>1, <2>6
  <2>12. \A n \in 2..Len(sts) : IsInsert(sts[n], rows)
    BY <2>1, <2>8
  <2>13. \A r \in rows : \E n \in 2..Len(sts) : \E k \in DOMAIN sts[n].rows : sts[n].rows[k] = Written(r)
    <3> SUFFICES ASSUME NEW r \in rows PROVE \E n \in 2..Len(sts) : \E k \in DOMAIN sts[n].rows : sts[n].rows[k] = Written(r)
      OBVIOUS
    <3>1. PICK m \in 1..Len(ins) : \E k \in DOMAIN ins[m].rows : ins[m].rows[k] = Written(r)
      BY <2>1
    <3>2. m + 1 \in 2..Len(sts) /\ sts[m + 1] = ins[m]
      BY <2>9
    <3> QED
      BY <3>1, <3>2
  <2>14. ASSUME NEW m \in 2..Len(sts), NEW n \in 2..Len(sts), NEW r \in rows, NEW t \in rows,
                sts[m].rows[1] = Written(r), sts[n].rows[1] = Written(t), r[1] = t[1]
         PROVE  m = n
    <3>1. m - 1 \in 1..Len(ins) /\ n - 1 \in 1..Len(ins) /\ sts[m] = ins[m - 1] /\ sts[n] = ins[n - 1]
      BY <2>8
    <3>2. m - 1 = n - 1
      BY <2>1, <2>14, <3>1
    <3> QED
      BY <3>2
  <2>15. \A m, n \in 2..Len(sts) : \A r, t \in rows :
           sts[m].rows[1] = Written(r) /\ sts[n].rows[1] = Written(t) /\ r[1] = t[1] => m = n
    BY <2>14
  <2>16. sts[1] = Create(c)
    BY <2>7 DEF x
  <2> QED
    BY ONLY <2>10, <2>11, <2>12, <2>13, <2>15, <2>16 DEF Dumped
<1> QED
  BY <1>1, <1>2

(* Among keeps everything if all is in the set.                            *)
LEMMA AmongAll ==
  ASSUME NEW T, NEW s \in Seq(T), NEW S, \A i \in 1..Len(s) : s[i] \in S
  PROVE  Among(s, S) = s
<1> DEFINE P == {n \in Nat : n <= Len(s) => Among(SubSeq(s, 1, n), S) = SubSeq(s, 1, n)}
<1>1. /\ SubSeq(s, 1, 0) = <<>> /\ SubSeq(s, 1, Len(s)) = s
      /\ \A n \in 0..Len(s) - 1 : SubSeq(s, 1, n + 1) = Append(SubSeq(s, 1, n), s[n + 1])
      /\ \A n \in 0..Len(s) : SubSeq(s, 1, n) \in Seq(T)
  BY PrefixIs
<1>2. 0 \in P
  <2>1. <<>> \in Seq({1})
    OBVIOUS
  <2>2. Among(<<>>, S) = <<>>
    BY <2>1, AmongStep
  <2> QED
    BY <1>1, <2>2
<1>3. ASSUME NEW n \in P PROVE n + 1 \in P
  <2> SUFFICES ASSUME n + 1 <= Len(s) PROVE Among(SubSeq(s, 1, n + 1), S) = SubSeq(s, 1, n + 1)
    OBVIOUS
  <2> DEFINE u == SubSeq(s, 1, n)  x == s[n + 1]
  <2>1. n \in 0..Len(s) - 1 /\ n \in 0..Len(s) /\ n + 1 \in 1..Len(s) /\ Among(u, S) = u
    OBVIOUS
  <2>2. u \in Seq(T) /\ x \in T /\ x \in S /\ SubSeq(s, 1, n + 1) = Append(u, x)
    BY <1>1, <2>1
  <2> HIDE DEF u, x
  <2>3. Among(Append(u, x), S) = Append(u, x)
    BY <2>1, <2>2, AmongStep
  <2> QED
    BY <2>2, <2>3
<1>4. P = Nat
  <2> HIDE DEF P
  <2> QED
    BY <1>2, <1>3, Induction DEF P
<1>5. Len(s) \in P /\ Len(s) <= Len(s)
  BY <1>4
<1> QED
  BY <1>1, <1>5

(* The text of a statement has no comment lines.                           *)
LEMMA BareIs ==
  ASSUME NEW t \in Seq(Textual)
  PROVE  Bare(t) = t
<1>1. ASSUME NEW i \in 1..Len(t) PROVE t[i] \in ToSet(t) \ {Newline, DashLine}
  <2>1. t[i] \in Textual /\ t[i] \in ToSet(t)
    BY DEF ToSet
  <2>2. t[i] # Newline /\ t[i] # DashLine
    BY <2>1, TokensAre, Zenon
  <2> QED
    BY <2>1, <2>2
<1> DEFINE S == ToSet(t) \ {Newline, DashLine}
<1>2. \A i \in 1..Len(t) : t[i] \in S
  BY <1>1
<1>3. Bare(t) = Among(t, S)
  BY DEF Bare
<1> HIDE DEF S
<1> QED
  BY <1>2, <1>3, AmongAll

-----------------------------------------------------------------------------
(* What is read back.                                                      *)

(* The texts of the statements differ, and are clean if the comment and the*)
(* rows are.                                                               *)
LEMMA DumpTexts ==
  ASSUME coltype \in Types, NEW rs, TableRows(rs), NEW c \in Comments, NEW sts, Dumped(sts, c, rs)
  PROVE  /\ \A n \in 1..Len(sts) : SqlOf(sts[n]) \in Seq(Textual) /\ SqlOf(sts[n]) # <<>> /\ SqlOf(sts[n])[1] # DashLine
         /\ {Quote, Semicolon} \cap ToSet(c) = {} => Clean(SqlOf(sts[1]))
         /\ {Quote, Semicolon} \cap ToSet(c) = {} /\ (\A r \in rs : Survives(r[2])) => \A n \in 1..Len(sts) : Clean(SqlOf(sts[n]))
         /\ \A m, n \in 1..Len(sts) :
              SqlOf(sts[n]) \in {SqlOf(sts[m]), Append(SqlOf(sts[m]), Char(Semicolon))} => m = n
<1> DEFINE t(n) == SqlOf(sts[n])  semi == Char(Semicolon)  I == 2..Len(sts)
           Kinds == {Word("/*"), Word("INSERT"), Word(")"), Word("CREATE TABLE")}
<1>1. c \in Seq(Int) /\ t(1) = SqlOf(Create(c)) /\ Len(sts) \in Nat \ {0}
  BY CharactersAssumption DEF Dumped
<1>2. /\ t(1) \in Seq(Textual) /\ Len(t(1)) >= 1 /\ t(1)[1] = Word("/*") /\ t(1)[Len(t(1))] = Word("CREATE TABLE")
      /\ {Quote, Semicolon} \cap ToSet(c) = {} => Clean(t(1))
  BY <1>1, CreateText
<1>3. ASSUME NEW n \in I
      PROVE  /\ t(n) \in Seq(Textual) /\ Len(t(n)) >= 4 /\ t(n)[1] = Word("INSERT") /\ t(n)[Len(t(n))] = Word(")")
             /\ \E r \in rs : \E id \in Ids : sts[n].rows[1] = Written(r) /\ r[1] = Integer(id) /\ t(n)[3] = KeyToken(id)
             /\ (\A r \in rs : Survives(r[2])) => Clean(t(n))
  <2>1. IsInsert(sts[n], rs)
    BY DEF Dumped
  <2>2. PICK r \in rs : sts[n].rows[1] = Written(r)
    BY <2>1 DEF IsInsert
  <2>3. PICK id \in Ids, v \in Cells : r = <<Integer(id), v>>
    BY DEF TableRows
  <2> DEFINE st == sts[n]
  <2> HIDE DEF st
  <2>4. /\ SqlOf(st) \in Seq(Textual) /\ Len(SqlOf(st)) >= 4 /\ SqlOf(st)[1] = Word("INSERT") /\ SqlOf(st)[Len(SqlOf(st))] = Word(")")
        /\ \A i \in Ids, u \in Cells : st.rows[1] = Written(<<Integer(i), u>>) => SqlOf(st)[3] = KeyToken(i)
        /\ (\A x \in rs : Survives(x[2])) => Clean(SqlOf(st))
    <3>1. IsInsert(st, rs)
      BY <2>1 DEF st
    <3> QED
      BY <3>1, InsertText
  <2>5. SqlOf(st)[3] = KeyToken(id) /\ r[1] = Integer(id)
    BY <2>2, <2>3, <2>4 DEF st
  <2> QED
    BY <2>2, <2>4, <2>5 DEF st
<1> HIDE DEF t
<1>4. /\ \A k \in Kinds : k # semi /\ k # DashLine
      /\ Word("/*") # Word("INSERT")
  <2>1. \A k \in Kinds : k \in Plain
    BY TokensAre DEF WordsUsed
  <2>2. Word("/*") # Word("INSERT")
    BY DEF Word
  <2> HIDE DEF Kinds
  <2> QED
    BY <2>1, <2>2 DEF Plain, Special
<1>5. \A n \in 1..Len(sts) : t(n) \in Seq(Textual) /\ Len(t(n)) >= 1 /\ t(n) # <<>> /\ t(n)[1] # DashLine /\ t(n)[Len(t(n))] # semi
  <2> SUFFICES ASSUME NEW n \in 1..Len(sts)
               PROVE  t(n) \in Seq(Textual) /\ Len(t(n)) >= 1 /\ t(n) # <<>> /\ t(n)[1] # DashLine /\ t(n)[Len(t(n))] # semi
    OBVIOUS
  <2>1. t(n) \in Seq(Textual) /\ Len(t(n)) >= 1 /\ t(n)[1] \in Kinds /\ t(n)[Len(t(n))] \in Kinds
    <3>1. n = 1 \/ n \in I
      BY <1>1
    <3>2. CASE n = 1
      BY <1>2, <3>2
    <3>3. CASE n \in I
      <4>1. t(n) \in Seq(Textual) /\ Len(t(n)) >= 4 /\ t(n)[1] = Word("INSERT") /\ t(n)[Len(t(n))] = Word(")")
        BY <1>3, <3>3
      <4> QED
        BY <4>1
    <3> QED
      BY <3>1, <3>2, <3>3
  <2> HIDE DEF Kinds, semi
  <2>2. t(n) # <<>>
    BY <2>1
  <2> QED
    BY <1>4, <2>1, <2>2
<1> HIDE DEF Kinds
<1>6. ASSUME NEW m \in 1..Len(sts), NEW n \in 1..Len(sts), t(n) \in {t(m), Append(t(m), semi)} PROVE m = n
  <2> DEFINE a == t(m)  b == t(n)
  <2>1. a \in Seq(Textual) /\ b \in Seq(Textual) /\ b[Len(b)] # semi
    BY <1>5
  <2>2. a = b
    <3> SUFFICES ASSUME b = Append(a, semi) PROVE FALSE
      BY <1>6
    <3>1. semi \in Textual
      BY TokensAre
    <3> HIDE DEF semi, a, b
    <3>2. Append(a, semi)[Len(Append(a, semi))] = semi
      BY <2>1, <3>1
    <3> QED
      BY <2>1, <3>2
  <2>3. CASE m = 1 \/ n = 1
    <3>1. CASE m \in I
      BY <1>2, <1>3, <1>4, <2>2, <2>3, <3>1
    <3>2. CASE n \in I
      BY <1>2, <1>3, <1>4, <2>2, <2>3, <3>2
    <3> QED
      BY <1>1, <2>3, <3>1, <3>2
  <2>4. CASE m \in I /\ n \in I
    <3>1. PICK r \in rs : \E id \in Ids : sts[m].rows[1] = Written(r) /\ r[1] = Integer(id) /\ t(m)[3] = KeyToken(id)
      BY <1>3, <2>4
    <3>2. PICK id \in Ids : sts[m].rows[1] = Written(r) /\ r[1] = Integer(id) /\ t(m)[3] = KeyToken(id)
      BY <3>1
    <3>3. PICK s \in rs : \E jd \in Ids : sts[n].rows[1] = Written(s) /\ s[1] = Integer(jd) /\ t(n)[3] = KeyToken(jd)
      BY <1>3, <2>4
    <3>4. PICK jd \in Ids : sts[n].rows[1] = Written(s) /\ s[1] = Integer(jd) /\ t(n)[3] = KeyToken(jd)
      BY <3>3
    <3>5. id \in Int /\ jd \in Int
      BY IdsAssumption, MaxIntAssumption
    <3>6. id = jd
      BY <2>2, <3>2, <3>4, <3>5, KeyTokenIs
    <3>7. \A i, j \in I : \A x, y \in rs :
            sts[i].rows[1] = Written(x) /\ sts[j].rows[1] = Written(y) /\ x[1] = y[1] => i = j
      BY DEF Dumped
    <3>8. r[1] = s[1]
      BY <3>2, <3>4, <3>6
    <3> QED
      BY <2>4, <3>2, <3>4, <3>7, <3>8
  <2> QED
    BY <1>1, <2>3, <2>4
<1>7. ASSUME {Quote, Semicolon} \cap ToSet(c) = {}, \A r \in rs : Survives(r[2]), NEW n \in 1..Len(sts) PROVE Clean(t(n))
  <2>1. n = 1 \/ n \in I
    BY <1>1
  <2> QED
    BY <1>2, <1>3, <1>7, <2>1
<1> QED
  BY <1>2, <1>5, <1>6, <1>7 DEF t

(* A piece is read as the n-th statement or not at all.                    *)
ReadAs(piece, n, rs) ==
  /\ \A st \in Parses(piece) : st = statements[n]
  /\ n = 1 \/ (\A r \in rs : Survives(r[2])) => statements[n] \in Parses(piece)

(* A piece that is the text of a statement is read as that statement.      *)
LEMMA ParsesIs ==
  ASSUME coltype \in Types, NEW rs, TableRows(rs), NEW c \in Comments, Dumped(statements, c, rs),
         NEW n \in 1..Len(statements), NEW piece, piece = SqlOf(statements[n])
  PROVE  ReadAs(piece, n, rs)
<1> DEFINE sts == statements  semi == Char(Semicolon)  S == ToSet(statements)
<1>1. Len(sts) \in Nat /\ S = {sts[i] : i \in 1..Len(sts)}
  <2>1. Len(sts) \in Nat /\ DOMAIN sts = 1..Len(sts)
    BY DEF Dumped
  <2> QED
    BY <2>1 DEF ToSet
<1>2. /\ piece \in Seq(Textual) /\ piece[1] # DashLine
      /\ \A m \in 1..Len(sts) : SqlOf(sts[n]) \in {SqlOf(sts[m]), Append(SqlOf(sts[m]), semi)} => m = n
  BY DumpTexts
<1>3. Bare(piece) = piece
  BY <1>2, BareIs
<1>4. ASSUME NEW st \in Parses(piece) PROVE st = sts[n]
  <2>1. st \in S /\ Bare(piece) \in {SqlOf(st), Append(SqlOf(st), semi)}
    BY DEF Parses
  <2>2. PICK m \in 1..Len(sts) : st = sts[m]
    BY <1>1, <2>1
  <2>3. SqlOf(sts[n]) \in {SqlOf(sts[m]), Append(SqlOf(sts[m]), semi)}
    BY <1>3, <2>1, <2>2
  <2>4. m = n
    BY <1>2, <2>3
  <2> QED
    BY <2>2, <2>4
<1>5. ASSUME n = 1 \/ (\A r \in rs : Survives(r[2])) PROVE sts[n] \in Parses(piece)
  <2> DEFINE st == sts[n]
  <2>1. st \in S /\ Bare(piece) = SqlOf(st)
    BY <1>1, <1>3
  <2>2. ASSUME NEW k \in DOMAIN st.rows, NEW i \in 1..2 PROVE expr_to_value(st.rows[k][i]) # ParseError
    <3>1. CASE n = 1
      <4>1. st = Create(c)
        BY <3>1 DEF Dumped
      <4>2. st.rows = <<>>
        BY <4>1 DEF Create
      <4>3. DOMAIN <<>> = {}
        OBVIOUS
      <4> QED
        BY <2>2, <4>2, <4>3
    <3>2. CASE n # 1
      <4>1. IsInsert(st, rs)
        BY <3>2, <1>1 DEF Dumped
      <4>2. PICK r \in rs : st.rows[k] = Written(r)
        BY <2>2, <4>1 DEF IsInsert
      <4>3. PICK id \in Ids, v \in Cells : r = <<Integer(id), v>>
        BY DEF TableRows
      <4>4. r[2] = v
        BY <4>3
      <4>5. expr_to_value(Written(r)[1]) # ParseError /\ (expr_to_value(Written(r)[2]) = ParseError => ~Survives(v))
        BY <4>3, RowsReturn
      <4>6. expr_to_value(Written(r)[1]) # ParseError /\ expr_to_value(Written(r)[2]) # ParseError
        BY <1>5, <3>2, <4>4, <4>5
      <4>7. i = 1 \/ i = 2
        OBVIOUS
      <4> HIDE DEF st
      <4> QED
        BY <4>2, <4>6, <4>7
    <3> QED
      BY <3>1, <3>2
  <2> HIDE DEF st, S
  <2>3. st \in S /\ piece[1] # DashLine /\ Bare(piece) \in {SqlOf(st), Append(SqlOf(st), semi)}
    BY <1>2, <2>1
  <2>4. st \in Parses(piece)
    BY <2>2, <2>3 DEF Parses, S
  <2> QED
    BY <2>4 DEF st
<1> QED
  BY <1>4, <1>5 DEF ReadAs

(* What an INSERT inserts are rows of the export, all of its own if they   *)
(* fit.                                                                    *)
LEMMA InsertedAre ==
  ASSUME coltype \in Types, NEW rs, TableRows(rs), NEW st, IsInsert(st, rs),
         \A k \in DOMAIN st.rows : \A i \in 1..2 : expr_to_value(st.rows[k][i]) # ParseError
  PROVE  /\ Leading(st) \subseteq rs
         /\ RowsFit(st) => \A r \in rs : (\E k \in DOMAIN st.rows : st.rows[k] = Written(r)) => r \in Leading(st)
         /\ ~RowsFit(st) => coltype \in {"Boolean", "Timestamp"} /\ \E r \in rs : r[2] # Null
<1>1. ASSUME NEW k \in DOMAIN st.rows, NEW r \in rs, st.rows[k] = Written(r)
      PROVE  /\ Fits(RowOf(st.rows[k])) => RowOf(st.rows[k]) = r
             /\ ~Fits(RowOf(st.rows[k])) => coltype \in {"Boolean", "Timestamp"} /\ r[2] # Null
  <2>1. PICK id \in Ids, v \in Cells : r = <<Integer(id), v>>
    BY DEF TableRows
  <2>2. r[2] = v
    BY <2>1
  <2>3. expr_to_value(Written(r)[2]) # ParseError
    BY <1>1
  <2>4. /\ Fits(RowOf(Written(r))) => RowOf(Written(r)) = r
        /\ ~Fits(RowOf(Written(r))) => coltype \in {"Boolean", "Timestamp"} /\ v # Null
    BY <2>1, <2>3, RowsReturn
  <2> QED
    BY <1>1, <2>2, <2>4
<1>2. \A k \in DOMAIN st.rows : \E r \in rs : st.rows[k] = Written(r)
  BY DEF IsInsert
<1>3. ASSUME NEW x \in Leading(st) PROVE x \in rs
  <2>1. PICK k \in DOMAIN st.rows : x = RowOf(st.rows[k]) /\ \A i \in 1..k : Fits(RowOf(st.rows[i]))
    BY DEF Leading
  <2>2. Fits(RowOf(st.rows[k]))
    <3>1. k \in 1..k
      BY DEF IsInsert
    <3> QED
      BY <2>1, <3>1
  <2> QED
    BY <1>1, <1>2, <2>1, <2>2
<1>4. ASSUME RowsFit(st), NEW r \in rs, NEW k \in DOMAIN st.rows, st.rows[k] = Written(r) PROVE r \in Leading(st)
  <2>1. \A i \in 1..k : i \in DOMAIN st.rows
    BY DEF IsInsert
  <2>2. \A i \in 1..k : Fits(RowOf(st.rows[i]))
    BY <1>4, <2>1 DEF RowsFit
  <2>3. RowOf(st.rows[k]) \in Leading(st)
    BY <2>2 DEF Leading
  <2>4. RowOf(st.rows[k]) = r
    BY <1>1, <1>4 DEF RowsFit
  <2> QED
    BY <2>3, <2>4
<1>5. ASSUME ~RowsFit(st) PROVE coltype \in {"Boolean", "Timestamp"} /\ \E r \in rs : r[2] # Null
  BY <1>1, <1>2, <1>5 DEF RowsFit
<1> QED
  BY <1>3, <1>4, <1>5

-----------------------------------------------------------------------------
(* The invariant.                                                          *)

(* After k statements: the pieces left are the texts of the statements     *)
(* left, and the rows of the statements read are back.                     *)
Resumed(k, sts, ps, rs, ex, tb) ==
  /\ ps \in Seq(Seq(Token)) /\ Len(ps) = Len(sts) - k
  /\ \A j \in 1..Len(ps) : ps[j] = SqlOf(sts[k + j])
  /\ k >= 1 => tb
  /\ \A r \in ex : (\E n \in 2..k : \E i \in DOMAIN sts[n].rows : sts[n].rows[i] = Written(r)) => r \in rs

(* Where a load is.                                                        *)
LoadGoesOn ==
  /\ PlainComment => table \/ (pieces # <<>> /\ pieces[1] = SqlOf(statements[1]))
  /\ Restorable => \E k \in 0..Len(statements) : Resumed(k, statements, pieces, rows, exported, table)

(* What is loaded comes from what was exported.                            *)
Exporting == rows \subseteq exported /\ \E c \in Comments : Dumped(statements, c, exported)

(* The inductive invariant.                                                *)
DumpInv ==
  /\ coltype \in Types /\ TableRows(rows) /\ TableRows(exported)
  /\ phase \in {"use", "load", "done", "failed"}
  /\ phase # "use" => Exporting
  /\ phase = "load" => LoadGoesOn
  /\ RestoresAll
  /\ FailureExplained

(* Some rows of a table are a table.                                       *)
LEMMA TableRowsOf ==
  ASSUME NEW rs, TableRows(rs), NEW ss \in SUBSET rs
  PROVE  TableRows(ss)
BY FS_Subset DEF TableRows

(* Every step keeps the invariant.                                         *)
LEMMA DumpInvInit == DumpInit => DumpInv
<1> SUFFICES ASSUME DumpInit PROVE DumpInv
  OBVIOUS
<1>1. rows = {} /\ exported = {} /\ coltype \in Types /\ phase = "use"
  BY DEF DumpInit, Init, Idle
<1>2. TableRows({})
  BY FS_EmptySet DEF TableRows
<1> QED
  BY <1>1, <1>2 DEF DumpInv, RestoresAll, FailureExplained

LEMMA WorkKeeps == DumpInv /\ Work => DumpInv'
<1> SUFFICES ASSUME DumpInv, Work PROVE DumpInv'
  OBVIOUS
<1>1. coltype \in Types /\ coltype' = coltype /\ phase = "use" /\ phase' = "use" /\ exported' = exported
      /\ TableRows(rows) /\ TableRows(exported)
  BY DEF DumpInv, Work, Insert, Delete, dvars
<1>2. TableRows(rows')
  <2>1. CASE Delete
    <3>1. rows' \in SUBSET rows
      BY <2>1 DEF Delete
    <3> QED
      BY <1>1, <3>1, TableRowsOf
  <2>2. CASE Insert
    <3>1. PICK id \in Ids, v \in CValues(coltype) :
            (\A r \in rows : r[1] # Integer(id)) /\ rows' = rows \cup {<<Integer(id), v>>}
      BY <2>2 DEF Insert
    <3>2. IsFiniteSet(rows')
      BY <1>1, <3>1, FS_AddElement DEF TableRows
    <3> QED
      BY <1>1, <3>1, <3>2 DEF TableRows, Cells
  <2> QED
    BY <2>1, <2>2 DEF Work
<1>3. TableRows(rows)' /\ TableRows(exported)'
  BY <1>1, <1>2 DEF TableRows, Cells, CValues
<1> QED
  BY <1>1, <1>3 DEF DumpInv, RestoresAll, FailureExplained

LEMMA GoOnKeeps == DumpInv /\ GoOn => DumpInv'
<1> SUFFICES ASSUME DumpInv, GoOn PROVE DumpInv'
  OBVIOUS
<1>1. coltype \in Types /\ coltype' = coltype /\ phase' = "use" /\ rows' \in {rows, {}} /\ exported' = {} /\ TableRows(rows)
  BY DEF DumpInv, GoOn
<1>2. TableRows({})
  BY FS_EmptySet DEF TableRows
<1>3. TableRows(rows') /\ TableRows(exported')
  BY <1>1, <1>2
<1>4. TableRows(rows)' /\ TableRows(exported)'
  BY <1>1, <1>3 DEF TableRows, Cells, CValues
<1> QED
  BY <1>1, <1>4 DEF DumpInv, RestoresAll, FailureExplained

LEMMA ExportKeeps == DumpInv /\ Export => DumpInv'
<1> SUFFICES ASSUME DumpInv, Export PROVE DumpInv'
  OBVIOUS
<1>1. PICK c \in Comments :
        /\ phase' = "load" /\ statements' = <<Create(c)>> \o InsertsOf(scan_table)
        /\ pieces' = split_sql_statements(export_to_string(statements'))
        /\ exported' = rows /\ rows' = {} /\ table' = FALSE /\ coltype' = coltype
  BY DEF Export
<1>2. Typed /\ coltype \in Types /\ TableRows(rows)
  BY DEF DumpInv, Typed
<1>3. TableRows(rows)' /\ TableRows(exported)'
  <2>1. TableRows({})
    BY FS_EmptySet DEF TableRows
  <2>2. TableRows(rows') /\ TableRows(exported')
    BY <1>1, <1>2, <2>1
  <2> QED
    BY <1>1, <2>2 DEF TableRows, Cells, CValues
<1> DEFINE sts == statements'  X == {sts[n] : n \in 1..Len(sts)}  text == [n \in 1..Len(sts) |-> SqlOf(sts[n])]
           p == split_sql_statements(export_to_string(sts))
<1>4. Dumped(sts, c, rows)
  BY <1>1, <1>2, DumpIs
<1>5. sts \in Seq(X) /\ sts # <<>> /\ Len(sts) \in Nat \ {0} /\ sts[1] = Create(c)
  <2>1. sts \in Seq(X) /\ Len(sts) \in Nat \ {0} /\ sts[1] = Create(c)
    BY <1>4 DEF Dumped
  <2> QED
    BY <2>1
<1>6. PlainComment' => {Quote, Semicolon} \cap ToSet(c) = {}
  BY <1>5 DEF PlainComment, Create
<1>7. Restorable' => PlainComment' /\ \A r \in rows : Survives(r[2])
  BY <1>1 DEF Restorable
<1> HIDE DEF sts, X
<1>8. /\ \A n \in 1..Len(sts) : text[n] = SqlOf(sts[n]) /\ text[n] \in Seq(Textual) /\ text[n] # <<>>
      /\ PlainComment' => Clean(text[1])
      /\ Restorable' => \A n \in 1..Len(sts) : Clean(text[n])
  <2>1. /\ \A n \in 1..Len(sts) : SqlOf(sts[n]) \in Seq(Textual) /\ SqlOf(sts[n]) # <<>>
        /\ {Quote, Semicolon} \cap ToSet(c) = {} => Clean(SqlOf(sts[1]))
        /\ {Quote, Semicolon} \cap ToSet(c) = {} /\ (\A r \in rows : Survives(r[2])) => \A n \in 1..Len(sts) : Clean(SqlOf(sts[n]))
    BY <1>2, <1>4, DumpTexts
  <2>2. \A n \in 1..Len(sts) : text[n] = SqlOf(sts[n])
    OBVIOUS
  <2>3. 1 \in 1..Len(sts)
    BY <1>5
  <2> HIDE DEF text
  <2> QED
    BY <1>6, <1>7, <2>1, <2>2, <2>3
<1> DEFINE good == p \in Seq(Seq(Token)) /\ p # <<>> /\ p[1] = SqlOf(sts[1])
           all == Len(p) = Len(sts) /\ \A n \in 1..Len(sts) : p[n] = SqlOf(sts[n])
<1>9. PlainComment' => good /\ (Restorable' => all)
  <2> SUFFICES ASSUME PlainComment' PROVE good /\ (Restorable' => all)
    OBVIOUS
  <2> DEFINE w == text
  <2>1. w = [n \in 1..Len(sts) |-> SqlOf(sts[n])]
    OBVIOUS
  <2>2. /\ \A n \in 1..Len(sts) : w[n] = SqlOf(sts[n]) /\ w[n] \in Seq(Textual) /\ w[n] # <<>>
        /\ Clean(w[1])
        /\ Restorable' => \A n \in 1..Len(sts) : Clean(w[n])
    BY <1>8
  <2> HIDE DEF w
  <2>3. /\ p \in Seq(Seq(Token)) /\ p # <<>> /\ p[1] = w[1]
        /\ (\A n \in 1..Len(sts) : Clean(w[n])) => Len(p) = Len(sts) /\ \A n \in 1..Len(sts) : p[n] = w[n]
    <3>1. \A n \in 1..Len(sts) : w[n] \in Seq(Textual) /\ w[n] # <<>>
      BY <2>2
    <3> HIDE DEF p
    <3>2. LET q == split_sql_statements(export_to_string(sts)) IN
          /\ q \in Seq(Seq(Token)) /\ q # <<>> /\ q[1] = w[1]
          /\ (\A n \in 1..Len(sts) : Clean(w[n])) => Len(q) = Len(sts) /\ \A n \in 1..Len(sts) : q[n] = w[n]
      BY ONLY <1>5, <2>1, <2>2, <3>1, Splits
    <3> QED
      BY <3>2 DEF p
  <2> HIDE DEF p
  <2>4. w[1] = SqlOf(sts[1])
    BY <1>5, <2>2
  <2>5. good
    BY <2>3, <2>4
  <2>6. ASSUME Restorable' PROVE all
    <3>1. /\ Len(p) = Len(sts) 
          /\ \A n \in 1..Len(sts) : p[n] = w[n]
      BY <2>2, <2>3, <2>6, Zenon
    <3> QED
      BY <2>2, <3>1
  <2> QED
    BY <2>5, <2>6
<1> HIDE DEF p, text
<1>10. Exporting'
  BY <1>1, <1>4 DEF Exporting, sts
<1>11. LoadGoesOn'
  <2>1. pieces' = p
    BY <1>1 DEF p, sts
  <2>2. PlainComment' => pieces' # <<>> /\ pieces'[1] = SqlOf(statements'[1])
    BY <1>9, <2>1 DEF sts
  <2>3. ASSUME Restorable'
        PROVE  Resumed(0, statements', pieces', rows', exported', table')
    <3>1. good /\ all
      BY <1>7, <1>9, <2>3
    <3>2. \A j \in 1..Len(p) : p[j] = SqlOf(sts[0 + j])
      BY <1>5, <3>1
    <3>3. p \in Seq(Seq(Token)) /\ Len(p) = Len(sts) - 0
      BY <1>5, <3>1
    <3> HIDE DEF good, all
    <3> QED
      BY <2>1, <3>2, <3>3 DEF Resumed, sts
  <2>4. 0 \in 0..Len(statements')
    BY <1>5 DEF sts
  <2> QED
    BY <2>2, <2>3, <2>4 DEF LoadGoesOn
<1> QED
  BY <1>1, <1>2, <1>3, <1>10, <1>11 DEF DumpInv, RestoresAll, FailureExplained

(* What a piece is read as.                                                *)
LEMMA PieceRead ==
  ASSUME DumpInv, Loading
  PROVE  /\ \A st \in Parses(pieces[1]) :
              /\ st.is = "create" \/ (IsInsert(st, exported) /\ st.is # "create")
              /\ IsInsert(st, exported) => /\ Leading(st) \subseteq exported
                                           /\ RowsFit(st) => \A r \in exported : (\E k \in DOMAIN st.rows : st.rows[k] = Written(r)) => r \in Leading(st)
                                           /\ ~RowsFit(st) => coltype \in {"Boolean", "Timestamp"} /\ \E r \in exported : r[2] # Null
         /\ \A n \in 1..Len(statements) : pieces[1] = SqlOf(statements[n]) =>
              /\ \A st \in Parses(pieces[1]) : st = statements[n]
              /\ n = 1 \/ (\A r \in exported : Survives(r[2])) => statements[n] \in Parses(pieces[1])
<1>1. coltype \in Types /\ TableRows(exported)
  BY DEF DumpInv
<1>2. PICK c \in Comments : Dumped(statements, c, exported)
  BY DEF DumpInv, Loading, Exporting
<1>3. ASSUME NEW st \in Parses(pieces[1]) PROVE st.is = "create" \/ (IsInsert(st, exported) /\ st.is # "create")
  <2>1. PICK n \in DOMAIN statements : st = statements[n]
    BY <1>3 DEF Parses, ToSet
  <2>2. n \in 1..Len(statements)
    BY <1>2 DEF Dumped
  <2>3. n = 1 \/ n \in 2..Len(statements)
    BY <1>2, <2>2 DEF Dumped
  <2> QED
    BY <1>2, <2>1, <2>3 DEF Dumped, Create, IsInsert
<1>4. ASSUME NEW st \in Parses(pieces[1]), IsInsert(st, exported)
      PROVE  /\ Leading(st) \subseteq exported
             /\ RowsFit(st) => \A r \in exported : (\E k \in DOMAIN st.rows : st.rows[k] = Written(r)) => r \in Leading(st)
             /\ ~RowsFit(st) => coltype \in {"Boolean", "Timestamp"} /\ \E r \in exported : r[2] # Null
  <2>1. \A k \in DOMAIN st.rows : \A i \in 1..2 : expr_to_value(st.rows[k][i]) # ParseError
    BY <1>4 DEF Parses
  <2> QED
    BY <1>1, <1>4, <2>1, InsertedAre
<1>5. ASSUME NEW n \in 1..Len(statements), pieces[1] = SqlOf(statements[n])
      PROVE  /\ \A st \in Parses(pieces[1]) : st = statements[n]
             /\ n = 1 \/ (\A r \in exported : Survives(r[2])) => statements[n] \in Parses(pieces[1])
  <2> DEFINE piece == pieces[1]
  <2>1. piece = SqlOf(statements[n])
    BY <1>5
  <2> HIDE DEF piece
  <2>2. ReadAs(piece, n, exported)
    BY ONLY <1>1, <1>2, <2>1, n \in 1..Len(statements), ParsesIs
  <2> QED
    BY <2>2 DEF piece, ReadAs
<1> QED
  BY <1>3, <1>4, <1>5

(* A step through the pieces, if all is as it was written.                 *)
LEMMA ResumedOn ==
  ASSUME NEW k \in Nat, NEW sts, NEW ps, NEW rs, NEW ex, NEW tb, NEW rs2, NEW tb2,
         Resumed(k, sts, ps, rs, ex, tb), ps # <<>>, Len(sts) \in Nat, rs \subseteq rs2, tb2,
         k >= 1 => \A r \in ex : (\E i \in DOMAIN sts[k + 1].rows : sts[k + 1].rows[i] = Written(r)) => r \in rs2
  PROVE  Resumed(k + 1, sts, Tail(ps), rs2, ex, tb2)
<1>1. ps \in Seq(Seq(Token)) /\ Len(ps) = Len(sts) - k /\ Len(ps) >= 1
  BY DEF Resumed
<1>2. Tail(ps) \in Seq(Seq(Token)) /\ Len(Tail(ps)) = Len(ps) - 1 /\ \A j \in 1..Len(ps) - 1 : Tail(ps)[j] = ps[j + 1]
  BY <1>1
<1>3. ASSUME NEW j \in 1..Len(Tail(ps)) PROVE Tail(ps)[j] = SqlOf(sts[k + 1 + j])
  <2>1. j + 1 \in 1..Len(ps) /\ k + (j + 1) = k + 1 + j /\ Tail(ps)[j] = ps[j + 1]
    BY <1>1, <1>2
  <2>2. ps[j + 1] = SqlOf(sts[k + (j + 1)])
    BY <2>1 DEF Resumed
  <2> QED
    BY <2>1, <2>2
<1>4. ASSUME NEW r \in ex, NEW n \in 2..k + 1, NEW i \in DOMAIN sts[n].rows, sts[n].rows[i] = Written(r) PROVE r \in rs2
  <2>1. n \in 2..k \/ (n = k + 1 /\ k >= 1)
    OBVIOUS
  <2>2. CASE n \in 2..k
    BY <1>4, <2>2 DEF Resumed
  <2>3. CASE n = k + 1 /\ k >= 1
    BY <1>4, <2>3
  <2> QED
    BY <2>1, <2>2, <2>3
<1>5. Len(Tail(ps)) = Len(sts) - (k + 1)
  BY <1>1, <1>2
<1> QED
  BY <1>2, <1>3, <1>4, <1>5 DEF Resumed

LEMMA LoadKeeps == DumpInv /\ (SkipPiece \/ CreateTable \/ InsertRows) => DumpInv'
<1> SUFFICES ASSUME DumpInv, SkipPiece \/ CreateTable \/ InsertRows PROVE DumpInv'
  OBVIOUS
<1>1. Loading /\ phase = "load" /\ pieces # <<>> /\ Exporting /\ LoadGoesOn
  <2>1. Loading
    BY DEF SkipPiece, CreateTable, InsertRows
  <2> QED
    BY <2>1 DEF Loading, DumpInv
<1>2. pieces' = Tail(pieces) /\ coltype' = coltype /\ exported' = exported /\ statements' = statements
  BY DEF SkipPiece, CreateTable, InsertRows, NextPiece
<1>3. coltype \in Types /\ TableRows(exported) /\ rows \subseteq exported
  BY <1>1 DEF DumpInv, Exporting
<1>4. /\ Restorable' <=> Restorable
      /\ PlainComment' <=> PlainComment
  BY <1>2 DEF Restorable, PlainComment
<1>5. PICK c \in Comments : Dumped(statements, c, exported)
  BY <1>1 DEF Exporting
<1>6. Len(statements) \in Nat \ {0} /\ statements[1].is = "create"
  BY <1>5 DEF Dumped, Create
<1> DEFINE Read1(st) == 
              /\ st.is = "create" \/ (IsInsert(st, exported) /\ st.is # "create")
              /\ IsInsert(st, exported) => /\ Leading(st) \subseteq exported
                                           /\ RowsFit(st) => \A r \in exported : (\E k \in DOMAIN st.rows : st.rows[k] = Written(r)) => r \in Leading(st)
                                           /\ ~RowsFit(st) => coltype \in {"Boolean", "Timestamp"} /\ \E r \in exported : r[2] # Null
           Known(n) == pieces[1] = SqlOf(statements[n])
<1>7. /\ \A st \in Parses(pieces[1]) : Read1(st)
      /\ \A n \in 1..Len(statements) : Known(n) =>
              /\ \A st \in Parses(pieces[1]) : st = statements[n]
              /\ n = 1 \/ (\A r \in exported : Survives(r[2])) => statements[n] \in Parses(pieces[1])
  BY <1>1, PieceRead
<1>8. PlainComment /\ ~table => Known(1)
  BY <1>1 DEF LoadGoesOn
(* Where the dump goes on, if it can be restored.                          *)
<1> DEFINE Stands(k) == k \in 0..Len(statements) /\ Resumed(k, statements, pieces, rows, exported, table)
           StandsOn(k) == k \in 0..Len(statements) /\ Resumed(k, statements, pieces', rows', exported, table')
<1>9. ASSUME NEW k, Restorable, Stands(k)
      PROVE  /\ k + 1 \in 1..Len(statements) /\ k \in Nat /\ Known(k + 1) /\ (k >= 1 => table)
             /\ statements[k + 1] \in Parses(pieces[1])
             /\ \A st \in Parses(pieces[1]) : st = statements[k + 1]
  <2>1. pieces \in Seq(Seq(Token)) /\ Len(pieces) = Len(statements) - k /\ Len(pieces) >= 1 /\ (k >= 1 => table) /\ k \in Nat
    BY <1>1, <1>9 DEF Resumed
  <2>2. 1 \in 1..Len(pieces) /\ k + 1 \in 1..Len(statements)
    BY <1>6, <1>9, <2>1
  <2>3. Known(k + 1)
    BY <1>9, <2>2 DEF Resumed
  <2>4. \A r \in exported : Survives(r[2])
    BY <1>9 DEF Restorable
  <2> HIDE DEF Known
  <2> QED
    BY <1>7, <2>1, <2>2, <2>3, <2>4
<1>10. ASSUME NEW k, Restorable, Stands(k), rows \subseteq rows', table',
              k >= 1 => \A r \in exported : (\E i \in DOMAIN statements[k + 1].rows : statements[k + 1].rows[i] = Written(r)) => r \in rows'
       PROVE  StandsOn(k + 1)
  <2>1. k \in Nat /\ k + 1 \in 0..Len(statements)
    BY <1>6, <1>9, <1>10
  <2>2. Resumed(k + 1, statements, Tail(pieces), rows', exported, table')
    BY <1>1, <1>6, <1>10, <2>1, ResumedOn
  <2> QED
    BY <1>2, <2>1, <2>2
<1> HIDE DEF Read1, Known
<1>11. ASSUME rows' \subseteq exported, phase' = "load", PlainComment => table',
              Restorable => \E k : StandsOn(k)
       PROVE  DumpInv'
  <2>1. TableRows(rows)' /\ TableRows(exported)'
    <3>1. TableRows(rows')
      BY <1>3, <1>11, TableRowsOf
    <3> QED
      BY <1>2, <1>3, <3>1 DEF TableRows, Cells, CValues
  <2>2. Exporting'
    BY <1>2, <1>5, <1>11 DEF Exporting
  <2>3. LoadGoesOn'
    BY <1>2, <1>4, <1>11 DEF LoadGoesOn
  <2> QED
    BY <1>2, <1>3, <1>11, <2>1, <2>2, <2>3 DEF DumpInv, RestoresAll, FailureExplained
<1>12. CASE SkipPiece
  <2>1. (Parses(pieces[1]) = {} \/ Unsure(pieces[1])) /\ rows' = rows /\ table' = table /\ phase' = "load"
    BY <1>1, <1>12 DEF SkipPiece
  <2>s. ASSUME PlainComment, NEW n \in 1..Len(statements), Known(n), statements[n] \in Parses(pieces[1]) PROVE FALSE
    <3>1. PICK st \in Parses(pieces[1]) : Mark \in ToSet(st.comment)
      BY <2>1, <2>s DEF Unsure
    <3>2. st = statements[n]
      BY <1>7, <2>s
    <3>3. n = 1 \/ statements[n].comment = <<>>
      BY <1>5, <1>6 DEF Dumped, IsInsert
    <3>4. Mark \notin ToSet(statements[1].comment)
      BY <2>s DEF PlainComment
    <3>5. Mark \notin ToSet(<<>>)
      BY DEF ToSet
    <3> QED
      BY <3>1, <3>2, <3>3, <3>4, <3>5
  <2>2. PlainComment => table'
    <3>1. 1 \in 1..Len(statements)
      BY <1>6
    <3> QED
      BY <1>7, <1>8, <2>1, <2>s, <3>1
  <2>3. ~Restorable
    <3> SUFFICES ASSUME Restorable PROVE FALSE
      OBVIOUS
    <3>1. PICK k : Stands(k)
      BY <1>1 DEF LoadGoesOn
    <3> HIDE DEF Stands
    <3>2. k + 1 \in 1..Len(statements) /\ Known(k + 1) /\ statements[k + 1] \in Parses(pieces[1])
      BY <1>9, <3>1
    <3> QED
      BY <2>s, <3>2 DEF Restorable
  <2> HIDE DEF StandsOn
  <2> QED
    BY <1>3, <1>11, <2>1, <2>2, <2>3
<1>13. CASE CreateTable
  <2>1. PICK st \in Parses(pieces[1]) : st.is = "create" /\ table' = TRUE /\ rows' = rows /\ phase' = "load"
    BY <1>1, <1>13 DEF CreateTable
  <2>2. ASSUME Restorable PROVE \E k : StandsOn(k)
    <3>1. PICK k : Stands(k)
      BY <1>1, <2>2 DEF LoadGoesOn
    <3>2. k + 1 \in 1..Len(statements) /\ k \in Nat /\ st = statements[k + 1]
      <4> HIDE DEF Stands
      <4> QED
        BY <1>9, <2>1, <2>2, <3>1
    <3>3. k = 0
      <4> SUFFICES ASSUME k # 0 PROVE FALSE
        OBVIOUS
      <4>1. k + 1 \in 2..Len(statements)
        BY <1>6, <3>2
      <4> QED
        BY <1>5, <2>1, <3>2, <4>1 DEF Dumped, IsInsert
    <3>4. StandsOn(k + 1)
      <4> HIDE DEF StandsOn, Stands
      <4> QED
        BY <1>10, <2>1, <2>2, <3>1, <3>3
    <3> QED
      BY <3>4
  <2> HIDE DEF StandsOn
  <2> QED
    BY <1>3, <1>11, <2>1, <2>2
<1>14. CASE InsertRows
  <2>1. PICK st \in Parses(pieces[1]) :
          /\ st.is = "insert" /\ table' = table
          /\ rows' = IF table THEN rows \cup Leading(st) ELSE rows
          /\ phase' = IF table /\ RowsFit(st) THEN phase ELSE "failed"
    BY <1>1, <1>14 DEF InsertRows
  <2>2. /\ IsInsert(st, exported)
        /\ Leading(st) \subseteq exported
        /\ RowsFit(st) => \A r \in exported : (\E k \in DOMAIN st.rows : st.rows[k] = Written(r)) => r \in Leading(st)
        /\ ~RowsFit(st) => coltype \in {"Boolean", "Timestamp"} /\ \E r \in exported : r[2] # Null
    BY <1>7, <2>1 DEF Read1
  <2>3. rows' \subseteq exported
    BY <1>3, <2>1, <2>2
  <2>4. PlainComment => table
    BY <1>6, <1>7, <1>8, <2>1
  <2>5. CASE table /\ RowsFit(st)
    <3>1. ASSUME Restorable PROVE \E k : StandsOn(k)
      <4>1. PICK k : Stands(k)
        BY <1>1, <3>1 DEF LoadGoesOn
      <4>2. st = statements[k + 1]
        <5> HIDE DEF Stands
        <5> QED
          BY <1>9, <2>1, <3>1, <4>1
      <4>3. /\ rows \subseteq rows' /\ table'
            /\ \A r \in exported : (\E i \in DOMAIN statements[k + 1].rows : statements[k + 1].rows[i] = Written(r)) => r \in rows'
        <5> HIDE DEF Stands, StandsOn
        <5> QED
          BY <2>1, <2>2, <2>5, <4>2
      <4>4. StandsOn(k + 1)
        <5> HIDE DEF StandsOn, Stands
        <5> QED
          BY <1>10, <3>1, <4>1, <4>3
      <4> QED
        BY <4>4
    <3> HIDE DEF StandsOn
    <3> QED
      BY <1>1, <1>11, <2>1, <2>3, <2>4, <2>5, <3>1
  <2>6. CASE ~(table /\ RowsFit(st))
    <3>1. phase' = "failed"
      BY <2>1, <2>6
    <3>2. TableRows(rows)' /\ TableRows(exported)'
      <4>1. TableRows(rows')
        BY <1>3, <2>3, TableRowsOf
      <4> QED
        BY <1>2, <1>3, <4>1 DEF TableRows, Cells, CValues
    <3>3. Exporting'
      BY <1>2, <1>5, <2>3 DEF Exporting
    <3>4. FailureExplained'
      BY <1>2, <1>4, <2>1, <2>2, <2>3, <2>4, <2>6 DEF FailureExplained
    <3> QED
      BY <1>2, <1>3, <3>1, <3>2, <3>3, <3>4 DEF DumpInv, RestoresAll
  <2> QED
    BY <2>5, <2>6
<1> QED
  BY <1>12, <1>13, <1>14

LEMMA EndKeeps == DumpInv /\ EndOfDump => DumpInv'
<1> SUFFICES ASSUME DumpInv, EndOfDump PROVE DumpInv'
  OBVIOUS
<1>1. phase = "load" /\ pieces = <<>> /\ phase' = "done" /\ UNCHANGED <<qvars, table, exported, statements, pieces>>
      /\ Exporting /\ LoadGoesOn /\ TableRows(rows) /\ TableRows(exported) /\ coltype \in Types
  BY DEF EndOfDump, DumpInv
<1>2. ASSUME Restorable PROVE table /\ rows = exported
  <2>1. PICK k \in 0..Len(statements) : Resumed(k, statements, pieces, rows, exported, table)
    BY <1>1, <1>2 DEF LoadGoesOn
  <2>2. PICK c \in Comments : Dumped(statements, c, exported)
    BY <1>1 DEF Exporting
  <2>3. k = Len(statements) /\ k >= 1
    BY <1>1, <2>1, <2>2 DEF Resumed, Dumped
  <2>4. table
    BY <2>1, <2>3 DEF Resumed
  <2>5. ASSUME NEW r \in exported PROVE r \in rows
    <3>1. PICK n \in 2..Len(statements) : \E i \in DOMAIN statements[n].rows : statements[n].rows[i] = Written(r)
      BY <2>2 DEF Dumped
    <3> QED
      BY <2>1, <2>3, <3>1 DEF Resumed
  <2> QED
    BY <1>1, <2>4, <2>5 DEF Exporting
<1>3. coltype' = coltype /\ rows' = rows /\ table' = table /\ exported' = exported /\ statements' = statements
  BY <1>1 DEF qvars
<1>4. TableRows(rows)' /\ TableRows(exported)'
  BY <1>1, <1>3 DEF TableRows, Cells, CValues
<1>5. RestoresAll' /\ Exporting'
  BY <1>1, <1>2, <1>3 DEF RestoresAll, Exporting, Restorable, PlainComment
<1> QED
  BY <1>1, <1>3, <1>4, <1>5 DEF DumpInv, FailureExplained

LEMMA DumpInvStutter == DumpInv /\ UNCHANGED vars => DumpInv'
<1> SUFFICES ASSUME DumpInv, UNCHANGED vars PROVE DumpInv'
  OBVIOUS
<1>1. /\ coltype' = coltype /\ rows' = rows /\ table' = table /\ exported' = exported /\ statements' = statements
      /\ phase' = phase /\ pieces' = pieces
  BY DEF vars, qvars, dvars
<1>2. TableRows(rows)' /\ TableRows(exported)'
  BY <1>1 DEF DumpInv, TableRows, Cells, CValues
<1>3. (RestoresAll' <=> RestoresAll) /\ (FailureExplained' <=> FailureExplained) /\ (LoadGoesOn' <=> LoadGoesOn)
      /\ (Exporting' <=> Exporting)
  BY <1>1 DEF RestoresAll, FailureExplained, LoadGoesOn, Exporting, Restorable, PlainComment
<1> QED
  BY <1>1, <1>2, <1>3 DEF DumpInv

(* The invariant holds in every state of every behaviour: of any work on   *)
(* the table, exported and imported, over and over.                        *)
THEOREM DumpHolds == Spec => []DumpInv
<1>1. DumpInv /\ [Next]_vars => DumpInv'
  BY WorkKeeps, ExportKeeps, LoadKeeps, EndKeeps, GoOnKeeps, DumpInvStutter DEF Next
<1> QED
  BY <1>1, DumpInvInit, PTL DEF Spec

(* In every state the table holds keys of 64 bits and values of its column *)
(* or NULL, and no two rows with one key (Insert, Leading: execute_insert, *)
(* type_matches).                                                          *)
THEOREM DumpTyped == Spec => []Typed
<1>1. DumpInv => Typed
  BY DEF DumpInv, Typed
<1> QED
  BY <1>1, DumpHolds, PTL

(* An import that ends without an error has restored every row             *)
(* (RestoresAll: export_to_string, split_sql_statements, coerce_for_type). *)
THEOREM EveryRowRestored == Spec => []RestoresAll
<1>1. DumpInv => RestoresAll
  BY DEF DumpInv
<1> QED
  BY <1>1, DumpHolds, PTL

(* An import fails for a truth value, a timestamp, or a CREATE TABLE lost  *)
(* in splitting only, and leaves rows of the export (FailureExplained:     *)
(* import_sql_string).                                                     *)
THEOREM FailuresExplained == Spec => []FailureExplained
<1>1. DumpInv => FailureExplained
  BY DEF DumpInv
<1> QED
  BY <1>1, DumpHolds, PTL

(* By the primary key, through the index or by a filter, a comparison finds*)
(* the rows that it means (PlanKeepsAnswer: plan_select, evaluate_plan).   *)
THEOREM AnyPlanAnswers == Spec => []PlanKeepsAnswer
<1>1. Typed => PlanKeepsAnswer
  BY PlansKeepAnswer
<1> QED
  BY <1>1, DumpTyped, PTL

(* A negated condition answers with the rows the positive one leaves       *)
(* (NegationSplits: convert_expr_to_where).                                *)
THEOREM NegationsLeaveTheRest == Spec => []NegationSplits
<1>1. Typed => NegationSplits
  BY NegationsSplit
<1> QED
  BY <1>1, DumpTyped, PTL

(* Pages of any size, joined, are the whole answer (PagesTile:             *)
(* PlanNode::Limit over a stable sort).                                    *)
THEOREM PagesJoinToAnswers == Spec => []PagesTile
<1>1. Typed => PagesTile
  BY PagesAreWhole
<1> QED
  BY <1>1, DumpTyped, PTL

(* A query panics only for an unknown column or a clause over groups       *)
(* (PanicExplained: evaluate_predicate, Sort).                             *)
THEOREM PanicsHaveReasons == Spec => []PanicExplained
<1>1. Typed => PanicExplained
  BY PanicsExplained
<1> QED
  BY <1>1, DumpTyped, PTL

(* LIKE matches what its pattern means (LikeFinds: like_match and its      *)
(* backtracking).                                                          *)
THEOREM LikeFindsEveryMatch == Spec => []LikeFinds
<1>1. Typed => LikeFinds
  BY LikesFind
<1> QED
  BY <1>1, DumpTyped, PTL

(* What SELECT answers is as wide as its header, with groups, without,     *)
(* and for an empty table (HeaderFits: execute_select, extract_columns,     *)
(* execute_aggregate).                                                      *)
THEOREM HeadersFitRows == Spec => []HeaderFits
<1>1. Typed => HeaderFits
  BY HeadersFit
<1> QED
  BY <1>1, DumpTyped, PTL

(* The groups of an answer are those of the rows found: of every key one,   *)
(* which counts its rows, so that none is lost and none is counted twice    *)
(* (GroupsPartition: execute_aggregate).                                    *)
THEOREM GroupsAreTheRows == Spec => []GroupsPartition
<1>1. Typed => GroupsPartition
  BY GroupsArePartition
<1> QED
  BY <1>1, DumpTyped, PTL

(* A lookup in the index is the equality it is meant to be, but for a      *)
(* column of texts (IndexScanIsEquality: insert_index_entry and            *)
(* scan_index_eq).                                                         *)
THEOREM LookupsFindTheValue == Spec => [](coltype # "Text" => IndexScanIsEquality)
<1>1. Typed => (coltype # "Text" => IndexScanIsEquality)
  BY LookupsAreEqualities
<1> QED
  BY <1>1, DumpTyped, PTL
=============================================================================
