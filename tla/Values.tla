------------------------------- MODULE Values -------------------------------
(***************************************************************************)
(* Values of RustMinidb: what a column type accepts and converts           *)
(* (src/src/sql/types.rs), how two values compare (src/src/sql/parser.rs), *)
(* the bytes they have as keys (src/src/storage/encoding.rs) and what a    *)
(* literal of a statement stands for.                                      *)
(*                                                                         *)
(* A value is its type and a sequence of numbers: one for an integer, a    *)
(* truth value, a timestamp; the characters of a text, the bytes of a blob.*)
(* A float is its place in the order of f64::total_cmp, which is its bits  *)
(* with those of a negative number turned around: n >= 0 is the float that *)
(* is worth n halves, and -n - 1 the same one with a minus; beyond the     *)
(* greatest finite one come infinity and the NaN, which has no sign here.  *)
(***************************************************************************)
EXTENDS Integers, Sequences

CONSTANTS
  MaxInt,     \* i64::MAX
  Exact,      \* up to here, in halves, every number is a float, then every fourth
  MaxFloat    \* the greatest finite float, in halves

ASSUME MaxIntAssumption == MaxInt \in Nat \ {0} /\ MaxInt % 2 = 1
ASSUME FloatAssumption ==
  /\ Exact \in Nat /\ MaxFloat \in Nat /\ Exact % 4 = 0 /\ MaxFloat % 4 = 0
  /\ Exact <= MaxFloat /\ 2 * MaxInt + 2 <= MaxFloat

Types == {"Integer", "Float", "Text", "Blob", "Boolean", "Timestamp"}
Val(t, s)  == [type |-> t, data |-> s]
Integer(n) == Val("Integer", <<n>>)
Float(n)   == Val("Float", <<n>>)
Text(s)    == Val("Text", s)
Boolean(b) == Val("Boolean", <<IF b THEN 1 ELSE 0>>)
Null       == Val("Null", <<>>)
Num(v)     == v.data[1]

-----------------------------------------------------------------------------
(* Floats: the nearest one to a number of halves - of two the one whose    *)
(* last bit is zero - and what the one at a place is worth.                *)
Infinity    == MaxFloat + 1
NaN         == MaxFloat + 2
Opposite(n) == -n - 1

ToFourth(h) == 4 * ((h + 1 + ((h \div 4) % 2)) \div 4)
Rounded(h) == IF h <= Exact THEN h ELSE IF ToFourth(h) <= MaxFloat THEN ToFourth(h) ELSE Infinity
Nearest(h) == IF h >= 0 THEN Rounded(h) ELSE Opposite(Rounded(-h))
Halves(n)  == IF n >= 0 THEN n ELSE n + 1

Magnitudes == {h \in 0..MaxFloat : Rounded(h) = h} \cup {Infinity}
Floats     == Magnitudes \cup {Opposite(h) : h \in Magnitudes} \cup {NaN}

(* `as f64`                                                                *)
AsFloat(v) == IF v.type = "Integer" THEN Nearest(2 * Num(v)) ELSE Num(v)

-----------------------------------------------------------------------------
(* compare_values: -1, 0 or 1.  An integer is made a float to compare it   *)
(* with one; values of other two types, NULL with anything, and blobs      *)
(* compare equal.                                                          *)

LexLess(s, t) == \E n \in 0..Len(s) :
  /\ n <= Len(t) /\ \A i \in 1..n : s[i] = t[i]
  /\ \/ n = Len(s) /\ n < Len(t)
     \/ n < Len(s) /\ n < Len(t) /\ s[n + 1] < t[n + 1]

Order(s, t) == IF LexLess(s, t) THEN -1 ELSE IF LexLess(t, s) THEN 1 ELSE 0
Numeric == {"Integer", "Float"}
Sortable == Numeric \cup {"Text", "Timestamp", "Boolean"}

compare_values(a, b) ==
  IF a.type = b.type /\ a.type \in Sortable THEN Order(a.data, b.data)
  ELSE IF a.type \in Numeric /\ b.type \in Numeric THEN Order(<<AsFloat(a)>>, <<AsFloat(b)>>)
  ELSE 0

-----------------------------------------------------------------------------
(* type_matches, and coerce_for_type, which changes a value only where it  *)
(* knows a conversion: `as i64` truncates and saturates, and has 0 for NaN.*)
(* Of the texts that are numbers or RFC 3339 times, which are converted    *)
(* too, "NaN" is the one here.                                             *)
type_matches(t, v) == t = v.type

NaNText == <<78, 97, 78>>
Truncated(h) == IF h >= 0 THEN h \div 2 ELSE -((-h) \div 2)
Clamped(n) == IF n > MaxInt THEN MaxInt ELSE IF n < -MaxInt - 1 THEN -MaxInt - 1 ELSE n
AsInteger(n) == IF n = NaN THEN 0 ELSE Clamped(Truncated(Halves(n)))

coerce_for_type(t, v) ==
  CASE t = "Float"   /\ v.type = "Integer" -> Float(AsFloat(v))
    [] t = "Float"   /\ v = Text(NaNText)  -> Float(NaN)
    [] t = "Integer" /\ v.type = "Float"   -> Integer(AsInteger(Num(v)))
    [] OTHER -> v

-----------------------------------------------------------------------------
(* serialize_value: a byte for the type, then the integer's 8 bytes, big   *)
(* end first (one digit here), or the characters.  The other types have    *)
(* their Debug text, which no text value is.                               *)
DebugMark == 99
DebugEnd  == 98
TypeMark(t) == CASE t = "Float" -> 1 [] t = "Blob" -> 2 [] t = "Boolean" -> 3 [] t = "Timestamp" -> 4

serialize_value(v) ==
  CASE v.type = "Integer" -> <<1, Num(v) % (2 * MaxInt + 2)>>
    [] v.type = "Text"    -> <<2>> \o v.data
    [] v.type = "Null"    -> <<0>>
    [] OTHER              -> <<2, DebugMark, TypeMark(v.type)>> \o v.data \o <<DebugEnd>>

deserialize_value(k) ==
  CASE k[1] = 1 -> Integer(IF k[2] > MaxInt THEN k[2] - 2 * MaxInt - 2 ELSE k[2])
    [] k[1] = 2 -> Text(Tail(k))
    [] OTHER    -> Null

-----------------------------------------------------------------------------
(* expr_to_value.  A literal is a number in halves with a sign before it   *)
(* or none, a string, TRUE or FALSE, NULL, a name, which is taken for a    *)
(* text, or what is an error: a blob literal, or an infinite number as it  *)
(* is printed.  Any unary operator is taken for a minus.                   *)
NumberLit(sign, h, dec) == [kind |-> "number", sign |-> sign, data |-> <<h>>, dec |-> dec]
Lit(kind, s) == [kind |-> kind, sign |-> "", data |-> s, dec |-> FALSE]
ParseError == Val("error", <<>>)

(* A number with a decimal point is a float; so is one no i64 can hold.    *)
Number(minus, h, dec) ==
  IF dec \/ h \div 2 > MaxInt THEN Float(IF minus THEN Opposite(Rounded(h)) ELSE Rounded(h))
  ELSE Integer(IF minus THEN -(h \div 2) ELSE h \div 2)

expr_to_value(e) ==
  CASE e.kind = "number" -> Number(e.sign # "", e.data[1], e.dec)
    [] e.kind \in {"string", "name"} -> Text(e.data)
    [] e.kind = "bool"   -> Val("Boolean", e.data)
    [] e.kind = "null"   -> Null
    [] OTHER             -> ParseError
=============================================================================
