------------------------------- MODULE MCSql -------------------------------
(* One table of every column type, the queries of a small grammar over it, *)
(* and dumps of it with comments that do and do not confuse the splitter.  *)
EXTENDS Dump

(* The characters a, b, B, the wildcards, the quote, the backslash and the *)
(* semicolon, all above the type marks of serialize_value.                 *)
A == 21
B == 22
UpperB == 20
MCQuote == 11
MCSemicolon == 12
MCBackslash == 13
MCPercent == 14
MCUnderscore == 15
MCMark == 16
MCLower == [c \in {A, B, UpperB} |-> IF c = UpperB THEN B ELSE c]

MCDataOf ==
  [Integer |-> {<<-2>>, <<1>>}, Float |-> {<<Opposite(0)>>, <<0>>, <<Infinity>>, <<NaN>>}, Boolean |-> {<<0>>, <<1>>},
   Timestamp |-> {<<0>>, <<5>>}, Blob |-> {<<>>, <<7>>},
   Text |-> {<<A>>, <<A, A, UpperB>>, <<A, MCSemicolon, MCQuote>>, <<MCBackslash>>}]

Literals == {NumberLit("-", 2, FALSE), NumberLit("", 2, FALSE), NumberLit("-", 0, TRUE), Lit("string", <<A>>),
             Lit("bool", <<1>>), Lit("null", <<>>)}
Cmps == {[is |-> "cmp", col |-> "c", op |-> op, lit |-> e] : op \in Compare, e \in Literals}
        \cup {[is |-> "cmp", col |-> "id", op |-> op, lit |-> NumberLit("", 2, FALSE)] : op \in Compare}
Cmp(col, op, e) == [is |-> "cmp", col |-> col, op |-> op, lit |-> e]
MCWheres == Cmps \cup
  {[is |-> "between", col |-> "c", negated |-> FALSE, low |-> NumberLit("-", 2, FALSE), high |-> NumberLit("", 1, TRUE)],
   [is |-> "between", col |-> "id", negated |-> FALSE, low |-> NumberLit("", 2, FALSE), high |-> NumberLit("", 2, FALSE)],
   [is |-> "in", col |-> "c", negated |-> FALSE, list |-> <<NumberLit("", 2, FALSE), Lit("string", <<A>>)>>],
   [is |-> "like", col |-> "c", negated |-> FALSE, insensitive |-> TRUE, pattern |-> <<MCPercent, UpperB>>],
   [is |-> "isnull", col |-> "c", negated |-> FALSE]}

Col(c)  == [is |-> "col", fn |-> "", arg |-> c, alias |-> ""]
As(c)   == [is |-> "col", fn |-> "", arg |-> c, alias |-> "z"]
Fn(f, c) == [is |-> "fn", fn |-> f, arg |-> c, alias |-> ""]
Asc(c)  == [col |-> c, asc |-> TRUE]
Desc(c) == [col |-> c, asc |-> FALSE]
One == NumberLit("", 2, FALSE)
MCSelects ==
  {All,
   [All EXCEPT !.order = <<Desc("c"), Asc("id")>>],
   [All EXCEPT !.items = <<Col("c")>>, !.order = <<Desc("id")>>],
   [All EXCEPT !.items = <<Col("id")>>, !.order = <<Desc("c"), Asc("id")>>],
   [All EXCEPT !.items = <<As("c"), Col("id")>>, !.limit = 1, !.offset = 1],
   [All EXCEPT !.where = <<Cmp("x", "=", One)>>],
   [All EXCEPT !.where = <<Cmp("id", ">", One), Cmp("x", "=", One), [is |-> "and", left |-> 1, right |-> 2]>>],
   [All EXCEPT !.where = <<Cmp("id", ">", One), Cmp("c", "=", One), [is |-> "or", left |-> 1, right |-> 2]>>, !.order = <<Asc("c")>>],
   [All EXCEPT !.items = <<Fn("COUNT", "*"), Col("c")>>, !.group = <<"c">>],
   [All EXCEPT !.items = <<Fn("COUNT", "*"), Fn("SUM", "id")>>, !.group = <<"c">>, !.where = <<Cmp("id", ">=", One)>>],
   [All EXCEPT !.items = <<Fn("COUNT", "*")>>, !.group = <<"x">>],
   [All EXCEPT !.items = <<Fn("COUNT", "*")>>, !.group = <<"c">>, !.having = <<Cmp("c", ">", One)>>],
   [All EXCEPT !.items = <<Fn("MIN", "c"), Fn("MAX", "c"), Fn("AVG", "c"), Fn("SUM", "c"), Fn("COUNT", "c")>>],
   [All EXCEPT !.items = <<Fn("COUNT", "*")>>, !.group = <<"c">>, !.order = <<Asc("id"), Desc("c")>>]}

MCComments == {<<>>, <<MCQuote>>, <<A, MCSemicolon>>, <<A, MCMark>>}
=============================================================================
