-------------------------------- MODULE Dump --------------------------------
(***************************************************************************)
(* Export to SQL and import of the dump into a new database                *)
(* (src/src/migration.rs, the Standard dialect and the default options) of *)
(* the table of module Query.                                              *)
(*                                                                         *)
(* The dump is a sequence of tokens: the characters of strings and         *)
(* comments, which the splitter looks at, and words it does not.           *)
(* Table and column names, defaults, the double quote and tables beside    *)
(* this one are left out; so is the engine's schema between get_schema and *)
(* scan_table.  The comment stands for those of the table and its columns. *)
(***************************************************************************)
EXTENDS Query

CONSTANTS
  Quote, Backslash, Semicolon,  \* characters
  Mark,       \* a mark, in a comment, that begins or ends a comment
  Comments,   \* the comments: sequences of characters
  BatchSize   \* rows per INSERT (0: all)

ASSUME BatchSizeAssumption == BatchSize \in Nat
ASSUME CharactersAssumption ==
  /\ {Quote, Backslash, Semicolon, Mark} \subseteq Int
  /\ Quote \notin {Backslash, Semicolon}
  /\ Comments \subseteq Seq(Int)
  /\ \A d \in DataOf["Timestamp"] : Backslash \notin ToSet(d)

VARIABLES
  phase,      \* "use", "load" while a dump is imported, "done", "failed"
  table,      \* the table exists
  exported,   \* the rows the dump was made from
  statements, \* the statements of the dump, in their trees
  pieces      \* what split_sql_statements made of it, from the next piece on

dvars == <<phase, table, exported, statements, pieces>>
vars == <<qvars, dvars>>

-----------------------------------------------------------------------------
(* format_value, as the literal it writes.  A float that is whole gets ".0"*)
(* after it, an infinite one too.                                          *)
Sign(n) == IF n < 0 THEN "-" ELSE ""
Whole(n) == NumberLit(Sign(n), 2 * (IF n < 0 THEN -n ELSE n), FALSE)
FloatLit(n) ==
  CASE n = NaN          -> Lit("name", NaNText)
    [] n \in Infinite   -> [Lit("inf", <<>>) EXCEPT !.sign = Sign(n)]
    [] OTHER            -> NumberLit(Sign(n), IF n < 0 THEN Opposite(n) ELSE n, TRUE)
format_value(v) ==
  CASE v.type \in {"Integer", "Boolean"} -> Whole(Num(v))
    [] v.type = "Float"     -> FloatLit(Num(v))
    [] v.type = "Text"      -> Lit("string", v.data)
    [] v.type = "Timestamp" -> Lit("string", v.data)  \* not RFC 3339: no T, no zone
    [] v.type = "Blob"      -> Lit("blob", v.data)
    [] v.type = "Null"      -> Lit("null", <<>>)

Char(c) == <<"char", c>>
Word(w) == <<"word", w>>
Newline == Word("newline")
DashLine == Word("--")   \* a comment line up to its end
Chars(s) == [i \in DOMAIN s |-> Char(s[i])]

Escaped(s) == FlattenSeq([i \in DOMAIN s |-> IF s[i] = Quote THEN <<Quote, Quote>> ELSE <<s[i]>>])
Tokens(e) ==
  CASE e.kind = "number" -> <<<<"number", e.sign, e.data[1], e.dec>>>>
    [] e.kind = "name"   -> <<<<"name", e.data>>>>
    [] e.kind = "inf"    -> <<<<"inf", e.sign>>>>
    [] e.kind = "string" -> Chars(<<Quote>> \o Escaped(e.data) \o <<Quote>>)
    [] e.kind = "blob"   -> <<Word("X")>> \o Chars(<<Quote>>) \o <<<<"hex", e.data>>>> \o Chars(<<Quote>>)
    [] e.kind = "null"   -> <<Word("NULL")>>

(* The text of a statement: generate_create_table with its comment, and    *)
(* build_single_insert.                                                    *)
Create(c) == [is |-> "create", comment |-> c, rows |-> <<>>]
SqlOf(statement) ==
  IF statement.is = "create"
  THEN <<Word("/*")>> \o Chars(statement.comment) \o <<Word("*/"), Word("CREATE TABLE")>>
  ELSE <<Word("INSERT")>> \o FlattenSeq([k \in DOMAIN statement.rows |->
         <<Word("(")>> \o FlattenSeq([i \in 1..2 |-> Tokens(statement.rows[k][i])]) \o <<Word(")")>>])

(* generate_insert_data_from_rows.                                         *)
Batch == IF BatchSize = 0 \/ BatchSize >= Cardinality(rows) THEN Cardinality(rows) ELSE BatchSize
InsertsOf(rs) ==
  IF rs = <<>> THEN <<>>
  ELSE [n \in 1..(Len(rs) + Batch - 1) \div Batch |->
         [is |-> "insert", comment |-> <<>>, rows |-> [k \in 1..Smallest(Batch, Len(rs) - (n - 1) * Batch) |->
            [i \in 1..2 |-> format_value(rs[(n - 1) * Batch + k][i])]]]]

(* export_to_string: every statement ends with a semicolon, comment lines  *)
(* stand around.                                                           *)
export_to_string(sts) ==
  <<DashLine, Newline>>
  \o FlattenSeq([n \in DOMAIN sts |-> SqlOf(sts[n]) \o <<Char(Semicolon), Newline>>
                                      \o When(n = 1, <<DashLine, Newline>>)])
  \o <<DashLine, Newline>>

-----------------------------------------------------------------------------
(* split_sql_statements.                                                   *)
Trim(s) ==
  LET solid == {i \in DOMAIN s : s[i] # Newline} IN
  IF solid = {} THEN <<>> ELSE SubSeq(s, Min(solid), Max(solid))
IsComment(s) == Trim(s) # <<>> /\ Trim(s)[1] = DashLine
Done(st) == IF Trim(st.cur) = <<>> THEN st.out ELSE Append(st.out, Trim(st.cur))

(* Variant: comment lines stay.                                            *)
NewlineReadKept(st) == [st EXCEPT !.cur = Append(st.cur, Newline)]
NewlineRead(st) == [st EXCEPT !.cur = IF IsComment(st.cur) THEN <<>> ELSE Append(st.cur, Newline)]
Read(st, t) ==
  [IF st.quoted THEN [st EXCEPT !.cur = Append(st.cur, t),
                                !.quoted = t # Char(Quote) \/ st.prev = Char(Backslash)]
   ELSE IF t = Char(Quote) THEN [st EXCEPT !.cur = Append(st.cur, t), !.quoted = TRUE]
   ELSE IF t = Char(Semicolon) THEN [st EXCEPT !.out = Done(st), !.cur = <<>>]
   ELSE IF t = Newline THEN NewlineRead(st)
   ELSE [st EXCEPT !.cur = Append(st.cur, t)]
   EXCEPT !.prev = t]
split_sql_statements(sql) ==
  LET state[n \in 0..Len(sql)] ==
        IF n = 0 THEN [out |-> <<>>, cur |-> <<>>, quoted |-> FALSE, prev |-> Newline] ELSE Read(state[n - 1], sql[n])
      end == state[Len(sql)] IN
  IF IsComment(end.cur) THEN end.out ELSE Done(end)

-----------------------------------------------------------------------------
(* SqlParser::parse of a piece: sqlparser, which ends a string at a quote  *)
(* that is not doubled whatever stands before it, skips comment lines and  *)
(* one last semicolon.  A piece that is not the text of one statement - a  *)
(* part of one, or two - is an error, and so is a literal it has no value  *)
(* for.  The import does not parse a piece that begins with "--".  A mark  *)
(* in a comment ends it, or begins another, and whether the rest is still  *)
(* the statement depends on what stands there.                             *)
Bare(piece) == Among(piece, ToSet(piece) \ {Newline, DashLine})
Parses(piece) == {st \in ToSet(statements) :
  /\ piece[1] # DashLine
  /\ Bare(piece) \in {SqlOf(st), Append(SqlOf(st), Char(Semicolon))}
  /\ \A k \in DOMAIN st.rows : \A i \in 1..2 : expr_to_value(st.rows[k][i]) # ParseError}

Unsure(piece) == \E st \in Parses(piece) : Mark \in ToSet(st.comment)

(* execute_insert: row by row, each converted and validated; the first that*)
(* fails ends the statement, and the rows before it stay.                  *)
RowOf(lits) == <<coerce_for_type("Integer", expr_to_value(lits[1])), coerce_for_type(coltype, expr_to_value(lits[2]))>>
(* Variant: NULL is a value of no type.                                    *)
FitsTyped(row) == type_matches("Integer", row[1]) /\ type_matches(coltype, row[2])
Fits(row) == type_matches("Integer", row[1]) /\ (row[2] = Null \/ type_matches(coltype, row[2]))
RowsFit(st) == \A k \in DOMAIN st.rows : Fits(RowOf(st.rows[k]))
Leading(st) == {RowOf(st.rows[k]) : k \in {j \in DOMAIN st.rows : \A i \in 1..j : Fits(RowOf(st.rows[i]))}}

(* The dump is read into a new database: it has no table and no index.     *)
Export == \E c \in Comments :
  LET sts == <<Create(c)>> \o InsertsOf(scan_table) IN
  /\ phase = "use"
  /\ phase' = "load" /\ statements' = sts /\ pieces' = split_sql_statements(export_to_string(sts))
  /\ exported' = rows /\ rows' = {} /\ indexed' = FALSE /\ table' = FALSE
  /\ UNCHANGED coltype

(* import_sql_string, statement by statement: what does not parse is       *)
(* skipped, what fails ends the import.                                    *)
Loading == phase = "load" /\ pieces # <<>>
NextPiece == pieces' = Tail(pieces) /\ UNCHANGED <<coltype, indexed, exported, statements>>

SkipPiece == /\ Loading /\ (Parses(pieces[1]) = {} \/ Unsure(pieces[1]))
             /\ UNCHANGED <<rows, table, phase>> /\ NextPiece

CreateTable == \E st \in IF Loading THEN Parses(pieces[1]) ELSE {} :
  st.is = "create" /\ table' = TRUE /\ UNCHANGED <<rows, phase>> /\ NextPiece

InsertRows == \E st \in IF Loading THEN Parses(pieces[1]) ELSE {} :
  /\ st.is = "insert" /\ NextPiece /\ UNCHANGED table
  /\ rows' = IF table THEN rows \cup Leading(st) ELSE rows
  /\ phase' = IF table /\ RowsFit(st) THEN phase ELSE "failed"

EndOfDump == phase = "load" /\ pieces = <<>> /\ phase' = "done"
             /\ UNCHANGED <<qvars, table, exported, statements, pieces>>

(* The new database is used on, if it has the table; if not, it is given up*)
(* for the one before (or any: nothing more is said of it).                *)
GoOn == /\ phase \in {"done", "failed"}
        /\ phase' = "use" /\ table' = TRUE /\ exported' = {} /\ statements' = <<>> /\ pieces' = <<>>
        /\ rows' = IF table THEN rows ELSE {}
        /\ UNCHANGED <<coltype, indexed>>

Idle == /\ phase = "use" /\ table = TRUE /\ exported = {} /\ statements = <<>> /\ pieces = <<>>
DumpInit == Init /\ Idle
Work == phase = "use" /\ (Insert \/ Delete) /\ UNCHANGED dvars
Next == Work \/ Export \/ SkipPiece \/ CreateTable \/ InsertRows \/ EndOfDump \/ GoOn
Spec == DumpInit /\ [][Next]_vars

-----------------------------------------------------------------------------
(* What an import promises.                                                *)

(* What the dump keeps: comments without a quote, a semicolon or a mark of *)
(* their own, texts with no backslash before a quote or at the end, finite *)
(* floats.                                                                 *)
PlainComment == {Quote, Semicolon, Mark} \cap ToSet(statements[1].comment) = {}
SplitsWell(s) == \A i \in DOMAIN s : s[i] = Backslash => i < Len(s) /\ s[i + 1] # Quote
Survives(v) == CASE v.type = "Text"  -> SplitsWell(v.data)
                 [] v.type = "Float" -> Num(v) \notin Infinite
                 [] v.type = "Blob"  -> FALSE
                 [] OTHER            -> TRUE
Restorable == PlainComment /\ \A r \in exported : Survives(r[2])

(* An import that ends without an error has restored every row, value for  *)
(* value, whatever characters the texts hold - quotes, semicolons - unless *)
(* the dump holds a blob, an infinite float, a text with a backslash before*)
(* a quote, or a comment with a quote, a semicolon or the mark of a comment*)
(* (format_value, split_sql_statements, coerce_for_type): those are lost   *)
(* without an error.                                                       *)
RestoresAll == phase = "done" /\ Restorable => table /\ rows = exported

(* An import fails only for a truth value or a timestamp, which the dump   *)
(* writes as a number and as a text their columns do not take back, or     *)
(* where the CREATE TABLE was lost in splitting (type_matches,             *)
(* import_sql_string); what it inserted before, whole rows of the export,  *)
(* stays.                                                                  *)
FailureExplained ==
  phase = "failed" =>
    /\ table => coltype \in {"Boolean", "Timestamp"} /\ \E r \in exported : r[2] # Null
    /\ ~table => ~PlainComment
    /\ rows \subseteq exported
=============================================================================
