------------------------------ MODULE MCServer ------------------------------
(* One database a.db, given on the command line; requests name it with and *)
(* without ".db", and other programs remove and replace its file.          *)
EXTENDS Server, TLC

CONSTANTS a, c1, c2

A  == [stem |-> a, dotdb |-> TRUE]
A0 == [stem |-> a, dotdb |-> FALSE]
BothNames == {A, A0}
OnlyA == <<A>>
Perms == Permutations(Inodes)
Request(op, n) == [op |-> op, name |-> n]
RequestsOf ==
  (c1 :> {Request("import", None)}) @@
  (c2 :> {Request("query", None), Request("look", None), Request("export", None),
          Request("switch", A), Request("switch", A0), Request("switchnew", A0),
          Request("create", A), Request("delete", A)})
ImportAndQuery == (c1 :> {Request("import", None)}) @@ (c2 :> {Request("query", None)})
=============================================================================
