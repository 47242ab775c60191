----------------------------- MODULE MCCatalog -----------------------------
(* Two clients and one table, created as (id, u), one index name.  Between *)
(* them the clients run every statement: the first one what changes rows   *)
(* and the comment handler, the second one the DDL and the import.         *)
EXTENDS Catalog, TLC

CONSTANTS u, c1, c2

IdAndU == <<Pk, u>>
OpsOf  == (c1 :> {"create", "insert", "delete", "comment"}) @@
          (c2 :> {"create", "drop", "import", "cindex", "dindex", "addcol", "dropcol"})
=============================================================================
