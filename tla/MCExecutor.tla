----------------------------- MODULE MCExecutor -----------------------------
(* Small instances of Executor: two or three keys, the values a and b, a   *)
(* value t of another type, which validate_row refuses, and NULL.          *)
EXTENDS Executor

CONSTANTS a, b, t

AnyRow == Row
WellTyped == {r \in Row : r.v # t}
Keeping == [pk |-> None, v |-> None]
SetV(x) == [pk |-> None, v |-> x]

InsertGiven(given, conflict, set) == [op |-> "insert", rows |-> given, conflict |-> conflict, set |-> set]
Insert(rs, conflict, set) == InsertGiven([n \in DOMAIN rs |-> [row |-> rs[n], key |-> rs[n].pk]], conflict, set)
Update(where, set) == [op |-> "update", where |-> where, set |-> set]
Delete(where) == [op |-> "delete", where |-> where]
R(k, x) == [pk |-> k, v |-> x]

(* One client: single and multi-row inserts, updates and deletes by key,   *)
(* by value and of every row; one UPDATE assigns the primary key.          *)
AloneStatements ==
  {Insert(<<r>>, "error", Keeping) : r \in [pk : Pks, v : {a, NULL}] \cup {R(1, t)}}
  \cup {Insert(<<R(1, a), R(2, b)>>, k, Keeping) : k \in {"error", "nothing"}}
  \cup {Insert(<<R(1, a), R(2, a)>>, "nothing", Keeping)}
  \cup {Update(AnyRow, SetV(x)) : x \in {b, t, NULL}}
  \cup {Update({r \in Row : r.v = NULL}, SetV(b)), Update({r \in Row : r.pk = 1}, [pk |-> 2, v |-> a])}
  \cup {Delete(AnyRow), Delete({r \in Row : r.v = b})}

(* Two clients on the same keys, with a DO UPDATE that - the columns listed*)
(* in another order - goes by another key than the one in the way.         *)
SharedStatements ==
  {InsertGiven(<<[row |-> R(1, a), key |-> 2]>>, "update", SetV(b)),
   Insert(<<R(1, b), R(2, b)>>, "error", Keeping),
   Update({r \in Row : r.pk = 1}, SetV(a)), Delete({r \in Row : r.v = b}),
   Update(AnyRow, [pk |-> 2, v |-> None])}

(* One client and one DO UPDATE.                                           *)
UpsertStatements ==
  {Insert(<<R(1, a)>>, "error", Keeping), Insert(<<R(1, a)>>, "update", SetV(b))}
=============================================================================
