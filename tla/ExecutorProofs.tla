--------------------------- MODULE ExecutorProofs ---------------------------
(***************************************************************************)
(* Theorems about Executor, for every set of clients, keys, values and     *)
(* statements.                                                             *)
(***************************************************************************)
EXTENDS Executor, SequenceTheorems, TLAPS

-----------------------------------------------------------------------------
(* Lemmas about the operators Executor is built from.                      *)

(* A log without its last entry is a log, and keeps the entries before it. *)
LEMMA DropLastProperties ==
  ASSUME NEW S, NEW s \in Seq(S), s # <<>>
  PROVE  /\ DropLast(s) \in Seq(S)
         /\ Len(DropLast(s)) = Len(s) - 1
         /\ \A i \in 1..(Len(s) - 1) : DropLast(s)[i] = s[i]
         /\ s[Len(s)] \in S
<1>1. Len(s) \in Nat \ {0} /\ \A i \in 1..Len(s) : s[i] \in S
  BY LenProperties, EmptySeq
<1>2. \A i \in 1..(Len(s) - 1) : s[i] \in S
  BY <1>1
<1> DEFINE n == Len(s) - 1
<1>3. n \in Nat /\ n - 1 + 1 = n
  BY <1>1
<1>4. /\ SubSeq(s, 1, n) \in Seq(S)
      /\ Len(SubSeq(s, 1, n)) = IF 1 <= n THEN n - 1 + 1 ELSE 0
      /\ \A i \in 1..(n - 1 + 1) : SubSeq(s, 1, n)[i] = s[1 + i - 1]
  <2>1. 1 \in Int /\ n \in Int
    BY <1>3
  <2>2. \A i \in 1..n : s[i] \in S
    BY <1>2
  <2> HIDE DEF n
  <2> QED
    BY <2>1, <2>2, SubSeqProperties
<1>5. \A i \in 1..n : SubSeq(s, 1, n)[i] = s[i]
  <2> HIDE DEF n
  <2> QED
    BY <1>3, <1>4
<1>6. Len(SubSeq(s, 1, n)) = n
  BY <1>3, <1>4
<1>7. s[Len(s)] \in S
  BY <1>1
<1> QED
  BY <1>4, <1>5, <1>6, <1>7 DEF DropLast

(* A SET list applied to a row gives a row.                                *)
LEMMA AssignedType ==
  ASSUME NEW r \in Row, NEW set \in Assignment
  PROVE  Assigned(r, set) \in Row
BY DEF Assigned, Row, Assignment

(* Every write of a statement has an undo entry.                           *)
LEMMA EntryOfType ==
  ASSUME NEW o \in RowOp, o.mode \in WriteModes
  PROVE  EntryOf(o) \in UndoEntry
<1>1. CASE o.mode = "insert"
  BY <1>1 DEF EntryOf, UndoEntry, RowOp
<1>2. CASE o.mode = "delete"
  BY <1>2 DEF EntryOf, UndoEntry, RowOp
<1>3. CASE o.mode \in {"upsert", "update"}
  BY <1>3 DEF EntryOf, UndoEntry, RowOp
<1> QED
  BY <1>1, <1>2, <1>3 DEF WriteModes

(* Every undo entry is turned into a row operation.                        *)
LEMMA UndoOpType ==
  ASSUME NEW e \in UndoEntry
  PROVE  /\ UndoOp(e) \in RowOp
         /\ UndoOp(e).mode \notin WriteModes
         /\ e.kind = "ins" => UndoOp(e).mode = "undoIns"
         /\ e.kind = "upd" => UndoOp(e).mode = "undoUpd"
         /\ e.kind = "del" => UndoOp(e).mode = "undoDel"
<1>1. CASE e.kind = "ins"
  BY <1>1 DEF UndoOp, UndoEntry, RowOp, WriteModes
<1>2. CASE e.kind = "upd"
  BY <1>2 DEF UndoOp, UndoEntry, RowOp, WriteModes
<1>3. CASE e.kind = "del"
  BY <1>3 DEF UndoOp, UndoEntry, RowOp, WriteModes
<1> QED
  BY <1>1, <1>2, <1>3 DEF UndoEntry

(* A filtered scan of a table is a table.                                  *)
LEMMA MatchingType ==
  ASSUME data \in Table, NEW where
  PROVE  Matching(where) \in Table
BY DEF Matching, Table

-----------------------------------------------------------------------------
(* Type correctness.                                                       *)

(* A thread whose local state is left alone keeps fitting its step.        *)
LEMMA StepFrame ==
  ASSUME NEW d, StepOK(d),
         pc'[d] = pc[d], stmt'[d] = stmt[d], rows'[d] = rows[d], op'[d] = op[d]
  PROVE  StepOK(d)'
BY DEF StepOK

(* A thread that leaves its statement has no step to fit.                  *)
LEMMA LeaveType ==
  ASSUME TypeOK, NEW c \in Clients, NEW label \in {"idle", "release"}, Leave(c, label)
  PROVE  /\ pc' \in [Clients -> Labels]
         /\ stmt' \in [Clients -> Stmt]
         /\ rows' \in [Clients -> Seq(Given)]
         /\ scan' \in [Clients -> Table]
         /\ op' \in [Clients -> RowOp \cup {NoOp}]
         /\ \A d \in Clients : StepOK(d)'
<1>1. NoStmt \in Stmt /\ EmptyTable \in Table /\ <<>> \in Seq(Given)
  BY EmptySeq DEF Stmt, EmptyTable, Table
<1>2. label \in Labels
  BY DEF Labels
<1>3. /\ pc' \in [Clients -> Labels]
      /\ stmt' \in [Clients -> Stmt]
      /\ rows' \in [Clients -> Seq(Given)]
      /\ scan' \in [Clients -> Table]
      /\ op' \in [Clients -> RowOp \cup {NoOp}]
  BY <1>1, <1>2 DEF TypeOK, Leave, Goto
<1>4. StepOK(c)'
  BY DEF TypeOK, Leave, Goto, StepOK
<1>5. ASSUME NEW d \in Clients, d # c
      PROVE  StepOK(d)'
  BY <1>5, StepFrame DEF TypeOK, Leave, Goto
<1> QED
  BY <1>3, <1>4, <1>5

LEMMA FailType ==
  ASSUME TypeOK, NEW c \in Clients, Fail(c)
  PROVE  TypeOK'
<1>1. Leave(c, "idle") /\ UNCHANGED <<data, idx, active, log, lock, outcome, hist>>
  BY DEF Fail, disk, tx
<1> QED
  BY <1>1, LeaveType DEF TypeOK

LEMMA TypeInit == Init => TypeOK
<1> SUFFICES ASSUME Init PROVE TypeOK
  OBVIOUS
<1>1. /\ NoStmt \in Stmt /\ EmptyTable \in Table /\ <<>> \in Seq(Given)
      /\ <<>> \in Seq(UndoEntry) /\ <<>> \in Seq(Table)
  BY EmptySeq DEF Stmt, EmptyTable, Table
<1>2. \A c \in Clients : StepOK(c)
  BY DEF Init, StepOK
<1> QED
  BY <1>1, <1>2 DEF Init, TypeOK, Labels

(* One step of the type invariant for each action of a thread. Threads     *)
(* other than c are untouched: StepFrame.                                  *)
LEMMA TypeStep ==
  ASSUME TypeOK, NEW c \in Clients, Call(c) \/ Proceed(c)
  PROVE  TypeOK'
<1> USE DEF disk, tx, local
<1> DEFINE Others == \A d \in Clients \ {c} :
              /\ pc'[d] = pc[d] /\ stmt'[d] = stmt[d]
              /\ rows'[d] = rows[d] /\ op'[d] = op[d]
<1>a. ASSUME Others, StepOK(c)'
      PROVE  \A d \in Clients : StepOK(d)'
  BY <1>a, StepFrame DEF TypeOK
<1>1. CASE StartInsert(c)
  <2>1. PICK s \in Statements \cap Inserts : /\ stmt' = [stmt EXCEPT ![c] = s]
                                             /\ rows' = [rows EXCEPT ![c] = s.rows]
    BY <1>1 DEF StartInsert
  <2>2. s \in Stmt /\ s.rows \in Seq(Given) /\ s.op = "insert"
    BY DEF Inserts, Stmt
  <2>3. pc' = [pc EXCEPT ![c] = "insert"] /\ UNCHANGED <<disk, tx, scan, op>>
    BY <1>1 DEF StartInsert, Goto
  <2>4. Others
    BY <2>1, <2>3 DEF TypeOK
  <2>5. StepOK(c)'
    BY <2>1, <2>2, <2>3 DEF TypeOK, StepOK
  <2> QED
    BY <1>a, <2>1, <2>2, <2>3, <2>4, <2>5 DEF TypeOK, Labels, Steps
<1>2. CASE InsertRow(c)
  <2> DEFINE r == Head(rows[c]).row
  <2>1. r \in Row /\ Tail(rows[c]) \in Seq(Given)
    <3>1. Head(rows[c]) \in Given /\ Tail(rows[c]) \in Seq(Given)
      BY <1>2, HeadTailProperties DEF InsertRow, TypeOK
    <3> QED
      BY <3>1 DEF Given
  <2>2. CASE Fail(c)
    BY <2>2, FailType
  <2>3. CASE NextValues(c) /\ UNCHANGED <<disk, tx, stmt, scan, op>>
    <3>1. Others
      BY <2>3 DEF NextValues, Goto, TypeOK
    <3>2. StepOK(c)'
      BY <1>2, <2>3 DEF InsertRow, NextValues, Goto, TypeOK, StepOK
    <3> QED
      BY <1>a, <2>1, <2>3, <3>1, <3>2 DEF NextValues, Goto, TypeOK, Labels, Steps
  <2>4. CASE /\ op' = [op EXCEPT ![c] = [mode |-> "insert", key |-> r.pk,
                                         old |-> NoRow, new |-> r]]
             /\ Goto(c, "probe")
             /\ UNCHANGED <<disk, tx, stmt, rows, scan>>
    <3>1. [mode |-> "insert", key |-> r.pk, old |-> NoRow, new |-> r] \in RowOp
      BY <2>1 DEF RowOp, Row
    <3>2. Others
      BY <2>4 DEF Goto, TypeOK
    <3>3. StepOK(c)'
      BY <1>2, <2>4, <3>1 DEF InsertRow, Goto, TypeOK, StepOK, WriteModes
    <3> QED
      BY <1>a, <2>4, <3>1, <3>2, <3>3 DEF Goto, TypeOK, Labels, Steps
  <2> QED
    BY <1>2, <2>2, <2>3, <2>4 DEF InsertRow
<1>3. CASE InsertProbe(c)
  <2>1. CASE Fail(c)
    BY <2>1, FailType
  <2>2. CASE Goto(c, "write") /\ UNCHANGED <<disk, tx, local>>
    <3>1. Others
      BY <2>2 DEF Goto, TypeOK
    <3>2. StepOK(c)'
      BY <1>3, <2>2 DEF InsertProbe, Goto, TypeOK, StepOK
    <3> QED
      BY <1>a, <2>2, <3>1, <3>2 DEF Goto, TypeOK, Labels, Steps
  <2>3. CASE NextValues(c) /\ op' = [op EXCEPT ![c] = NoOp] /\ UNCHANGED <<disk, tx, stmt, scan>>
    <3>1. stmt[c].op = "insert" /\ rows[c] # <<>>
      BY <1>3 DEF InsertProbe, TypeOK, StepOK, WriteModes
    <3>2. Tail(rows[c]) \in Seq(Given)
      BY <3>1, HeadTailProperties DEF TypeOK
    <3>3. Others
      BY <2>3 DEF NextValues, Goto, TypeOK
    <3>4. StepOK(c)'
      BY <2>3, <3>1 DEF NextValues, Goto, TypeOK, StepOK
    <3> QED
      BY <1>a, <2>3, <3>2, <3>3, <3>4 DEF NextValues, Goto, TypeOK, Labels, Steps
  <2>4. CASE stmt[c].conflict = "update" /\ Goto(c, "fetch") /\ UNCHANGED <<disk, tx, local>>
    <3>1. Others
      BY <2>4 DEF Goto, TypeOK
    <3>2. StepOK(c)'
      BY <1>3, <2>4 DEF InsertProbe, Goto, TypeOK, StepOK, WriteModes
    <3> QED
      BY <1>a, <2>4, <3>1, <3>2 DEF Goto, TypeOK, Labels, Steps
  <2> QED
    BY <1>3, <2>1, <2>2, <2>3, <2>4 DEF InsertProbe
<1>4. CASE UpsertFetch(c)
  <2> DEFINE k == Head(rows[c]).key
             o == [mode |-> "upsert", key |-> k, old |-> data[k],
                   new |-> Assigned(data[k], stmt[c].set)]
  <2>1. CASE Fail(c)
    BY <2>1, FailType
  <2>2. CASE /\ k \in StoredKeys /\ op' = [op EXCEPT ![c] = o] /\ Goto(c, "write")
             /\ UNCHANGED <<disk, tx, stmt, rows, scan>>
    <3>1. pc[c] = "fetch" /\ stmt[c].op = "insert" /\ rows[c] # <<>>
      BY <1>4 DEF UpsertFetch, TypeOK, StepOK, WriteModes
    <3>2. stmt[c].set \in Assignment
      BY <3>1 DEF TypeOK, Stmt, Inserts, Updates, Deletes, NoStmt, Rollback, Drop
    <3>3. k \in Pks /\ data[k] # NoRow
      BY <2>2 DEF StoredKeys
    <3>4. data[k] \in Row
      BY <3>3 DEF TypeOK, Table
    <3>5. Assigned(data[k], stmt[c].set) \in Row
      BY <3>2, <3>4, AssignedType
    <3>6. o \in RowOp /\ o.mode = "upsert"
      BY <3>3, <3>4, <3>5 DEF RowOp
    <3> HIDE DEF o
    <3>7. Others
      BY <2>2 DEF Goto, TypeOK
    <3>8. StepOK(c)'
      BY <2>2, <3>1, <3>6 DEF Goto, TypeOK, StepOK, WriteModes
    <3> QED
      BY <1>a, <2>2, <3>6, <3>7, <3>8 DEF Goto, TypeOK, Labels, Steps
  <2> QED
    BY <1>4, <2>1, <2>2 DEF UpsertFetch
<1>5. CASE StartUpdate(c)
  <2>1. PICK s \in Statements \cap Updates : /\ stmt' = [stmt EXCEPT ![c] = s]
                                             /\ scan' = [scan EXCEPT ![c] = Matching(s.where)]
    BY <1>5 DEF StartUpdate
  <2>2. s \in Stmt /\ s.op = "update"
    BY DEF Updates, Stmt
  <2>3. Matching(s.where) \in Table
    BY MatchingType DEF TypeOK
  <2>4. pc' = [pc EXCEPT ![c] = "update"] /\ UNCHANGED <<disk, tx, rows, op>>
    BY <1>5 DEF StartUpdate, Goto
  <2>5. Others
    BY <2>1, <2>4 DEF TypeOK
  <2>6. StepOK(c)'
    BY <2>1, <2>2, <2>4 DEF TypeOK, StepOK
  <2> QED
    BY <1>a, <2>1, <2>2, <2>3, <2>4, <2>5, <2>6 DEF TypeOK, Labels, Steps
<1>6. CASE StartDelete(c)
  <2>1. PICK s \in Statements \cap Deletes : /\ stmt' = [stmt EXCEPT ![c] = s]
                                             /\ scan' = [scan EXCEPT ![c] = Matching(s.where)]
    BY <1>6 DEF StartDelete
  <2>2. s \in Stmt /\ s.op = "delete"
    BY DEF Deletes, Stmt
  <2>3. Matching(s.where) \in Table
    BY MatchingType DEF TypeOK
  <2>4. pc' = [pc EXCEPT ![c] = "delete"] /\ UNCHANGED <<disk, tx, rows, op>>
    BY <1>6 DEF StartDelete, Goto
  <2>5. Others
    BY <2>1, <2>4 DEF TypeOK
  <2>6. StepOK(c)'
    BY <2>1, <2>2, <2>4 DEF TypeOK, StepOK
  <2> QED
    BY <1>a, <2>1, <2>2, <2>3, <2>4, <2>5, <2>6 DEF TypeOK, Labels, Steps
<1>7. CASE UpdateRow(c)
  <2>1. CASE Fail(c)
    BY <2>1, FailType
  <2>2. ASSUME NEW k \in Pks, IsNext(scan[c], k),
               op' = [op EXCEPT ![c] = [mode |-> "update", key |-> scan[c][k].pk,
                        old |-> scan[c][k], new |-> Assigned(scan[c][k], stmt[c].set)]],
               scan' = [scan EXCEPT ![c][k] = NoRow],
               Goto(c, "unindex"), UNCHANGED <<disk, tx, stmt, rows>>
        PROVE  TypeOK'
    <3> DEFINE o == [mode |-> "update", key |-> scan[c][k].pk, old |-> scan[c][k],
                     new |-> Assigned(scan[c][k], stmt[c].set)]
    <3>1. pc[c] = "update" /\ stmt[c].op = "update"
      BY <1>7 DEF UpdateRow, TypeOK, StepOK
    <3>2. stmt[c].set \in Assignment
      <4>1. stmt[c] \in Stmt
        BY DEF TypeOK
      <4>2. stmt[c] \in Updates
        BY <3>1, <4>1 DEF Stmt, Inserts, Deletes, NoStmt, Rollback, Drop
      <4> QED
        BY <4>2 DEF Updates
    <3>3. scan[c][k] \in Row /\ scan[c][k].pk \in Pks
      BY <2>2 DEF TypeOK, Table, IsNext, Row
    <3>4. o \in RowOp /\ o.mode = "update"
      <4>1. Assigned(scan[c][k], stmt[c].set) \in Row
        BY <3>2, <3>3, AssignedType
      <4> QED
        BY <3>3, <4>1 DEF RowOp
    <3>5. op' = [op EXCEPT ![c] = o]
      BY <2>2
    <3> HIDE DEF o
    <3>6. Others
      BY <2>2, <3>5 DEF Goto, TypeOK
    <3>7. StepOK(c)'
      BY <2>2, <3>1, <3>4, <3>5 DEF Goto, TypeOK, StepOK, WriteModes
    <3>8. scan' \in [Clients -> Table]
      BY <2>2 DEF TypeOK, Table
    <3> QED
      BY <1>a, <2>2, <3>4, <3>5, <3>6, <3>7, <3>8 DEF Goto, TypeOK, Labels, Steps
  <2> QED
    BY <1>7, <2>1, <2>2 DEF UpdateRow
<1>8. CASE DeleteRow(c)
  <2>1. PICK k \in Pks :
          /\ IsNext(scan[c], k)
          /\ op' = [op EXCEPT ![c] = [mode |-> "delete", key |-> scan[c][k].pk,
                                      old |-> scan[c][k], new |-> NoRow]]
          /\ scan' = [scan EXCEPT ![c][k] = NoRow]
          /\ Goto(c, "unindex")
          /\ UNCHANGED <<disk, tx, stmt, rows>>
    BY <1>8 DEF DeleteRow
  <2> DEFINE o == [mode |-> "delete", key |-> scan[c][k].pk, old |-> scan[c][k], new |-> NoRow]
  <2>2. pc[c] = "delete" /\ stmt[c].op = "delete"
    BY <1>8 DEF DeleteRow, TypeOK, StepOK
  <2>3. scan[c][k] \in Row /\ scan[c][k].pk \in Pks
    BY <2>1 DEF TypeOK, Table, IsNext, Row
  <2>4. o \in RowOp /\ o.mode = "delete"
    BY <2>3 DEF RowOp
  <2>5. op' = [op EXCEPT ![c] = o]
    BY <2>1
  <2> HIDE DEF o
  <2>6. Others
    BY <2>1, <2>5 DEF Goto, TypeOK
  <2>7. StepOK(c)'
    BY <2>1, <2>2, <2>4, <2>5 DEF Goto, TypeOK, StepOK, WriteModes
  <2>8. scan' \in [Clients -> Table]
    BY <2>1 DEF TypeOK, Table
  <2> QED
    BY <1>a, <2>1, <2>4, <2>5, <2>6, <2>7, <2>8 DEF Goto, TypeOK, Labels, Steps
<1>9. CASE FinishStatement(c)
  <2>1. Leave(c, "idle") /\ UNCHANGED <<disk, tx>>
    BY <1>9 DEF FinishStatement
  <2> QED
    BY <2>1, LeaveType DEF TypeOK
<1>10. CASE RemoveIndexes(c)
  <2>1. pc[c] = "unindex" /\ Goto(c, "write") /\ UNCHANGED <<data, tx, local>>
    BY <1>10 DEF RemoveIndexes
  <2>2. idx' \subseteq idx
    BY <1>10 DEF RemoveIndexes
  <2>3. Others
    BY <2>1 DEF Goto, TypeOK
  <2>4. StepOK(c)'
    BY <2>1 DEF Goto, TypeOK, StepOK
  <2> QED
    BY <1>a, <2>1, <2>2, <2>3, <2>4 DEF Goto, TypeOK, Labels, Steps
<1>11. CASE WriteRow(c)
  <2>1. /\ pc[c] = "write" /\ data' = [data EXCEPT ![op[c].key] = op[c].new]
        /\ UNCHANGED <<idx, tx, local>>
    BY <1>11 DEF WriteRow
  <2>2. op[c] \in RowOp
    BY <2>1 DEF TypeOK, StepOK
  <2>3. op[c].key \in Pks /\ op[c].new \in Row \cup {NoRow}
    BY <2>2 DEF RowOp
  <2>4. data' \in Table
    BY <2>1, <2>3 DEF TypeOK, Table
  <2>5. CASE op[c].mode \in {"upsert", "delete"}
    <3>1. Goto(c, "record")
      BY <1>11, <2>5 DEF WriteRow
    <3>2. Others
      BY <2>1, <3>1 DEF Goto, TypeOK
    <3>3. StepOK(c)'
      BY <2>1, <2>5, <3>1 DEF Goto, TypeOK, StepOK, WriteModes
    <3> QED
      BY <1>a, <2>1, <2>4, <3>1, <3>2, <3>3 DEF Goto, TypeOK, Labels, Steps
  <2>6. CASE op[c].mode = "undoIns"
    <3>1. Goto(c, "undo")
      BY <1>11, <2>6 DEF WriteRow
    <3>2. Others
      BY <2>1, <3>1 DEF Goto, TypeOK
    <3>3. StepOK(c)'
      BY <2>1, <2>6, <3>1 DEF Goto, TypeOK, StepOK, WriteModes
    <3> QED
      BY <1>a, <2>1, <2>4, <3>1, <3>2, <3>3 DEF Goto, TypeOK, Labels, Steps
  <2>7. CASE op[c].mode \notin {"upsert", "delete", "undoIns"}
    <3>1. Goto(c, "index")
      BY <1>11, <2>7 DEF WriteRow
    <3>2. Others
      BY <2>1, <3>1 DEF Goto, TypeOK
    <3>3. StepOK(c)'
      BY <2>1, <2>7, <3>1 DEF Goto, TypeOK, StepOK
    <3> QED
      BY <1>a, <2>1, <2>4, <3>1, <3>2, <3>3 DEF Goto, TypeOK, Labels, Steps
  <2> QED
    BY <2>5, <2>6, <2>7
<1>12. CASE AddIndexes(c)
  <2>1. /\ pc[c] = "index" /\ idx' = idx \cup Entries(op[c].new)
        /\ UNCHANGED <<data, tx, local>>
    BY <1>12 DEF AddIndexes
  <2>2. op[c] \in RowOp
    BY <2>1 DEF TypeOK, StepOK
  <2>3. Entries(op[c].new) \subseteq (Vals \cup {NULL}) \X Pks
    BY <2>2 DEF RowOp, Entries, Row
  <2>4. idx' \subseteq (Vals \cup {NULL}) \X Pks
    BY <2>1, <2>3 DEF TypeOK
  <2>5. CASE op[c].mode \in WriteModes
    <3>1. Goto(c, "record")
      BY <1>12, <2>5 DEF AddIndexes
    <3>2. Others
      BY <2>1, <3>1 DEF Goto, TypeOK
    <3>3. StepOK(c)'
      BY <2>1, <2>5, <3>1 DEF Goto, TypeOK, StepOK
    <3> QED
      BY <1>a, <2>1, <2>4, <3>1, <3>2, <3>3 DEF Goto, TypeOK, Labels, Steps
  <2>6. CASE op[c].mode \notin WriteModes
    <3>1. Goto(c, "undo")
      BY <1>12, <2>6 DEF AddIndexes
    <3>2. Others
      BY <2>1, <3>1 DEF Goto, TypeOK
    <3>3. StepOK(c)'
      BY <2>1, <2>6, <3>1 DEF Goto, TypeOK, StepOK
    <3> QED
      BY <1>a, <2>1, <2>4, <3>1, <3>2, <3>3 DEF Goto, TypeOK, Labels, Steps
  <2> QED
    BY <2>5, <2>6
<1>13. CASE RecordUndo(c)
  <2>1. /\ pc[c] = "record" /\ op[c] \in RowOp /\ op[c].mode \in WriteModes
        /\ stmt[c].op \in {"insert", "update", "delete"}
        /\ stmt[c].op = "insert" => rows[c] # <<>>
    BY <1>13 DEF RecordUndo, TypeOK, StepOK, WriteModes
  <2>2. EntryOf(op[c]) \in UndoEntry
    BY <2>1, EntryOfType
  <2>3. log' \in Seq(UndoEntry) /\ hist' \in Seq(Table)
    BY <1>13, <2>2, AppendProperties DEF RecordUndo, TypeOK
  <2>4. rows' \in [Clients -> Seq(Given)]
    BY <1>13, <2>1, HeadTailProperties DEF RecordUndo, TypeOK
  <2>5. /\ op' = [op EXCEPT ![c] = NoOp] /\ Goto(c, stmt[c].op)
        /\ UNCHANGED <<disk, active, lock, outcome, stmt, scan>>
    BY <1>13 DEF RecordUndo
  <2>6. Others
    BY <1>13 DEF RecordUndo, Goto, TypeOK
  <2>7. StepOK(c)'
    BY <2>1, <2>5 DEF Goto, TypeOK, StepOK
  <2> QED
    BY <1>a, <2>1, <2>3, <2>4, <2>5, <2>6, <2>7 DEF Goto, TypeOK, Labels, Steps
<1>14. CASE Begin(c)
  <2>1. hist' \in Seq(Table)
    BY <1>14 DEF Begin, TypeOK
  <2>2. Others /\ StepOK(c)'
    BY <1>14, StepFrame DEF Begin, TypeOK
  <2> QED
    BY <1>a, <1>14, <2>1, <2>2 DEF Begin, TypeOK
<1>15. CASE Commit(c)
  <2>1. <<>> \in Seq(UndoEntry) /\ <<>> \in Seq(Table)
    BY EmptySeq
  <2>2. Others /\ StepOK(c)'
    BY <1>15, StepFrame DEF Commit, TypeOK
  <2> QED
    BY <1>a, <1>15, <2>1, <2>2 DEF Commit, TypeOK
<1>16. ASSUME NEW s \in {Rollback, Drop}, StartReplay(c, s)
       PROVE  TypeOK'
  <2>1. s \in Stmt /\ s.op \in {"rollback", "drop"}
    BY DEF Stmt, Rollback, Drop
  <2>2. Others
    BY <1>16 DEF StartReplay, Goto, TypeOK
  <2>3. StepOK(c)'
    BY <1>16, <2>1 DEF StartReplay, Goto, TypeOK, StepOK
  <2> QED
    BY <1>a, <1>16, <2>1, <2>2, <2>3 DEF StartReplay, Goto, TypeOK, Labels, Steps
<1>17. CASE StartRollback(c)
  BY <1>16, <1>17 DEF StartRollback
<1>18. CASE PopUndo(c)
  <2> DEFINE e == log[Len(log)]
  <2>1. log # <<>> /\ e \in UndoEntry /\ log' \in Seq(UndoEntry)
    BY <1>18, DropLastProperties DEF PopUndo, TypeOK
  <2>2. hist' \in Seq(Table)
    <3>1. hist' = DropLast(hist)
      BY <1>18 DEF PopUndo
    <3>2. CASE hist = <<>>
      <4>1. DropLast(hist) = <<>>
        BY <3>2, SubSeqEmpty, EmptySeq DEF DropLast
      <4> QED
        BY <3>1, <4>1, EmptySeq
    <3>3. CASE hist # <<>>
      BY <3>1, <3>3, DropLastProperties DEF TypeOK
    <3> QED
      BY <3>2, <3>3
  <2>3. /\ UndoOp(e) \in RowOp
        /\ UndoOp(e).mode \notin WriteModes
        /\ e.kind = "ins" => UndoOp(e).mode = "undoIns"
        /\ e.kind = "upd" => UndoOp(e).mode = "undoUpd"
        /\ e.kind = "del" => UndoOp(e).mode = "undoDel"
        /\ e.kind \in {"ins", "upd", "del"}
    BY <2>1, UndoOpType DEF UndoEntry
  <2>4. /\ op' = [op EXCEPT ![c] = UndoOp(e)]
        /\ Goto(c, CASE e.kind = "ins" -> "unindex"
                     [] e.kind = "upd" -> "current"
                     [] e.kind = "del" -> "probe")
        /\ stmt[c].op \in {"rollback", "drop"}
        /\ UNCHANGED <<disk, active, lock, outcome, stmt, rows, scan>>
    BY <1>18 DEF PopUndo, TypeOK, StepOK
  <2> HIDE DEF e
  <2>5. pc' \in [Clients -> Labels] /\ pc'[c] \in {"unindex", "current", "probe"}
        /\ (pc'[c] = "current" => e.kind = "upd") /\ (pc'[c] = "probe" => e.kind = "del")
    BY <2>3, <2>4 DEF Goto, TypeOK, Labels, Steps
  <2>6. Others
    BY <2>4 DEF Goto, TypeOK
  <2>7. op'[c] = UndoOp(e) /\ stmt' = stmt
    BY <2>4 DEF TypeOK
  <2>8. StepOK(c)'
    BY <2>3, <2>4, <2>5, <2>7 DEF StepOK
  <2> QED
    BY <1>a, <2>1, <2>2, <2>3, <2>4, <2>5, <2>6, <2>8 DEF TypeOK
<1>19. CASE UndoCurrent(c)
  <2> DEFINE o == [op[c] EXCEPT !.old = data[op[c].key]]
  <2>1. /\ pc[c] = "current" /\ op' = [op EXCEPT ![c] = o]
        /\ Goto(c, "unindex") /\ UNCHANGED <<disk, tx, stmt, rows, scan>>
    BY <1>19 DEF UndoCurrent
  <2>2. op[c] \in RowOp /\ op[c].mode = "undoUpd"
    BY <2>1 DEF TypeOK, StepOK
  <2>3. op[c] \in [mode : {"undoUpd"}, key : Pks, old : Row \cup {NoRow}, new : Row]
    BY <2>2 DEF RowOp
  <2>4. data[op[c].key] \in Row \cup {NoRow}
    BY <2>3 DEF TypeOK, Table
  <2>5. o \in RowOp /\ o.mode = "undoUpd"
    BY <2>3, <2>4 DEF RowOp
  <2> HIDE DEF o
  <2>6. Others
    BY <2>1 DEF Goto, TypeOK
  <2>7. StepOK(c)'
    BY <2>1, <2>2, <2>5 DEF Goto, TypeOK, StepOK, WriteModes
  <2>8. op' \in [Clients -> RowOp \cup {NoOp}] /\ pc' \in [Clients -> Labels]
    BY <2>1, <2>5 DEF Goto, TypeOK, Labels, Steps
  <2> QED
    BY <1>a, <2>1, <2>6, <2>7, <2>8 DEF TypeOK
<1>20. CASE UndoProbe(c)
  <2>1. /\ pc[c] = "probe" /\ op[c].mode = "undoDel"
        /\ UNCHANGED <<disk, tx, local>>
    BY <1>20 DEF UndoProbe
  <2>2. pc' = [pc EXCEPT ![c] = "write"] \/ pc' = [pc EXCEPT ![c] = "undo"]
    BY <1>20 DEF UndoProbe, Goto
  <2>3. Others
    BY <2>1, <2>2 DEF TypeOK
  <2>4. StepOK(c)'
    BY <2>1, <2>2 DEF TypeOK, StepOK, WriteModes
  <2> QED
    BY <1>a, <2>1, <2>2, <2>3, <2>4 DEF TypeOK, Labels, Steps
<1>21. CASE EndReplay(c)
  <2>1. CASE Leave(c, "release")
    BY <1>21, <2>1, LeaveType, EmptySeq DEF EndReplay, TypeOK
  <2>2. CASE Leave(c, "idle")
    BY <1>21, <2>2, LeaveType, EmptySeq DEF EndReplay, TypeOK
  <2> QED
    BY <1>21, <2>1, <2>2 DEF EndReplay
<1>22. ASSUME NEW label \in {"release", "gone"}, Goto(c, label),
              pc[c] \in {"idle", "release"}, UNCHANGED <<disk, tx, local>>
       PROVE  TypeOK'
  <2>1. Others
    BY <1>22 DEF Goto, TypeOK
  <2>2. StepOK(c)'
    BY <1>22 DEF Goto, TypeOK, StepOK
  <2> QED
    BY <1>a, <1>22, <2>1, <2>2 DEF Goto, TypeOK, Labels
<1>23. CASE StartDrop(c)
  BY <1>16, <1>22, <1>23 DEF StartDrop
<1>24. CASE Release(c)
  BY <1>22, <1>24 DEF Release
<1> QED
  BY <1>1, <1>2, <1>3, <1>4, <1>5, <1>6, <1>7, <1>8, <1>9, <1>10, <1>11, <1>12, <1>13,
     <1>14, <1>15, <1>17, <1>18, <1>19, <1>20, <1>21, <1>23, <1>24 DEF Call, Proceed

LEMMA FreshType == ASSUME TypeOK, Fresh PROVE TypeOK'
<1>1. /\ NoStmt \in Stmt /\ EmptyTable \in Table /\ <<>> \in Seq(Given)
      /\ <<>> \in Seq(UndoEntry) /\ <<>> \in Seq(Table)
  BY EmptySeq DEF Stmt, EmptyTable, Table
<1>2. \A c \in Clients : StepOK(c)'
  BY DEF Fresh, StepOK
<1> QED
  BY <1>1, <1>2 DEF Fresh, disk, TypeOK, Labels

LEMMA TypeNext == TypeOK /\ [Next]_vars => TypeOK'
<1> SUFFICES ASSUME TypeOK, [Next]_vars PROVE TypeOK'
  OBVIOUS
<1>1. CASE \E c \in Clients : Call(c) \/ Proceed(c)
  BY <1>1, TypeStep
<1>2. CASE Reopen \/ Crash
  BY <1>2, FreshType DEF Reopen, Crash
<1>3. CASE UNCHANGED vars
  <2>1. \A c \in Clients : StepOK(c)'
    BY <1>3, StepFrame DEF vars, TypeOK
  <2> QED
    BY <1>3, <2>1 DEF vars, TypeOK
<1> QED
  BY <1>1, <1>2, <1>3 DEF Next

(* Every reachable state is well typed, and the step each thread is at     *)
(* fits its statement and its row operation.                               *)
THEOREM TypeCorrect == Spec => []TypeOK
BY TypeInit, TypeNext, PTL DEF Spec

-----------------------------------------------------------------------------
(* The transaction state and its mutex.                                    *)

(* A step that touches neither the transaction state nor who replays.      *)
Quiet == UNCHANGED tx /\ \A d \in Clients : Replaying(d)' = Replaying(d)

(* The statement of one thread changes, and it replays neither before nor  *)
(* after.                                                                  *)
LEMMA QuietStmt ==
  ASSUME TypeOK, NEW c \in Clients, NEW s \in Stmt,
         s.op \notin {"rollback", "drop"}, stmt[c].op \notin {"rollback", "drop"},
         stmt' = [stmt EXCEPT ![c] = s], UNCHANGED tx
  PROVE  Quiet
BY DEF Quiet, Replaying, TypeOK, Rollback, Drop

LEMMA QuietLeave ==
  ASSUME TypeOK, NEW c \in Clients, NEW label, Leave(c, label),
         stmt[c].op \notin {"rollback", "drop"}, UNCHANGED tx
  PROVE  Quiet
BY QuietStmt DEF Leave, NoStmt, Stmt

LEMMA QuietSame ==
  ASSUME UNCHANGED stmt, UNCHANGED tx
  PROVE  Quiet
BY DEF Quiet, Replaying

(* Few actions touch the transaction state.                                *)
LEMMA StepKinds ==
  ASSUME TypeOK, NEW c \in Clients, Call(c) \/ Proceed(c)
  PROVE  \/ Quiet
         \/ Begin(c) \/ Commit(c) \/ RecordUndo(c) \/ PopUndo(c) \/ EndReplay(c)
         \/ StartReplay(c, Rollback) \/ StartReplay(c, Drop)
<1> USE DEF disk, local
<1>1. CASE StartInsert(c) \/ StartUpdate(c) \/ StartDelete(c)
  <2>1. PICK s \in Statements : stmt' = [stmt EXCEPT ![c] = s]
    BY <1>1 DEF StartInsert, StartUpdate, StartDelete
  <2>2. s \in Inserts \cup Updates \cup Deletes
    BY StatementsAssumption
  <2>3. s \in Stmt /\ s.op \notin {"rollback", "drop"}
    BY <2>2 DEF Stmt, Inserts, Updates, Deletes
  <2>4. stmt[c].op \notin {"rollback", "drop"} /\ UNCHANGED tx
    BY <1>1 DEF StartInsert, StartUpdate, StartDelete, Starts, TypeOK, StepOK, NoStmt
  <2> QED
    BY <2>1, <2>3, <2>4, QuietStmt
<1>2. CASE Fail(c) /\ stmt[c].op \notin {"rollback", "drop"}
  BY <1>2, QuietLeave DEF Fail
<1>3. CASE InsertRow(c)
  BY <1>2, <1>3, QuietSame DEF InsertRow, TypeOK, StepOK
<1>4. CASE InsertProbe(c)
  BY <1>2, <1>4, QuietSame DEF InsertProbe, TypeOK, StepOK
<1>5. CASE UpsertFetch(c)
  BY <1>2, <1>5, QuietSame DEF UpsertFetch, TypeOK, StepOK
<1>6. CASE UpdateRow(c)
  BY <1>2, <1>6, QuietSame DEF UpdateRow, TypeOK, StepOK
<1>7. CASE FinishStatement(c)
  BY <1>7, QuietLeave DEF FinishStatement, TypeOK, StepOK
<1>8. CASE \/ DeleteRow(c) \/ RemoveIndexes(c) \/ WriteRow(c) \/ AddIndexes(c)
           \/ UndoCurrent(c) \/ UndoProbe(c) \/ Release(c)
  BY <1>8, QuietSame DEF DeleteRow, RemoveIndexes, WriteRow, AddIndexes, UndoCurrent,
                         UndoProbe, Release
<1>9. CASE StartDrop(c)
  BY <1>9, QuietSame DEF StartDrop
<1>10. CASE StartRollback(c)
  BY <1>10 DEF StartRollback
<1> QED
  BY <1>1, <1>3, <1>4, <1>5, <1>6, <1>7, <1>8, <1>9, <1>10 DEF Call, Proceed

LEMMA ReplayExclusiveNext ==
  TypeOK /\ ReplayExclusive /\ [Next]_vars => ReplayExclusive'
<1> SUFFICES ASSUME TypeOK, ReplayExclusive, [Next]_vars PROVE ReplayExclusive'
  OBVIOUS
<1> USE DEF tx
<1>1. CASE Quiet
  BY <1>1 DEF Quiet, ReplayExclusive, TypeOK
<1>2. ASSUME NEW c \in Clients, Call(c) \/ Proceed(c) PROVE ReplayExclusive'
  <2>1. CASE Begin(c)
    BY <2>1 DEF Begin, ReplayExclusive, Replaying, local, TypeOK
  <2>2. CASE Commit(c)
    BY <2>2, SentinelAssumption DEF Commit, ReplayExclusive, Replaying, local
  <2>3. CASE RecordUndo(c)
    BY <2>3 DEF RecordUndo, ReplayExclusive, Replaying, local
  <2>4. CASE PopUndo(c)
    <3>1. Replaying(c)
      <4>1. stmt[c] \in Stmt /\ stmt[c].op \in {"rollback", "drop"}
        BY <2>4 DEF PopUndo, TypeOK, StepOK
      <4> QED
        BY <4>1 DEF Replaying, Stmt, Inserts, Updates, Deletes, NoStmt, Rollback, Drop
    <3>2. active /\ active'
      BY <2>4, <3>1 DEF PopUndo, ReplayExclusive
    <3> QED
      BY <2>4, <3>2 DEF PopUndo, ReplayExclusive, Replaying
  <2>5. CASE EndReplay(c)
    <3>1. Replaying(c)
      <4>1. stmt[c] \in Stmt /\ stmt[c].op \in {"rollback", "drop"}
        BY <2>5 DEF EndReplay, TypeOK, StepOK
      <4> QED
        BY <4>1 DEF Replaying, Stmt, Inserts, Updates, Deletes, NoStmt, Rollback, Drop
    <3>2. \A d \in Clients : ~ Replaying(d)'
      <4>1. stmt' = [stmt EXCEPT ![c] = NoStmt]
        BY <2>5 DEF EndReplay, Leave
      <4>2. ASSUME NEW d \in Clients, d # c PROVE stmt'[d] = stmt[d] /\ ~Replaying(d)
        BY <3>1, <4>1, <4>2 DEF ReplayExclusive, TypeOK
      <4>3. stmt'[c] = NoStmt
        BY <4>1 DEF TypeOK
      <4> QED
        BY <4>2, <4>3 DEF Replaying, NoStmt, Rollback, Drop
    <3> QED
      BY <2>5, <3>2 DEF EndReplay, ReplayExclusive
  <2>6. ASSUME NEW s \in {Rollback, Drop}, StartReplay(c, s) PROVE ReplayExclusive'
    <3>1. \A d \in Clients : ~Replaying(d)
      BY <2>6, SentinelAssumption DEF StartReplay, ReplayExclusive
    <3>2. \A d \in Clients : d # c => stmt'[d] = stmt[d]
      BY <2>6 DEF StartReplay, TypeOK
    <3>3. stmt'[c] = s /\ lock' = c /\ active /\ active' = active
      BY <2>6 DEF StartReplay, TypeOK
    <3> QED
      BY <3>1, <3>2, <3>3 DEF ReplayExclusive, Replaying
  <2> QED
    BY <1>1, <1>2, <2>1, <2>2, <2>3, <2>4, <2>5, <2>6, StepKinds
<1>3. CASE Reopen \/ Crash
  BY <1>3 DEF Reopen, Crash, Fresh, ReplayExclusive, Replaying, NoStmt, Rollback, Drop
<1>4. CASE UNCHANGED vars
  BY <1>4 DEF vars, ReplayExclusive, Replaying
<1> QED
  BY <1>2, <1>3, <1>4 DEF Next

(* At most one thread replays the undo log, it holds the mutex, and the    *)
(* transaction it replays is open.                                         *)
THEOREM OneReplay == Spec => []ReplayExclusive
<1>1. Init => ReplayExclusive
  BY DEF Init, ReplayExclusive, Replaying, NoStmt, Rollback, Drop
<1> QED
  BY <1>1, TypeCorrect, ReplayExclusiveNext, PTL DEF Spec

(* While a replay runs, no thread adds to the undo log or changes an entry.*)
THEOREM ReplayOnlyShrinks == Spec => ReplayShrinksLog
<1> DEFINE Shrinks == lock # None => /\ Len(log') <= Len(log)
                                     /\ \A i \in 1..Len(log') : log'[i] = log[i]
<1>1. TypeOK /\ ReplayExclusive /\ [Next]_vars => [Shrinks]_vars
  <2> SUFFICES ASSUME TypeOK, ReplayExclusive, Next, lock # None PROVE Shrinks
    BY DEF Shrinks
  <2>1. Len(log) \in Nat
    BY LenProperties DEF TypeOK
  <2>2. CASE log' = log
    BY <2>1, <2>2
  <2>3. CASE log' = <<>>
    BY <2>1, <2>3
  <2>4. ASSUME NEW c \in Clients, PopUndo(c) PROVE Shrinks
    BY <2>1, <2>4, DropLastProperties DEF PopUndo, TypeOK
  <2>5. ASSUME NEW c \in Clients, Call(c) \/ Proceed(c) PROVE Shrinks
    BY <2>2, <2>4, <2>5, StepKinds
       DEF Quiet, tx, Begin, Commit, RecordUndo, EndReplay, StartReplay
  <2> QED
    BY <2>3, <2>5 DEF Next, Reopen, Crash, Fresh
<1> QED
  BY <1>1, TypeCorrect, OneReplay, PTL DEF Spec, ReplayShrinksLog
=============================================================================
