--------------------------- MODULE RollbackProofs ---------------------------
(***************************************************************************)
(* Theorems about Executor that need its statements to be reasonable. Rows *)
(* stay under their own key if DO UPDATE does not assign it, and then, if  *)
(* one client uses the executor alone, ROLLBACK restores the table as it was*)
(* at BEGIN, crashes in between or not. What such a client leaves on disk  *)
(* keeps the constraints, at every moment and through every replay, and    *)
(* between calls the index holds exactly the entries of the rows; DO UPDATE,*)
(* which neither validates nor maintains the index, is left out there.     *)
(***************************************************************************)
EXTENDS ExecutorProofs

-----------------------------------------------------------------------------
(* Rows and their keys.                                                    *)

(* No DO UPDATE clause assigns the primary key.                            *)
KeysKept == \A s \in Statements \cap Inserts : s.conflict = "update" => s.set.pk = None

Keyed(t)  == \A k \in Pks : t[k] # NoRow => t[k].pk = k
OpKeyed(o) == /\ o.old # NoRow => o.old.pk = o.key
              /\ o.new # NoRow => o.new.pk = o.key

ThreadKeyed(c) ==
  /\ Keyed(scan[c])
  /\ op[c] \in RowOp => OpKeyed(op[c])
  /\ stmt[c] \in Statements \cup {NoStmt, Rollback, Drop}

KeyInv == KeyMatches /\ \A c \in Clients : ThreadKeyed(c)

LEMMA KeyedEmpty == Keyed(EmptyTable)
BY DEF Keyed, EmptyTable

LEMMA NoOpIsNoRowOp == NoOp \notin RowOp
BY DEF NoOp, RowOp

(* A thread that leaves its statement holds no row.                        *)
LEMMA LeaveKeyed ==
  ASSUME TypeOK, NEW c \in Clients, NEW label, Leave(c, label)
  PROVE  ThreadKeyed(c)'
BY KeyedEmpty, NoOpIsNoRowOp DEF Leave, ThreadKeyed, TypeOK, Keyed, EmptyTable

(* The row of an undo entry is stored under its key.                       *)
LEMMA EntryKeyed ==
  ASSUME NEW o \in RowOp, o.mode \in WriteModes, OpKeyed(o)
  PROVE  EntryOf(o).row.pk = EntryOf(o).key
<1>1. CASE o.mode = "insert"
  <2>1. o.new \in Row
    BY <1>1 DEF RowOp
  <2> QED
    BY <1>1, <2>1, SentinelAssumption DEF OpKeyed, EntryOf
<1>2. CASE o.mode # "insert"
  <2>1. o.old \in Row
    BY <1>2 DEF RowOp, WriteModes
  <2> QED
    BY <1>2, <2>1, SentinelAssumption DEF OpKeyed, EntryOf
<1> QED
  BY <1>1, <1>2

LEMMA UndoOpKeyed ==
  ASSUME NEW e \in UndoEntry, e.row.pk = e.key
  PROVE  OpKeyed(UndoOp(e))
BY DEF UndoOp, UndoEntry, OpKeyed

LEMMA KeyStep ==
  ASSUME TypeOK, KeyInv, KeysKept, NEW c \in Clients, Call(c) \/ Proceed(c)
  PROVE  KeyInv'
<1> USE DEF disk, tx, local
<1> DEFINE Others == \A d \in Clients \ {c} :
              scan'[d] = scan[d] /\ op'[d] = op[d] /\ stmt'[d] = stmt[d]
<1>a. ASSUME Others, ThreadKeyed(c)'
      PROVE  \A d \in Clients : ThreadKeyed(d)'
  <2>1. ASSUME NEW d \in Clients \ {c} PROVE ThreadKeyed(d)'
    BY <1>a, <2>1 DEF KeyInv, ThreadKeyed, Keyed, OpKeyed
  <2> QED
    BY <1>a, <2>1
<1>b. ASSUME UNCHANGED <<data, log>>, Others, ThreadKeyed(c)' PROVE KeyInv'
  BY <1>a, <1>b DEF KeyInv, KeyMatches
<1>c. ASSUME UNCHANGED <<data, log, scan, op, stmt>> PROVE KeyInv'
  BY <1>c DEF KeyInv, KeyMatches, ThreadKeyed, Keyed, OpKeyed
<1>d. ASSUME NEW label, Leave(c, label), UNCHANGED <<data, log>> PROVE KeyInv'
  <2>1. Others
    BY <1>d DEF Leave, TypeOK
  <2> QED
    BY <1>b, <1>d, <2>1, LeaveKeyed
<1>1. CASE Fail(c)
  BY <1>1, <1>d DEF Fail
<1>2. CASE StartInsert(c)
  <2>1. PICK s \in Statements : stmt' = [stmt EXCEPT ![c] = s]
    BY <1>2 DEF StartInsert
  <2>2. UNCHANGED <<data, log, scan, op>>
    BY <1>2 DEF StartInsert
  <2>3. Others /\ ThreadKeyed(c)'
    BY <2>1, <2>2 DEF TypeOK, KeyInv, ThreadKeyed, Keyed, OpKeyed
  <2> QED
    BY <1>b, <2>2, <2>3
<1>3. CASE StartUpdate(c) \/ StartDelete(c)
  <2>1. PICK s \in Statements : /\ stmt' = [stmt EXCEPT ![c] = s]
                                /\ scan' = [scan EXCEPT ![c] = Matching(s.where)]
    BY <1>3 DEF StartUpdate, StartDelete
  <2>2. UNCHANGED <<data, log, op>>
    BY <1>3 DEF StartUpdate, StartDelete
  <2>3. Keyed(Matching(s.where))
    BY DEF Keyed, Matching, KeyInv, KeyMatches
  <2>4. Others /\ scan'[c] = Matching(s.where) /\ stmt'[c] = s
    BY <2>1, <2>2 DEF TypeOK
  <2>5. ThreadKeyed(c)'
    BY <2>2, <2>3, <2>4 DEF KeyInv, ThreadKeyed, Keyed, OpKeyed
  <2> QED
    BY <1>b, <2>2, <2>4, <2>5
<1>4. ASSUME NEW o, op' = [op EXCEPT ![c] = o], o \in RowOp => OpKeyed(o),
             UNCHANGED <<data, log, stmt>>, scan'[c] \in {scan[c], [scan[c] EXCEPT ![o.key] = NoRow]},
             \A d \in Clients \ {c} : scan'[d] = scan[d]
      PROVE  KeyInv'
  <2>1. Others /\ op'[c] = o
    BY <1>4 DEF TypeOK
  <2>2. Keyed(scan[c]) /\ scan[c] \in Table
    BY DEF KeyInv, ThreadKeyed, TypeOK
  <2>3. \A k \in Pks : scan'[c][k] # NoRow => scan'[c][k] = scan[c][k]
    BY <1>4, <2>2 DEF Table
  <2>4. ThreadKeyed(c)'
    BY <1>4, <2>1, <2>2, <2>3 DEF ThreadKeyed, KeyInv, Keyed, OpKeyed
  <2> QED
    BY <1>b, <1>4, <2>1, <2>4
<1>5. CASE InsertRow(c)
  <2> DEFINE r == Head(rows[c]).row
             o == [mode |-> "insert", key |-> r.pk, old |-> NoRow, new |-> r]
  <2>1. CASE op' = [op EXCEPT ![c] = o] /\ UNCHANGED <<data, log, stmt, rows, scan>>
    <3>1. OpKeyed(o)
      BY DEF OpKeyed
    <3> HIDE DEF o
    <3> QED
      BY <1>4, <2>1, <3>1
  <2> QED
    BY <1>1, <1>5, <1>c, <2>1 DEF InsertRow
<1>6. CASE InsertProbe(c)
  BY <1>1, <1>4, <1>6, <1>c, NoOpIsNoRowOp DEF InsertProbe
<1>7. CASE UpsertFetch(c)
  <2> DEFINE k == Head(rows[c]).key
             o == [mode |-> "upsert", key |-> k, old |-> data[k],
                   new |-> Assigned(data[k], stmt[c].set)]
  <2>1. CASE /\ k \in StoredKeys /\ op' = [op EXCEPT ![c] = o]
             /\ UNCHANGED <<data, log, stmt, rows, scan>>
    <3>1. pc[c] = "fetch" /\ stmt[c].op = "insert" /\ stmt[c].conflict = "update" /\ op[c] \in RowOp
      BY <1>7 DEF UpsertFetch, TypeOK, StepOK
    <3>2. stmt[c] \in Statements \cap Inserts
      BY <3>1, StatementsAssumption
         DEF KeyInv, ThreadKeyed, NoStmt, Rollback, Drop, Inserts, Updates, Deletes
    <3>3. k \in Pks /\ data[k] # NoRow
      BY <2>1 DEF StoredKeys
    <3>4. data[k].pk = k
      BY <2>1, <3>3 DEF KeyInv, KeyMatches
    <3>5. OpKeyed(o)
      BY <3>1, <3>2, <3>4 DEF OpKeyed, Assigned, KeysKept
    <3> HIDE DEF o
    <3> QED
      BY <1>4, <2>1, <3>5
  <2> QED
    BY <1>1, <1>7, <2>1 DEF UpsertFetch
<1>8. ASSUME NEW k \in Pks, scan[c][k] # NoRow, NEW o, op' = [op EXCEPT ![c] = o],
             o.key = scan[c][k].pk, o.old = scan[c][k],
             o.new # NoRow => o.new.pk = scan[c][k].pk,
             scan' = [scan EXCEPT ![c][k] = NoRow], UNCHANGED <<data, log, stmt>>
      PROVE  KeyInv'
  <2>1. scan[c][k].pk = k
    BY <1>8 DEF KeyInv, ThreadKeyed, Keyed
  <2>2. OpKeyed(o)
    BY <1>8 DEF OpKeyed
  <2>3. scan'[c] = [scan[c] EXCEPT ![o.key] = NoRow]
        /\ \A d \in Clients \ {c} : scan'[d] = scan[d]
    BY <1>8, <2>1 DEF TypeOK
  <2> QED
    BY <1>4, <1>8, <2>2, <2>3
<1>9. CASE UpdateRow(c)
  <2>1. ASSUME NEW k \in Pks, IsNext(scan[c], k),
               ~Refused(stmt[c].set, scan[c][k], Assigned(scan[c][k], stmt[c].set)),
               op' = [op EXCEPT ![c] = [mode |-> "update", key |-> scan[c][k].pk,
                        old |-> scan[c][k], new |-> Assigned(scan[c][k], stmt[c].set)]],
               scan' = [scan EXCEPT ![c][k] = NoRow],
               UNCHANGED <<data, log, stmt>>
        PROVE  KeyInv'
    <3> DEFINE o == [mode |-> "update", key |-> scan[c][k].pk, old |-> scan[c][k],
                     new |-> Assigned(scan[c][k], stmt[c].set)]
    <3>1. o.key = scan[c][k].pk /\ o.old = scan[c][k] /\ op' = [op EXCEPT ![c] = o]
      BY <2>1
    <3>2. o.new.pk = scan[c][k].pk
      BY <2>1 DEF Refused, Assigned
    <3>3. scan[c][k] # NoRow
      BY <2>1 DEF IsNext
    <3> HIDE DEF o
    <3> QED
      BY <1>8, <2>1, <3>1, <3>2, <3>3
  <2> QED
    BY <1>1, <1>9, <2>1 DEF UpdateRow
<1>10. CASE DeleteRow(c)
  <2>1. PICK k \in Pks :
          /\ IsNext(scan[c], k)
          /\ op' = [op EXCEPT ![c] = [mode |-> "delete", key |-> scan[c][k].pk,
                                      old |-> scan[c][k], new |-> NoRow]]
          /\ scan' = [scan EXCEPT ![c][k] = NoRow]
          /\ UNCHANGED <<data, log, stmt>>
    BY <1>10 DEF DeleteRow
  <2> DEFINE o == [mode |-> "delete", key |-> scan[c][k].pk, old |-> scan[c][k], new |-> NoRow]
  <2>2. o.key = scan[c][k].pk /\ o.old = scan[c][k] /\ o.new = NoRow
        /\ op' = [op EXCEPT ![c] = o]
    BY <2>1
  <2>3. scan[c][k] # NoRow
    BY <2>1 DEF IsNext
  <2> HIDE DEF o
  <2> QED
    BY <1>8, <2>1, <2>2, <2>3
<1>11. CASE FinishStatement(c)
  BY <1>11, <1>d DEF FinishStatement
<1>12. CASE \/ RemoveIndexes(c) \/ AddIndexes(c) \/ UndoProbe(c) \/ Release(c) \/ Begin(c)
  BY <1>12, <1>c DEF RemoveIndexes, AddIndexes, UndoProbe, Release, Begin
<1>13. CASE WriteRow(c)
  <2>1. pc[c] = "write" /\ data' = [data EXCEPT ![op[c].key] = op[c].new]
        /\ UNCHANGED <<log, scan, op, stmt>>
    BY <1>13 DEF WriteRow
  <2>2. op[c] \in RowOp
    BY <2>1 DEF TypeOK, StepOK
  <2>3. op[c].new # NoRow => op[c].new.pk = op[c].key
    BY <2>2 DEF KeyInv, ThreadKeyed, OpKeyed
  <2>4. KeyMatches'
    BY <2>1, <2>3 DEF KeyInv, KeyMatches, TypeOK, Table
  <2> QED
    BY <2>1, <2>4 DEF KeyInv, ThreadKeyed, Keyed, OpKeyed
<1>14. CASE RecordUndo(c)
  <2>1. /\ pc[c] = "record" /\ op' = [op EXCEPT ![c] = NoOp]
        /\ log' = IF active THEN Append(log, EntryOf(op[c])) ELSE log
        /\ UNCHANGED <<data, stmt, scan>>
    BY <1>14 DEF RecordUndo
  <2>2. op[c] \in RowOp /\ op[c].mode \in WriteModes /\ OpKeyed(op[c])
    BY <2>1 DEF TypeOK, StepOK, KeyInv, ThreadKeyed
  <2> DEFINE e == EntryOf(op[c])
  <2>3. e \in UndoEntry /\ e.row.pk = e.key
    BY <2>2, EntryOfType, EntryKeyed
  <2> HIDE DEF e
  <2>4. \A i \in 1..Len(log') : log'[i].row.pk = log'[i].key
    <3>1. CASE ~active
      BY <2>1, <3>1 DEF KeyInv, KeyMatches
    <3>2. CASE active
      <4>1. log' = Append(log, e) /\ log \in Seq(UndoEntry)
        BY <2>1, <3>2 DEF TypeOK, e
      <4>2. Len(log) \in Nat /\ Len(log') = Len(log) + 1
            /\ (\A i \in 1..Len(log) : log'[i] = log[i]) /\ log'[Len(log) + 1] = e
        BY <2>3, <4>1, AppendProperties, LenProperties
      <4> QED
        BY <2>3, <4>2 DEF KeyInv, KeyMatches
    <3> QED
      BY <3>1, <3>2
  <2>5. \A d \in Clients : ThreadKeyed(d)'
    <3>1. Others /\ op'[c] = NoOp
      BY <2>1 DEF TypeOK
    <3>2. ThreadKeyed(c)'
      BY <2>1, <3>1, NoOpIsNoRowOp DEF KeyInv, ThreadKeyed, Keyed
    <3> QED
      BY <1>a, <3>1, <3>2
  <2> QED
    BY <2>1, <2>4, <2>5 DEF KeyInv, KeyMatches
<1>15. CASE Commit(c)
  <2>1. log' = <<>> /\ UNCHANGED <<data, scan, op, stmt>>
    BY <1>15 DEF Commit
  <2> QED
    BY <2>1 DEF KeyInv, KeyMatches, ThreadKeyed, Keyed, OpKeyed
<1>16. ASSUME NEW s \in {Rollback, Drop}, StartReplay(c, s) PROVE KeyInv'
  <2>1. stmt' = [stmt EXCEPT ![c] = s] /\ UNCHANGED <<data, log, scan, op>>
    BY <1>16 DEF StartReplay
  <2>2. Others /\ ThreadKeyed(c)'
    BY <2>1 DEF TypeOK, KeyInv, ThreadKeyed, Keyed, OpKeyed
  <2> QED
    BY <1>b, <2>1, <2>2
<1>17. CASE StartRollback(c)
  BY <1>16, <1>17 DEF StartRollback
<1>18. CASE StartDrop(c)
  BY <1>16, <1>18, <1>c DEF StartDrop
<1>19. CASE PopUndo(c)
  <2> DEFINE e == log[Len(log)]
  <2>1. /\ log # <<>> /\ log' = DropLast(log) /\ op' = [op EXCEPT ![c] = UndoOp(e)]
        /\ UNCHANGED <<data, stmt, scan>>
    BY <1>19 DEF PopUndo
  <2>2. /\ e \in UndoEntry /\ Len(log') = Len(log) - 1
        /\ \A i \in 1..(Len(log) - 1) : log'[i] = log[i]
    BY <2>1, DropLastProperties DEF TypeOK
  <2>3. Len(log) \in Nat \ {0}
    BY <2>1, LenProperties, EmptySeq DEF TypeOK
  <2>4. e.row.pk = e.key
    BY <2>3 DEF KeyInv, KeyMatches
  <2>5. OpKeyed(UndoOp(e))
    BY <2>2, <2>4, UndoOpKeyed
  <2>6. Others /\ op'[c] = UndoOp(e)
    BY <2>1 DEF TypeOK
  <2>7. ThreadKeyed(c)'
    BY <2>1, <2>5, <2>6 DEF KeyInv, ThreadKeyed, Keyed, OpKeyed
  <2>8. KeyMatches'
    BY <2>1, <2>2, <2>3 DEF KeyInv, KeyMatches
  <2> QED
    BY <1>a, <2>6, <2>7, <2>8 DEF KeyInv
<1>20. CASE UndoCurrent(c)
  <2> DEFINE o == [op[c] EXCEPT !.old = data[op[c].key]]
  <2>1. pc[c] = "current" /\ op' = [op EXCEPT ![c] = o] /\ UNCHANGED <<data, log, stmt, scan>>
    BY <1>20 DEF UndoCurrent
  <2>2. op[c] \in [mode : {"undoUpd"}, key : Pks, old : Row \cup {NoRow}, new : Row]
    BY <2>1 DEF TypeOK, StepOK, RowOp
  <2>3. OpKeyed(op[c])
    BY <2>1 DEF TypeOK, StepOK, KeyInv, ThreadKeyed
  <2>4. OpKeyed(o)
    BY <2>2, <2>3 DEF OpKeyed, KeyInv, KeyMatches
  <2> HIDE DEF o
  <2> QED
    BY <1>4, <2>1, <2>4
<1>21. CASE EndReplay(c)
  BY <1>21, <1>d DEF EndReplay
<1> QED
  BY <1>2, <1>3, <1>5, <1>6, <1>7, <1>9, <1>10, <1>11, <1>12, <1>13, <1>14, <1>15, <1>17,
     <1>18, <1>19, <1>20, <1>21 DEF Call, Proceed

LEMMA KeyNext == KeysKept /\ TypeOK /\ KeyInv /\ [Next]_vars => KeyInv'
<1> SUFFICES ASSUME KeysKept, TypeOK, KeyInv, [Next]_vars PROVE KeyInv'
  OBVIOUS
<1>1. CASE \E c \in Clients : Call(c) \/ Proceed(c)
  BY <1>1, KeyStep
<1>2. CASE Reopen \/ Crash
  <2>1. data' = data /\ log' = <<>>
    BY <1>2 DEF Reopen, Crash, Fresh, disk
  <2>2. \A c \in Clients : ThreadKeyed(c)'
    BY <1>2, KeyedEmpty, NoOpIsNoRowOp
       DEF Reopen, Crash, Fresh, ThreadKeyed, Keyed, EmptyTable
  <2> QED
    BY <2>1, <2>2 DEF KeyInv, KeyMatches
<1>3. CASE UNCHANGED vars
  BY <1>3 DEF vars, KeyInv, KeyMatches, ThreadKeyed, Keyed, OpKeyed
<1> QED
  BY <1>1, <1>2, <1>3 DEF Next

(* Every row is under its own key, in the table and in the undo log, as    *)
(* long as no DO UPDATE assigns the primary key.                           *)
THEOREM KeysMatch == ASSUME KeysKept PROVE Spec => []KeyMatches
<1>1. Init => KeyInv
  BY KeyedEmpty, NoOpIsNoRowOp DEF Init, KeyInv, KeyMatches, ThreadKeyed, Keyed, EmptyTable
<1>2. TypeOK /\ KeyInv /\ [Next]_vars => KeyInv'
  BY KeyNext
<1>3. KeyInv => KeyMatches
  BY DEF KeyInv
<1> QED
  BY <1>1, <1>2, <1>3, TypeCorrect, PTL DEF Spec

-----------------------------------------------------------------------------
(* One client: the undo log leads back to BEGIN.                           *)

InOp(c)  == pc[c] \in {"probe", "fetch", "unindex", "write", "index", "record", "current"}
Write(c) == InOp(c) /\ op[c].mode \in WriteModes
Undo(c)  == InOp(c) /\ op[c].mode \notin WriteModes

(* The write is on disk and not yet in the log; the undo entry has left    *)
(* the log and is not yet undone on disk.                                  *)
Unlogged(c)  == Write(c) /\ pc[c] \in {"index", "record"}
Unwritten(c) == Undo(c) /\ pc[c] # "index"

(* The table the log accounts for.                                         *)
Top(c) ==
  IF Unlogged(c) THEN [data EXCEPT ![op[c].key] = op[c].old]
  ELSE IF Unwritten(c) THEN [data EXCEPT ![op[c].key] = op[c].new]
  ELSE data

(* Scanned rows are those of the table: nobody else writes.                *)
ScanFresh(c) ==
  /\ \A k \in Pks : scan[c][k] # NoRow => scan[c][k] = data[k]
  /\ stmt[c].op \notin {"update", "delete"} => scan[c] = EmptyTable
  /\ InOp(c) => scan[c][op[c].key] = NoRow

(* So is the row an operation replaces.                                    *)
OpFresh(c) ==
  /\ Write(c) /\ pc[c] \in {"unindex", "write"} => data[op[c].key] = op[c].old
  /\ Unlogged(c) => data[op[c].key] = op[c].new
  /\ InOp(c) /\ op[c].mode = "undoDel" /\ pc[c] # "index" => data[op[c].key] = NoRow

UndoInv(c) ==
  /\ UndoChain
  /\ active => hist[Len(hist)] = Top(c)
  /\ ScanFresh(c)
  /\ OpFresh(c)

(* Undoing an entry of a write gives back what was there before it.        *)
LEMMA EntryUndoes ==
  ASSUME NEW o \in RowOp, o.mode \in WriteModes, NEW t \in Table, t[o.key] = o.new
  PROVE  Undoes(EntryOf(o), [t EXCEPT ![o.key] = o.old], t)
<1>1. CASE o.mode = "insert"
  BY <1>1 DEF RowOp, EntryOf, Undoes, Undone
<1>2. CASE o.mode = "delete"
  BY <1>2 DEF RowOp, EntryOf, Undoes, Undone
<1>3. CASE o.mode \in {"upsert", "update"}
  BY <1>3 DEF RowOp, EntryOf, Undoes, Undone
<1> QED
  BY <1>1, <1>2, <1>3 DEF WriteModes

LEMMA UndoStep ==
  ASSUME TypeOK, ReplayExclusive, KeyInv, NEW c \in Clients, UndoInv(c),
         Clients = {c}, Call(c) \/ Proceed(c)
  PROVE  UndoInv(c)'
<1> USE DEF disk, tx, local
<1>a. ASSUME UNCHANGED <<active, log, hist>>, Top(c)' = Top(c), ScanFresh(c)', OpFresh(c)'
      PROVE  UndoInv(c)'
  BY <1>a DEF UndoInv, UndoChain
<1>b. ASSUME NEW label \in {"idle", "release"}, Leave(c, label), data' = data
      PROVE  ScanFresh(c)' /\ OpFresh(c)' /\ Top(c)' = data
  BY <1>b DEF Leave, Goto, TypeOK, ScanFresh, OpFresh, InOp, Write, Undo, Unlogged,
              Unwritten, Top, NoStmt, EmptyTable
<1>c. ASSUME ~InOp(c) PROVE Top(c) = data
  BY <1>c DEF Top, Unlogged, Unwritten, Write, Undo
<1>1. ASSUME Fail(c), pc[c] \in {"insert", "update"} \/ (InOp(c) /\ op[c].mode = "insert"
                                  /\ pc[c] \in {"probe", "fetch"})
      PROVE  UndoInv(c)'
  <2>1. Top(c) = data
    BY <1>1 DEF Top, InOp, Unlogged, Unwritten, Write, Undo, WriteModes
  <2> QED
    BY <1>1, <1>a, <1>b, <2>1 DEF Fail
<1>2. CASE StartInsert(c)
  <2>1. PICK s \in Statements \cap Inserts : stmt' = [stmt EXCEPT ![c] = s]
    BY <1>2 DEF StartInsert
  <2>2. /\ pc[c] = "idle" /\ pc' = [pc EXCEPT ![c] = "insert"]
        /\ UNCHANGED <<data, active, log, hist, scan, op>>
    BY <1>2 DEF StartInsert, Starts, Goto
  <2>3. stmt[c].op = "none" /\ scan[c] = EmptyTable
    BY <2>2 DEF TypeOK, StepOK, NoStmt, UndoInv, ScanFresh
  <2>4. ScanFresh(c)' /\ OpFresh(c)' /\ Top(c) = data /\ Top(c)' = data
    BY <2>2, <2>3 DEF TypeOK, ScanFresh, OpFresh, InOp, Write, Undo, Unlogged, Unwritten,
                      Top, EmptyTable
  <2> QED
    BY <1>a, <2>2, <2>4
<1>3. CASE StartUpdate(c) \/ StartDelete(c)
  <2>1. PICK s \in Statements \cap (Updates \cup Deletes) :
               /\ stmt' = [stmt EXCEPT ![c] = s]
               /\ scan' = [scan EXCEPT ![c] = Matching(s.where)]
    BY <1>3 DEF StartUpdate, StartDelete
  <2>2. /\ pc[c] = "idle" /\ pc'[c] \in {"update", "delete"}
        /\ UNCHANGED <<data, active, log, hist, op>>
    BY <1>3 DEF StartUpdate, StartDelete, Starts, Goto, TypeOK
  <2>3. stmt'[c] = s /\ s.op \in {"update", "delete"} /\ scan'[c] = Matching(s.where)
    BY <2>1 DEF TypeOK, Updates, Deletes
  <2>4. ScanFresh(c)' /\ OpFresh(c)' /\ Top(c) = data /\ Top(c)' = data
    BY <2>2, <2>3 DEF ScanFresh, OpFresh, InOp, Write, Undo, Unlogged, Unwritten,
                      Top, Matching
  <2> QED
    BY <1>a, <2>2, <2>4
<1>4. CASE InsertRow(c)
  <2> DEFINE r == Head(rows[c]).row
             o == [mode |-> "insert", key |-> r.pk, old |-> NoRow, new |-> r]
  <2>1. pc[c] = "insert" /\ stmt[c].op = "insert" /\ scan[c] = EmptyTable /\ r \in Row
    <3>1. Head(rows[c]) \in Given
      BY <1>4, HeadTailProperties DEF InsertRow, TypeOK
    <3> QED
      BY <1>4, <3>1 DEF InsertRow, TypeOK, StepOK, UndoInv, ScanFresh, Given
  <2>2. CASE NextValues(c) /\ UNCHANGED <<disk, tx, stmt, scan, op>>
    <3>1. pc'[c] = "insert"
      BY <2>2 DEF NextValues, Goto, TypeOK
    <3>2. ScanFresh(c)' /\ OpFresh(c)' /\ Top(c) = data /\ Top(c)' = data
      BY <2>1, <2>2, <3>1 DEF ScanFresh, OpFresh, InOp, Write, Undo, Unlogged, Unwritten,
                              Top, EmptyTable
    <3> QED
      BY <1>a, <2>2, <3>2
  <2>3. CASE op' = [op EXCEPT ![c] = o] /\ Goto(c, "probe") /\ UNCHANGED <<disk, tx, stmt, scan>>
    <3>1. op'[c].mode = "insert" /\ op'[c].key \in Pks /\ pc'[c] = "probe"
      BY <2>1, <2>3 DEF Goto, TypeOK, Row
    <3>2. ScanFresh(c)' /\ OpFresh(c)' /\ Top(c) = data /\ Top(c)' = data
      BY <2>1, <2>3, <3>1 DEF ScanFresh, OpFresh, InOp, Write, Undo, Unlogged, Unwritten,
                              Top, EmptyTable, WriteModes
    <3> QED
      BY <1>a, <2>3, <3>2
  <2> QED
    BY <1>1, <1>4, <2>1, <2>2, <2>3 DEF InsertRow
<1>5. CASE InsertProbe(c)
  <2>1. /\ pc[c] = "probe" /\ op[c].mode = "insert" /\ op[c] \in RowOp
        /\ scan[c] = EmptyTable /\ stmt[c].op = "insert"
    BY <1>5 DEF InsertProbe, TypeOK, StepOK, UndoInv, ScanFresh
  <2>2. op[c].old = NoRow /\ op[c].key \in Pks
    BY <2>1 DEF RowOp
  <2>3. Top(c) = data
    BY <2>1 DEF Top, Unlogged, Unwritten, Write, Undo, WriteModes
  <2>4. CASE data[op[c].key] = NoRow /\ Goto(c, "write") /\ UNCHANGED <<disk, tx, local>>
    <3>1. pc'[c] = "write"
      BY <2>4 DEF Goto, TypeOK
    <3>2. ScanFresh(c)' /\ OpFresh(c)' /\ Top(c)' = data
      BY <2>1, <2>2, <2>4, <3>1 DEF ScanFresh, OpFresh, InOp, Write, Undo, Unlogged,
                                    Unwritten, Top, EmptyTable, WriteModes
    <3> QED
      BY <1>a, <2>3, <2>4, <3>2
  <2>5. CASE Goto(c, "fetch") /\ UNCHANGED <<disk, tx, local>>
    <3>1. pc'[c] = "fetch"
      BY <2>5 DEF Goto, TypeOK
    <3>2. ScanFresh(c)' /\ OpFresh(c)' /\ Top(c)' = data
      BY <2>1, <2>2, <2>5, <3>1 DEF ScanFresh, OpFresh, InOp, Write, Undo, Unlogged,
                                    Unwritten, Top, EmptyTable, WriteModes
    <3> QED
      BY <1>a, <2>3, <2>5, <3>2
  <2>6. CASE NextValues(c) /\ UNCHANGED <<disk, tx, stmt, scan>>
    <3>1. pc'[c] = "insert"
      BY <2>6 DEF NextValues, Goto, TypeOK
    <3>2. ScanFresh(c)' /\ OpFresh(c)' /\ Top(c)' = data
      BY <2>1, <2>6, <3>1 DEF ScanFresh, OpFresh, InOp, Write, Undo, Unlogged,
                              Unwritten, Top, EmptyTable
    <3> QED
      BY <1>a, <2>3, <2>6, <3>2
  <2> QED
    BY <1>1, <1>5, <2>1, <2>4, <2>5, <2>6 DEF InsertProbe, InOp
<1>6. CASE UpsertFetch(c)
  <2> DEFINE k == Head(rows[c]).key
             o == [mode |-> "upsert", key |-> k, old |-> data[k],
                   new |-> Assigned(data[k], stmt[c].set)]
  <2>1. /\ pc[c] = "fetch" /\ op[c].mode = "insert" /\ op[c] \in RowOp
        /\ scan[c] = EmptyTable /\ stmt[c].op = "insert"
    BY <1>6 DEF UpsertFetch, TypeOK, StepOK, UndoInv, ScanFresh
  <2>2. Top(c) = data
    BY <2>1 DEF Top, Unlogged, Unwritten, Write, Undo, WriteModes, RowOp
  <2>3. CASE /\ k \in StoredKeys /\ op' = [op EXCEPT ![c] = o] /\ Goto(c, "write")
             /\ UNCHANGED <<disk, tx, stmt, scan>>
    <3>0. k \in Pks
      BY <2>3 DEF StoredKeys
    <3>1. /\ op'[c].mode = "upsert" /\ op'[c].key = k /\ op'[c].old = data[k]
          /\ pc'[c] = "write"
      BY <2>3 DEF Goto, TypeOK
    <3>2. ScanFresh(c)' /\ OpFresh(c)' /\ Top(c)' = data
      BY <2>1, <2>2, <2>3, <3>0, <3>1 DEF ScanFresh, OpFresh, InOp, Write, Undo, Unlogged,
                                         Unwritten, Top, EmptyTable, WriteModes
    <3> QED
      BY <1>a, <2>2, <2>3, <3>2
  <2> QED
    BY <1>1, <1>6, <2>1, <2>3 DEF UpsertFetch, InOp
<1>7. ASSUME NEW k \in Pks, scan[c][k] # NoRow, pc[c] \in {"update", "delete"},
             op'[c].mode \in {"update", "delete"}, op'[c].key = scan[c][k].pk,
             op'[c].old = scan[c][k], pc'[c] = "unindex",
             scan' = [scan EXCEPT ![c][k] = NoRow],
             UNCHANGED <<data, active, log, hist, stmt>>
      PROVE  UndoInv(c)'
  <2>1. op'[c].key = k /\ data[k] = op'[c].old
    BY <1>7 DEF KeyInv, ThreadKeyed, Keyed, UndoInv, ScanFresh
  <2>2. scan[c] \in Table /\ scan'[c] = [scan[c] EXCEPT ![k] = NoRow]
    BY <1>7 DEF TypeOK
  <2>3. stmt[c].op \in {"update", "delete"}
    BY <1>7 DEF TypeOK, StepOK
  <2>4. ScanFresh(c)'
    BY <1>7, <2>1, <2>2, <2>3 DEF UndoInv, ScanFresh, Table
  <2>5. OpFresh(c)' /\ Top(c)' = data /\ Top(c) = data
    BY <1>7, <2>1, <2>2 DEF OpFresh, InOp, Write, Undo, Unlogged, Unwritten, Top, WriteModes
  <2> QED
    BY <1>7, <1>a, <2>4, <2>5
<1>8. CASE UpdateRow(c)
  <2>1. ASSUME NEW k \in Pks, IsNext(scan[c], k),
               op' = [op EXCEPT ![c] = [mode |-> "update", key |-> scan[c][k].pk,
                        old |-> scan[c][k], new |-> Assigned(scan[c][k], stmt[c].set)]],
               scan' = [scan EXCEPT ![c][k] = NoRow], Goto(c, "unindex"),
               UNCHANGED <<data, active, log, hist, stmt>>
        PROVE  UndoInv(c)'
    <3>1. /\ op'[c].mode = "update" /\ op'[c].key = scan[c][k].pk /\ op'[c].old = scan[c][k]
          /\ pc'[c] = "unindex"
      BY <2>1 DEF Goto, TypeOK
    <3>2. scan[c][k] # NoRow /\ pc[c] = "update"
      BY <1>8, <2>1 DEF IsNext, UpdateRow
    <3> QED
      BY <1>7, <2>1, <3>1, <3>2
  <2> QED
    BY <1>1, <1>8, <2>1 DEF UpdateRow
<1>9. CASE DeleteRow(c)
  <2>1. PICK k \in Pks :
          /\ IsNext(scan[c], k)
          /\ op' = [op EXCEPT ![c] = [mode |-> "delete", key |-> scan[c][k].pk,
                                      old |-> scan[c][k], new |-> NoRow]]
          /\ scan' = [scan EXCEPT ![c][k] = NoRow]
          /\ Goto(c, "unindex")
          /\ UNCHANGED <<data, active, log, hist, stmt>>
    BY <1>9 DEF DeleteRow
  <2>2. /\ op'[c].mode = "delete" /\ op'[c].key = scan[c][k].pk /\ op'[c].old = scan[c][k]
        /\ pc'[c] = "unindex"
    BY <2>1 DEF Goto, TypeOK
  <2>3. scan[c][k] # NoRow /\ pc[c] = "delete"
    BY <1>9, <2>1 DEF IsNext, DeleteRow
  <2> QED
    BY <1>7, <2>1, <2>2, <2>3
<1>10. CASE FinishStatement(c)
  <2>1. Top(c) = data
    BY <1>10, <1>c DEF FinishStatement, InOp
  <2> QED
    BY <1>10, <1>a, <1>b, <2>1 DEF FinishStatement
<1>11. CASE RemoveIndexes(c)
  <2>1. pc[c] = "unindex" /\ pc'[c] = "write" /\ UNCHANGED <<data, tx, local>>
    BY <1>11 DEF RemoveIndexes, Goto, TypeOK
  <2>2. ScanFresh(c)' /\ OpFresh(c)' /\ Top(c)' = Top(c)
    BY <2>1 DEF UndoInv, ScanFresh, OpFresh, InOp, Write, Undo, Unlogged, Unwritten, Top
  <2> QED
    BY <1>a, <2>1, <2>2
<1>12. CASE AddIndexes(c)
  <2>1. /\ pc[c] = "index" /\ UNCHANGED <<data, tx, local>>
        /\ pc'[c] = IF op[c].mode \in WriteModes THEN "record" ELSE "undo"
    BY <1>12 DEF AddIndexes, Goto, TypeOK
  <2>2. CASE op[c].mode \in WriteModes
    <3>1. pc'[c] = "record"
      BY <2>1, <2>2
    <3>2. ScanFresh(c)'
      BY <2>1, <3>1 DEF UndoInv, ScanFresh, InOp
    <3>3. Unlogged(c) /\ Unlogged(c)'
      BY <2>1, <2>2, <3>1 DEF Unlogged, Write, InOp
    <3>4. OpFresh(c)'
      BY <2>1, <2>2, <3>1, <3>3 DEF UndoInv, OpFresh, Unlogged, InOp, WriteModes
    <3>5. Top(c)' = Top(c)
      BY <2>1, <3>3 DEF Top
    <3> QED
      BY <1>a, <2>1, <3>2, <3>4, <3>5
  <2>3. CASE op[c].mode \notin WriteModes
    <3>1. pc'[c] = "undo"
      BY <2>1, <2>3
    <3>2. ScanFresh(c)' /\ OpFresh(c)' /\ Top(c)' = Top(c)
      BY <2>1, <2>3, <3>1 DEF UndoInv, ScanFresh, OpFresh, InOp, Write, Undo, Unlogged,
                              Unwritten, Top
    <3> QED
      BY <1>a, <2>1, <3>2
  <2> QED
    BY <2>2, <2>3
<1>13. CASE WriteRow(c)
  <2> DEFINE o == op[c]
  <2>1. /\ pc[c] = "write" /\ data' = [data EXCEPT ![o.key] = o.new]
        /\ UNCHANGED <<active, log, hist, stmt, scan, op>>
        /\ pc'[c] = CASE o.mode \in {"upsert", "delete"} -> "record"
                      [] o.mode = "undoIns" -> "undo"
                      [] OTHER -> "index"
    BY <1>13 DEF WriteRow, Goto, TypeOK
  <2>2. o \in RowOp /\ data \in Table /\ op'[c] = o
    BY <2>1 DEF TypeOK, StepOK
  <2>3. o.key \in Pks /\ o.mode \in WriteModes \cup {"undoIns", "undoUpd", "undoDel"}
    BY <2>2 DEF RowOp, WriteModes
  <2>4. ScanFresh(c)'
    <3>1. scan[c][o.key] = NoRow
      BY <2>1 DEF UndoInv, ScanFresh, InOp
    <3>2. \A k \in Pks : k # o.key => data'[k] = data[k]
      BY <2>1, <2>2 DEF Table
    <3> HIDE DEF o
    <3> QED
      BY <2>1, <2>2, <3>1, <3>2 DEF UndoInv, ScanFresh
  <2>5. data'[o.key] = o.new
    BY <2>1, <2>2, <2>3 DEF Table
  <2>6. CASE o.mode \in WriteModes
    <3>1. pc'[c] \in {"index", "record"}
      BY <2>1, <2>6 DEF WriteModes
    <3>2. Top(c) = data /\ data[o.key] = o.old
      BY <2>1, <2>6 DEF UndoInv, OpFresh, Top, InOp, Write, Undo, Unlogged, Unwritten
    <3>3. Top(c)' = [data' EXCEPT ![o.key] = o.old]
      BY <2>2, <2>6, <3>1 DEF Top, Unlogged, Write, InOp
    <3>4. [data' EXCEPT ![o.key] = o.old] = data
      BY <2>1, <2>2, <2>3, <3>2 DEF Table
    <3>5. OpFresh(c)'
      BY <2>2, <2>5, <2>6, <3>1 DEF OpFresh, Write, Unlogged, InOp, WriteModes
    <3> QED
      BY <1>a, <2>1, <2>4, <3>2, <3>3, <3>4, <3>5
  <2>7. CASE o.mode \notin WriteModes
    <3>1. pc'[c] \in {"index", "undo"}
      BY <2>1, <2>7 DEF WriteModes
    <3>2. Top(c) = data'
      BY <2>1, <2>7 DEF Top, InOp, Write, Undo, Unlogged, Unwritten
    <3>3. Top(c)' = data'
      BY <2>2, <2>7, <3>1 DEF Top, Unlogged, Unwritten, Write, Undo, InOp
    <3>4. OpFresh(c)'
      BY <2>2, <2>7, <3>1 DEF OpFresh, Write, Unlogged, InOp
    <3> QED
      BY <1>a, <2>1, <2>4, <3>2, <3>3, <3>4
  <2> QED
    BY <2>6, <2>7
<1>14. CASE RecordUndo(c)
  <2> DEFINE o == op[c]
             e == EntryOf(o)
  <2>1. /\ pc[c] = "record" /\ UNCHANGED <<data, active, stmt, scan>>
        /\ log' = IF active THEN Append(log, e) ELSE log
        /\ hist' = IF active THEN Append(hist, data) ELSE hist
    BY <1>14 DEF RecordUndo
  <2>2. pc'[c] = stmt[c].op /\ pc'[c] \in {"insert", "update", "delete"}
    BY <1>14, <2>1 DEF RecordUndo, Goto, TypeOK, StepOK, WriteModes
  <2>3. o \in RowOp /\ o.mode \in WriteModes /\ data \in Table
    BY <2>1 DEF TypeOK, StepOK
  <2>4. Top(c)' = data /\ ScanFresh(c)' /\ OpFresh(c)'
    BY <2>1, <2>2 DEF UndoInv, ScanFresh, OpFresh, Top, InOp, Write, Undo, Unlogged, Unwritten
  <2>5. data[o.key] = o.new /\ Top(c) = [data EXCEPT ![o.key] = o.old]
    BY <2>1, <2>3 DEF UndoInv, OpFresh, Top, Unlogged, Write, InOp
  <2>6. CASE active
    <3>1. Undoes(e, Top(c), data) /\ e \in UndoEntry
      BY <2>3, <2>5, EntryUndoes, EntryOfType
    <3> HIDE DEF o, e
    <3>2. log' = Append(log, e) /\ hist' = Append(hist, data) /\ active'
      BY <2>1, <2>6
    <3>3. /\ Len(log) \in Nat /\ Len(log') = Len(log) + 1
          /\ \A i \in 1..Len(log) : log'[i] = log[i]
          /\ log'[Len(log) + 1] = e
      BY <3>1, <3>2, AppendProperties, LenProperties DEF TypeOK
    <3>4. /\ Len(hist) \in Nat /\ Len(hist') = Len(hist) + 1
          /\ \A i \in 1..Len(hist) : hist'[i] = hist[i]
          /\ hist'[Len(hist) + 1] = data
      BY <2>3, <3>2, AppendProperties, LenProperties DEF TypeOK
    <3>5. Len(hist) = Len(log) + 1 /\ hist[Len(hist)] = Top(c)
          /\ \A i \in 1..Len(log) : Undoes(log[i], hist[i], hist[i + 1])
      BY <2>6 DEF UndoInv, UndoChain
    <3>6. ASSUME NEW i \in 1..Len(log') PROVE Undoes(log'[i], hist'[i], hist'[i + 1])
      <4>1. CASE i \in 1..Len(log)
        <5>1. log'[i] = log[i] /\ hist'[i] = hist[i] /\ hist'[i + 1] = hist[i + 1]
          BY <3>3, <3>4, <3>5, <4>1
        <5> QED
          BY <3>5, <4>1, <5>1
      <4>2. CASE i = Len(log) + 1
        <5>1. log'[i] = e /\ hist'[i] = Top(c) /\ hist'[i + 1] = data
          BY <3>3, <3>4, <3>5, <4>2
        <5> QED
          BY <3>1, <5>1
      <4> QED
        BY <3>3, <4>1, <4>2
    <3>7. UndoChain'
      BY <3>3, <3>4, <3>5, <3>6 DEF UndoChain
    <3> QED
      BY <2>4, <3>4, <3>7 DEF UndoInv
  <2>7. CASE ~active
    BY <2>1, <2>4, <2>7 DEF UndoInv, UndoChain
  <2> QED
    BY <2>6, <2>7
<1>15. CASE Begin(c)
  <2>1. /\ pc[c] = "idle" /\ ~active /\ hist' = <<data>>
        /\ UNCHANGED <<data, log, pc, stmt, scan, op>>
    BY <1>15 DEF Begin
  <2>2. Top(c)' = data /\ ScanFresh(c)' /\ OpFresh(c)'
    BY <2>1 DEF UndoInv, ScanFresh, OpFresh, Top, InOp, Write, Undo, Unlogged, Unwritten
  <2>3. log' = <<>>
    BY <2>1 DEF ReplayExclusive
  <2> QED
    BY <2>1, <2>2, <2>3 DEF UndoInv, UndoChain
<1>16. CASE Commit(c)
  <2>1. pc[c] = "idle" /\ ~active' /\ UNCHANGED <<data, pc, stmt, scan, op>>
    BY <1>16 DEF Commit
  <2>2. ScanFresh(c)' /\ OpFresh(c)'
    BY <2>1 DEF UndoInv, ScanFresh, OpFresh, InOp, Write, Unlogged
  <2> QED
    BY <2>1, <2>2 DEF UndoInv, UndoChain
<1>17. ASSUME NEW s \in {Rollback, Drop}, StartReplay(c, s), pc[c] = "idle" PROVE UndoInv(c)'
  <2>1. /\ pc'[c] = "undo" /\ stmt'[c] = s
        /\ UNCHANGED <<data, active, log, hist, scan, op>>
    BY <1>17 DEF StartReplay, Goto, TypeOK
  <2>2. scan[c] = EmptyTable
    BY <1>17 DEF TypeOK, StepOK, NoStmt, UndoInv, ScanFresh
  <2>3. Top(c)' = data /\ Top(c) = data /\ ScanFresh(c)' /\ OpFresh(c)'
    BY <1>17, <2>1, <2>2 DEF ScanFresh, OpFresh, Top, InOp, Write, Undo, Unlogged, Unwritten,
                             EmptyTable
  <2> QED
    BY <1>a, <2>1, <2>3
<1>18. CASE StartRollback(c)
  BY <1>17, <1>18 DEF StartRollback
<1>19. ASSUME NEW label \in {"release", "gone"}, Goto(c, label),
              pc[c] \in {"idle", "release"}, UNCHANGED <<disk, tx, local>>
       PROVE  UndoInv(c)'
  <2>1. pc'[c] = label
    BY <1>19 DEF Goto, TypeOK
  <2>2. Top(c)' = data /\ Top(c) = data /\ ScanFresh(c)' /\ OpFresh(c)'
    BY <1>19, <2>1 DEF UndoInv, ScanFresh, OpFresh, Top, InOp, Write, Undo, Unlogged, Unwritten
  <2> QED
    BY <1>19, <1>a, <2>2
<1>20. CASE StartDrop(c)
  BY <1>17, <1>19, <1>20 DEF StartDrop
<1>21. CASE Release(c)
  BY <1>19, <1>21 DEF Release
<1>22. CASE PopUndo(c)
  <2> DEFINE e == log[Len(log)]
             n == Len(log)
  <2>1. /\ pc[c] = "undo" /\ log # <<>> /\ op'[c] = UndoOp(e)
        /\ log' = DropLast(log) /\ hist' = DropLast(hist)
        /\ UNCHANGED <<data, active, stmt, scan>>
        /\ pc'[c] = CASE e.kind = "ins" -> "unindex"
                      [] e.kind = "upd" -> "current"
                      [] e.kind = "del" -> "probe"
    BY <1>22 DEF PopUndo, Goto, TypeOK
  <2>2. active
    <3>1. stmt[c] \in Stmt /\ stmt[c].op \in {"rollback", "drop"}
      BY <2>1 DEF TypeOK, StepOK
    <3> QED
      BY <3>1 DEF ReplayExclusive, Replaying, Stmt, Inserts, Updates, Deletes, NoStmt,
                  Rollback, Drop
  <2>3. n \in Nat \ {0} /\ Len(hist) = n + 1 /\ hist # <<>>
    BY <2>1, <2>2, LenProperties, EmptySeq DEF TypeOK, UndoInv, UndoChain
  <2>4. /\ e \in UndoEntry /\ Len(log') = n - 1
        /\ \A i \in 1..(n - 1) : log'[i] = log[i]
    BY <2>1, DropLastProperties DEF TypeOK
  <2>5. /\ Len(hist') = n
        /\ \A i \in 1..n : hist'[i] = hist[i]
    <3>1. /\ Len(DropLast(hist)) = Len(hist) - 1
          /\ \A i \in 1..(Len(hist) - 1) : DropLast(hist)[i] = hist[i]
      BY <2>3, DropLastProperties DEF TypeOK
    <3> QED
      BY <2>1, <2>3, <3>1
  <2>6. Top(c) = data
    BY <2>1, <1>c DEF InOp
  <2>7. Undoes(e, hist[n], data)
    <3>1. hist[n + 1] = data
      BY <2>2, <2>3, <2>6 DEF UndoInv
    <3>2. Undoes(log[n], hist[n], hist[n + 1])
      BY <2>2, <2>3 DEF UndoInv, UndoChain
    <3> QED
      BY <3>1, <3>2
  <2>8. UndoChain'
    <3>1. Len(hist') = Len(log') + 1
      BY <2>3, <2>4, <2>5
    <3>2. ASSUME NEW i \in 1..Len(log') PROVE Undoes(log'[i], hist'[i], hist'[i + 1])
      <4>1. i \in 1..n /\ log'[i] = log[i] /\ hist'[i] = hist[i] /\ hist'[i + 1] = hist[i + 1]
        BY <2>3, <2>4, <2>5
      <4> QED
        BY <2>2, <4>1 DEF UndoInv, UndoChain
    <3> QED
      BY <3>1, <3>2 DEF UndoChain
  <2> HIDE DEF e
  <2>9. /\ UndoOp(e).key = e.key /\ UndoOp(e).key \in Pks
        /\ UndoOp(e).mode \notin WriteModes
        /\ UndoOp(e).new = IF e.kind = "ins" THEN NoRow ELSE e.row
        /\ UndoOp(e).mode = "undoDel" => e.kind = "del"
        /\ e.kind \in {"ins", "upd", "del"}
    <3>1. UndoOp(e).mode \notin WriteModes /\ e.kind \in {"ins", "upd", "del"} /\ e.key \in Pks
      BY <2>4, UndoOpType DEF UndoEntry
    <3> QED
      BY <3>1 DEF UndoOp
  <2>10. pc'[c] \in {"unindex", "current", "probe"}
    BY <2>1, <2>9
  <2>11. Top(c)' = hist[n]
    <3>1. Top(c)' = [data' EXCEPT ![UndoOp(e).key] = UndoOp(e).new]
      BY <2>1, <2>9, <2>10 DEF Top, Unlogged, Unwritten, Write, Undo, InOp
    <3> QED
      BY <2>1, <2>7, <2>9, <3>1 DEF Undoes, Undone
  <2>12. scan[c] = EmptyTable /\ stmt[c].op \in {"rollback", "drop"}
    BY <2>1 DEF TypeOK, StepOK, UndoInv, ScanFresh
  <2>13. ScanFresh(c)'
    BY <2>1, <2>9, <2>12 DEF ScanFresh, EmptyTable
  <2>14. OpFresh(c)'
    BY <2>1, <2>7, <2>9, <2>10 DEF OpFresh, Write, Unlogged, InOp, Undoes
  <2>15. hist'[Len(hist')] = hist[n]
    BY <2>3, <2>5
  <2> QED
    BY <2>8, <2>11, <2>13, <2>14, <2>15 DEF UndoInv
<1>23. CASE UndoCurrent(c)
  <2> DEFINE o == [op[c] EXCEPT !.old = data[op[c].key]]
  <2>1. /\ pc[c] = "current" /\ pc'[c] = "unindex" /\ op'[c] = o
        /\ UNCHANGED <<data, active, log, hist, stmt, scan>>
    BY <1>23 DEF UndoCurrent, Goto, TypeOK
  <2>2. op[c] \in [mode : {"undoUpd"}, key : Pks, old : Row \cup {NoRow}, new : Row]
    BY <2>1 DEF TypeOK, StepOK, RowOp
  <2>3. o.mode = "undoUpd" /\ op[c].mode = "undoUpd" /\ o.key = op[c].key /\ o.new = op[c].new
    BY <2>2
  <2> HIDE DEF o
  <2>4. ScanFresh(c)' /\ OpFresh(c)' /\ Top(c)' = Top(c)
    BY <2>1, <2>3 DEF UndoInv, ScanFresh, OpFresh, InOp, Write, Undo, Unlogged, Unwritten, Top,
                      WriteModes
  <2> QED
    BY <1>a, <2>1, <2>4
<1>24. CASE UndoProbe(c)
  <2>1. pc[c] = "probe" /\ op[c].mode = "undoDel" /\ UNCHANGED <<disk, tx, local>>
    BY <1>24 DEF UndoProbe
  <2>2. data[op[c].key] = NoRow
    BY <2>1 DEF UndoInv, OpFresh, InOp
  <2>3. pc'[c] = "write"
    BY <1>24, <2>2 DEF UndoProbe, Goto, TypeOK
  <2>4. ScanFresh(c)' /\ OpFresh(c)' /\ Top(c)' = Top(c)
    BY <2>1, <2>2, <2>3 DEF UndoInv, ScanFresh, OpFresh, InOp, Write, Undo, Unlogged, Unwritten,
                            Top, WriteModes
  <2> QED
    BY <1>a, <2>1, <2>4
<1>25. CASE EndReplay(c)
  <2>1. ~active' /\ data' = data
    BY <1>25 DEF EndReplay
  <2>2. ScanFresh(c)' /\ OpFresh(c)'
    BY <1>25, <1>b, <2>1 DEF EndReplay
  <2> QED
    BY <2>1, <2>2 DEF UndoInv, UndoChain
<1> QED
  BY <1>2, <1>3, <1>4, <1>5, <1>6, <1>8, <1>9, <1>10, <1>11, <1>12, <1>13, <1>14, <1>15, <1>16,
     <1>18, <1>20, <1>21, <1>22, <1>23, <1>24, <1>25 DEF Call, Proceed

LEMMA UndoInit == ASSUME NEW c \in Clients, Init PROVE UndoInv(c)
BY DEF Init, UndoInv, UndoChain, ScanFresh, OpFresh, InOp, Write, Unlogged, EmptyTable

LEMMA UndoNext ==
  ASSUME NEW c \in Clients, Clients = {c}, TypeOK, ReplayExclusive, KeyInv, UndoInv(c),
         [Next]_vars
  PROVE  UndoInv(c)'
<1>1. CASE \E d \in Clients : Call(d) \/ Proceed(d)
  BY <1>1, UndoStep
<1>2. CASE Reopen \/ Crash
  BY <1>2 DEF Reopen, Crash, Fresh, UndoInv, UndoChain, ScanFresh, OpFresh, InOp, Write,
              Unlogged, EmptyTable, disk
<1>3. CASE UNCHANGED vars
  BY <1>3 DEF vars, UndoInv, UndoChain, ScanFresh, OpFresh, InOp, Write, Undo, Unlogged,
              Unwritten, Top
<1> QED
  BY <1>1, <1>2, <1>3 DEF Next

(* All of it is an invariant of one client. That Controls may hold "crash" *)
(* does not matter: a restart opens no transaction.                        *)
LEMMA UndoInvariant ==
  ASSUME NEW CONSTANT c, Clients = {c}, KeysKept
  PROVE  Spec => [](TypeOK /\ ReplayExclusive /\ UndoInv(c))
<1>1. Init => KeyInv
  BY KeyedEmpty, NoOpIsNoRowOp DEF Init, KeyInv, KeyMatches, ThreadKeyed, Keyed, EmptyTable
<1>2. TypeOK /\ KeyInv /\ [Next]_vars => KeyInv'
  BY KeyNext
<1>3. Init => UndoInv(c)
  BY UndoInit
<1>4. TypeOK /\ ReplayExclusive /\ KeyInv /\ UndoInv(c) /\ [Next]_vars => UndoInv(c)'
  BY UndoNext
<1> QED
  BY <1>1, <1>2, <1>3, <1>4, TypeCorrect, OneReplay, PTL DEF Spec

(* With one client the undo log leads from every recorded write back to    *)
(* the table before it: between calls, within a multi-row statement and    *)
(* after one that failed midway.                                           *)
THEOREM LogLeadsBack ==
  ASSUME NEW CONSTANT c, Clients = {c}, KeysKept
  PROVE  Spec => []UndoChain
<1>1. UndoInv(c) => UndoChain
  BY DEF UndoInv
<1> QED
  BY <1>1, UndoInvariant, PTL

(* With one client a replay that has undone its last entry has brought     *)
(* back the table as it was at BEGIN.                                      *)
LEMMA ReplayedTable ==
  ASSUME TypeOK, ReplayExclusive, NEW c \in Clients, UndoInv(c), pc[c] = "undo", log = <<>>
  PROVE  active /\ Len(hist) = 1 /\ data = hist[1]
<1>1. active
  <2>1. stmt[c] \in Stmt /\ stmt[c].op \in {"rollback", "drop"}
    BY DEF TypeOK, StepOK
  <2> QED
    BY <2>1 DEF ReplayExclusive, Replaying, Stmt, Inserts, Updates, Deletes, NoStmt,
                Rollback, Drop
<1>2. Len(hist) = 1 /\ hist[Len(hist)] = Top(c)
  BY <1>1, EmptySeq DEF UndoInv, UndoChain
<1>3. Top(c) = data
  BY DEF Top, Unlogged, Unwritten, Write, Undo, InOp
<1> QED
  BY <1>1, <1>2, <1>3

(* A replay that has undone its last entry has brought back the table as it*)
(* was at BEGIN (RollbackRestores: replay_undo_log).                       *)
THEOREM RollbackRestoresTable ==
  ASSUME NEW CONSTANT c, Clients = {c}, KeysKept
  PROVE  Spec => []RollbackRestores
<1>1. TypeOK /\ ReplayExclusive /\ UndoInv(c) => RollbackRestores
  BY ReplayedTable DEF RollbackRestores
<1> QED
  BY <1>1, UndoInvariant, PTL

-----------------------------------------------------------------------------
(* One client that does not crash implements Transaction.                  *)

(* A clone that is being dropped leaves no transaction open.               *)
Dropped(c) == pc[c] \in {"release", "gone"} => ~active

LEMMA DroppedNext ==
  ASSUME NEW c \in Clients, Clients = {c}, TypeOK, Dropped(c), [Next]_vars
  PROVE  Dropped(c)'
<1> USE DEF disk, tx, local
<1>1. CASE Call(c)
  <2>1. CASE StartDrop(c)
    BY <2>1 DEF StartDrop, StartReplay, Goto, TypeOK, Dropped
  <2>2. CASE StartInsert(c) \/ StartUpdate(c) \/ StartDelete(c)
    BY <2>2 DEF StartInsert, StartUpdate, StartDelete, Goto, TypeOK, Dropped
  <2>3. CASE Begin(c) \/ Commit(c) \/ StartRollback(c)
    BY <2>3 DEF Begin, Commit, StartRollback, StartReplay, Goto, TypeOK, Dropped
  <2> QED
    BY <1>1, <2>1, <2>2, <2>3 DEF Call
<1>2. CASE Proceed(c)
  <2>1. CASE Release(c) \/ EndReplay(c)
    BY <2>1 DEF Release, EndReplay, Goto, TypeOK, Dropped
  <2>2. CASE Fail(c) \/ FinishStatement(c)
    BY <2>2 DEF Fail, FinishStatement, Leave, Goto, TypeOK, Dropped
  <2>3. CASE InsertRow(c) \/ InsertProbe(c) \/ UpsertFetch(c)
    BY <2>2, <2>3 DEF InsertRow, InsertProbe, UpsertFetch, NextValues, Goto, TypeOK, Dropped
  <2>4. CASE UpdateRow(c) \/ DeleteRow(c) \/ RemoveIndexes(c) \/ UndoCurrent(c) \/ UndoProbe(c)
    BY <2>2, <2>4 DEF UpdateRow, DeleteRow, RemoveIndexes, UndoCurrent, UndoProbe, Goto,
                      TypeOK, Dropped
  <2>5. CASE WriteRow(c)
    <3>1. pc'[c] \in {"record", "undo", "index"}
      BY <2>5 DEF WriteRow, Goto, TypeOK
    <3> QED
      BY <3>1 DEF Dropped
  <2>6. CASE AddIndexes(c)
    BY <2>6 DEF AddIndexes, Goto, TypeOK, Dropped
  <2>7. CASE RecordUndo(c)
    <3>1. pc'[c] \in {"insert", "update", "delete"}
      BY <2>7 DEF RecordUndo, Goto, TypeOK, StepOK, WriteModes
    <3> QED
      BY <3>1 DEF Dropped
  <2>8. CASE PopUndo(c)
    <3>1. log[Len(log)] \in UndoEntry
      BY <2>8, DropLastProperties DEF PopUndo, TypeOK
    <3>2. pc'[c] \in {"unindex", "current", "probe"}
      BY <2>8, <3>1 DEF PopUndo, Goto, TypeOK, UndoEntry
    <3> QED
      BY <3>2 DEF Dropped
  <2> QED
    BY <1>2, <2>1, <2>2, <2>3, <2>4, <2>5, <2>6, <2>7, <2>8 DEF Proceed
<1>3. CASE Reopen \/ Crash \/ UNCHANGED vars
  BY <1>3 DEF Reopen, Crash, Fresh, vars, Dropped
<1> QED
  BY <1>1, <1>2, <1>3 DEF Next

(* The transaction of one client does not outlive it.                      *)
THEOREM DropRollsBack ==
  ASSUME NEW CONSTANT c, Clients = {c}
  PROVE  Spec => []LastDropRollsBack
<1>1. Init => Dropped(c)
  BY DEF Init, Dropped
<1>2. TypeOK /\ Dropped(c) /\ [Next]_vars => Dropped(c)'
  BY DroppedNext
<1>3. Dropped(c) => LastDropRollsBack
  BY DEF Dropped, LastDropRollsBack
<1> QED
  BY <1>1, <1>2, <1>3, TypeCorrect, PTL DEF Spec

(* Rows are written by WriteRow alone.                                     *)
LEMMA WhoWrites ==
  ASSUME NEW c \in Clients, Call(c) \/ Proceed(c)
  PROVE  data' = data \/ WriteRow(c)
BY DEF Call, Proceed, StartInsert, StartUpdate, StartDelete, Begin, Commit, StartRollback,
       StartDrop, StartReplay, InsertRow, InsertProbe, UpsertFetch, UpdateRow, DeleteRow,
       FinishStatement, RemoveIndexes, AddIndexes, RecordUndo, PopUndo, UndoCurrent,
       UndoProbe, EndReplay, Release, Fail, disk

(* What counts as committed.                                               *)
Committed == IF active THEN hist[1] ELSE data

(* Every step is one of Transaction or changes nothing it sees.            *)
LEMMA StepRefines ==
  ASSUME NEW c \in Clients, Clients = {c}, "crash" \notin Controls,
         TypeOK, ReplayExclusive, UndoInv(c), Dropped(c), [Next]_vars
  PROVE  [Txn!Next]_<<Committed, data, active, outcome>>
<1> USE DEF disk, tx, local, Committed
<1>a. ASSUME UNCHANGED <<data, active, outcome>>, active => hist'[1] = hist[1]
      PROVE  UNCHANGED <<Committed, data, active, outcome>>
  BY <1>a
<1>1. CASE WriteRow(c)
  <2>1. op[c].key \in Pks /\ op[c].new \in Row \cup {NoRow}
    <3>1. op[c] \in RowOp
      BY <1>1 DEF WriteRow, TypeOK, StepOK
    <3> QED
      BY <3>1 DEF RowOp
  <2>2. data' \in Table /\ UNCHANGED <<active, outcome, hist>>
    BY <1>1, <2>1 DEF WriteRow, TypeOK, Table
  <2>3. Txn!Write
    BY <2>2 DEF Txn!Write
  <2> QED
    BY <2>3 DEF Txn!Next
<1>2. CASE Begin(c)
  <2>1. Txn!Begin
    BY <1>2 DEF Begin, Txn!Begin
  <2> QED
    BY <2>1 DEF Txn!Next
<1>3. CASE Commit(c)
  <2>1. Txn!Commit
    BY <1>3 DEF Commit, Txn!Commit
  <2> QED
    BY <2>1 DEF Txn!Next
<1>4. CASE RecordUndo(c)
  <2>1. active => Len(hist) \in Nat \ {0}
    BY LenProperties DEF UndoInv, UndoChain, TypeOK
  <2>2. data \in Table /\ hist \in Seq(Table)
    BY DEF TypeOK
  <2>3. active => Append(hist, data)[1] = hist[1]
    BY <2>1, <2>2, AppendProperties
  <2>4. UNCHANGED <<data, active, outcome>> /\ (active => hist' = Append(hist, data))
    BY <1>4 DEF RecordUndo
  <2> QED
    BY <1>a, <2>3, <2>4
<1>5. CASE PopUndo(c)
  <2>1. UNCHANGED <<data, active, outcome>> /\ log # <<>> /\ hist' = DropLast(hist)
    BY <1>5 DEF PopUndo
  <2>2. active => Len(hist) \in Nat \ {0, 1} /\ hist # <<>>
    BY <2>1, LenProperties, EmptySeq DEF UndoInv, UndoChain, TypeOK
  <2>3. active => DropLast(hist)[1] = hist[1]
    <3> SUFFICES ASSUME active PROVE DropLast(hist)[1] = hist[1]
      OBVIOUS
    <3>1. \A i \in 1..(Len(hist) - 1) : DropLast(hist)[i] = hist[i]
      BY <2>2, DropLastProperties DEF TypeOK
    <3>2. 1 \in 1..(Len(hist) - 1)
      BY <2>2
    <3> QED
      BY <3>1, <3>2
  <2> QED
    BY <1>a, <2>1, <2>3
<1>6. CASE EndReplay(c)
  <2>1. active /\ data = hist[1]
    BY <1>6, ReplayedTable DEF EndReplay
  <2>2. Txn!Abort
    BY <1>6, <2>1 DEF EndReplay, Txn!Abort
  <2> QED
    BY <2>2 DEF Txn!Next
<1>7. CASE Call(c) \/ Proceed(c)
  <2>1. CASE Quiet /\ data' = data
    BY <1>a, <2>1 DEF Quiet
  <2>2. ASSUME NEW s, StartReplay(c, s)
        PROVE  UNCHANGED <<Committed, data, active, outcome>>
    BY <1>a, <2>2 DEF StartReplay
  <2> QED
    BY <1>1, <1>2, <1>3, <1>4, <1>5, <1>6, <1>7, <2>1, <2>2, StepKinds, WhoWrites
<1>8. CASE Reopen
  <2>1. ~active
    BY <1>8 DEF Reopen, Dropped
  <2> QED
    BY <1>8, <2>1 DEF Reopen, Fresh, TypeOK
<1>9. CASE UNCHANGED vars
  BY <1>9 DEF vars
<1> QED
  BY <1>7, <1>8, <1>9 DEF Next, Crash

(* Transactions of one client are all or nothing.                          *)
THEOREM Implements ==
  ASSUME NEW CONSTANT c, Clients = {c}, KeysKept, "crash" \notin Controls
  PROVE  Spec => ImplementsTransaction
<1>1. Init => Txn!Init
  BY DEF Init, Txn!Init, EmptyTable, Table
<1>2. Init => Dropped(c)
  BY DEF Init, Dropped
<1>3. TypeOK /\ Dropped(c) /\ [Next]_vars => Dropped(c)'
  BY DroppedNext
<1>4. TypeOK /\ ReplayExclusive /\ UndoInv(c) /\ Dropped(c) /\ [Next]_vars
        => [Txn!Next]_<<Committed, data, active, outcome>>
  BY StepRefines
<1> QED
  BY <1>1, <1>2, <1>3, <1>4, TypeCorrect, UndoInvariant, PTL
     DEF Spec, ImplementsTransaction, Txn!Spec, Committed

-----------------------------------------------------------------------------
(* What one client leaves on disk: the constraints and the index.          *)

(* No statement has an ON CONFLICT DO UPDATE clause.                       *)
NoUpserts == \A s \in Statements \cap Inserts : s.conflict # "update"

(* What the proofs below rest on.                                          *)
Alone(c) == TypeOK /\ ReplayExclusive /\ KeyInv /\ UndoInv(c)

LEMMA AloneInvariant ==
  ASSUME NEW CONSTANT c, Clients = {c}, KeysKept
  PROVE  Spec => []Alone(c)
<1>1. Init => KeyInv
  BY KeyedEmpty, NoOpIsNoRowOp DEF Init, KeyInv, KeyMatches, ThreadKeyed, Keyed, EmptyTable
<1>2. TypeOK /\ KeyInv /\ [Next]_vars => KeyInv'
  BY KeyNext
<1>3. Spec => []KeyInv
  BY <1>1, <1>2, TypeCorrect, PTL DEF Spec
<1>4. TypeOK /\ ReplayExclusive /\ KeyInv /\ UndoInv(c) => Alone(c)
  BY DEF Alone
<1> QED
  BY <1>3, <1>4, UndoInvariant, PTL

LEMMA ReplayIsActive ==
  ASSUME NEW c \in Clients, Alone(c), stmt[c].op \in {"rollback", "drop"}
  PROVE  active
<1>1. stmt[c] \in Stmt
  BY DEF Alone, TypeOK
<1> QED
  BY <1>1 DEF Alone, ReplayExclusive, Replaying, Stmt, Inserts, Updates, Deletes, NoStmt,
              Rollback, Drop

-----------------------------------------------------------------------------
(* No thread is ever in an upsert.                                         *)
NoUpsert(c) == pc[c] # "fetch" /\ (InOp(c) => op[c].mode # "upsert")

LEMMA NoUpsertStep ==
  ASSUME NoUpserts, NEW c \in Clients, Clients = {c}, Alone(c), NoUpsert(c), Call(c) \/ Proceed(c)
  PROVE  NoUpsert(c)'
<1> USE DEF disk, tx, local
<1>1. TypeOK /\ StepOK(c) /\ op[c] \in RowOp \cup {NoOp}
  BY DEF Alone, TypeOK
<1>2. CASE ~InOp(c)'
  BY <1>2 DEF NoUpsert, InOp
<1>3. CASE pc'[c] # "fetch" /\ op' = op /\ InOp(c)
  BY <1>3 DEF NoUpsert
<1>4. CASE Call(c)
  <2>1. CASE StartDrop(c)
    BY <1>1, <1>2, <2>1 DEF StartDrop, StartReplay, Goto, TypeOK, InOp
  <2>2. CASE StartInsert(c) \/ StartUpdate(c) \/ StartDelete(c)
    BY <1>1, <1>2, <2>2 DEF StartInsert, StartUpdate, StartDelete, Goto, TypeOK, InOp
  <2>3. CASE Begin(c) \/ Commit(c) \/ StartRollback(c)
    BY <1>1, <1>2, <2>3 DEF Begin, Commit, StartRollback, StartReplay, Goto, TypeOK, InOp
  <2> QED
    BY <1>4, <2>1, <2>2, <2>3 DEF Call
<1>5. CASE Fail(c) \/ FinishStatement(c) \/ EndReplay(c) \/ Release(c)
  BY <1>1, <1>2, <1>5 DEF Fail, FinishStatement, EndReplay, Release, Leave, Goto, TypeOK, InOp
<1>6. CASE InsertRow(c)
  BY <1>1, <1>2, <1>5, <1>6 DEF InsertRow, NextValues, Goto, TypeOK, InOp, NoUpsert
<1>7. CASE InsertProbe(c)
  <2>1. stmt[c].conflict # "update"
    <3>1. stmt[c].op = "insert" /\ stmt[c] \in Statements \cup {NoStmt, Rollback, Drop}
      BY <1>1, <1>7 DEF InsertProbe, StepOK, Alone, KeyInv, ThreadKeyed
    <3>2. stmt[c] \in Statements \cap Inserts
      BY <3>1, StatementsAssumption DEF Inserts, Updates, Deletes, NoStmt, Rollback, Drop
    <3> QED
      BY <3>2 DEF NoUpserts
  <2>2. CASE Goto(c, "write") /\ UNCHANGED local
    BY <1>1, <1>7, <2>2 DEF InsertProbe, Goto, TypeOK, NoUpsert, InOp
  <2>3. CASE NextValues(c)
    BY <1>1, <1>2, <2>3 DEF NextValues, Goto, TypeOK, InOp
  <2> QED
    BY <1>5, <1>7, <2>1, <2>2, <2>3 DEF InsertProbe
<1>8. CASE UpsertFetch(c)
  BY <1>8 DEF UpsertFetch, NoUpsert
<1>9. CASE UpdateRow(c)
  <2>1. CASE Goto(c, "unindex") /\ \E k \in Pks : op' = [op EXCEPT ![c] =
                  [mode |-> "update", key |-> scan[c][k].pk, old |-> scan[c][k],
                   new |-> Assigned(scan[c][k], stmt[c].set)]]
    BY <1>1, <2>1 DEF Goto, TypeOK, NoUpsert
  <2> QED
    BY <1>5, <1>9, <2>1 DEF UpdateRow
<1>10. CASE DeleteRow(c)
  BY <1>1, <1>10 DEF DeleteRow, Goto, TypeOK, NoUpsert
<1>11. CASE RemoveIndexes(c)
  BY <1>1, <1>11 DEF RemoveIndexes, Goto, TypeOK, NoUpsert, InOp
<1>12. CASE WriteRow(c)
  <2>1. pc'[c] \in {"record", "undo", "index"} /\ op' = op /\ InOp(c)
    BY <1>1, <1>12 DEF WriteRow, Goto, TypeOK, InOp
  <2> QED
    BY <2>1 DEF NoUpsert
<1>13. CASE AddIndexes(c)
  BY <1>1, <1>13 DEF AddIndexes, Goto, TypeOK, NoUpsert, InOp
<1>14. CASE RecordUndo(c)
  <2>1. pc'[c] \in {"insert", "update", "delete"}
    BY <1>1, <1>14 DEF RecordUndo, Goto, TypeOK, StepOK, WriteModes
  <2> QED
    BY <1>2, <2>1 DEF InOp
<1>15. CASE PopUndo(c)
  <2> DEFINE e == log[Len(log)]
  <2>1. e \in UndoEntry
    BY <1>1, <1>15, DropLastProperties DEF PopUndo, TypeOK
  <2>2. op'[c] = UndoOp(e) /\ pc'[c] \in {"unindex", "current", "probe"}
    BY <1>1, <1>15, <2>1 DEF PopUndo, Goto, TypeOK, UndoEntry
  <2> HIDE DEF e
  <2> QED
    BY <2>1, <2>2, UndoOpType DEF NoUpsert, WriteModes
<1>16. CASE UndoCurrent(c)
  <2>1. op[c] \in RowOp /\ op[c].mode = "undoUpd"
    BY <1>1, <1>16 DEF UndoCurrent, StepOK
  <2> QED
    BY <1>1, <1>16, <2>1 DEF UndoCurrent, Goto, TypeOK, NoUpsert, RowOp
<1>17. CASE UndoProbe(c)
  BY <1>1, <1>17 DEF UndoProbe, Goto, TypeOK, NoUpsert
<1> QED
  BY <1>4, <1>5, <1>6, <1>7, <1>8, <1>9, <1>10, <1>11, <1>12, <1>13, <1>14, <1>15, <1>16, <1>17
     DEF Proceed

-----------------------------------------------------------------------------
(* The row an undo entry removes is the one that was inserted: the undo    *)
(* log as UndoChain has it says only that the key was free before.         *)
InsertsLogged ==
  active => \A i \in 1..Len(log) :
              log[i].kind = "ins" => hist[i + 1][log[i].key] = log[i].row

LEMMA LoggedStep ==
  ASSUME NEW c \in Clients, Clients = {c}, Alone(c), InsertsLogged, Call(c) \/ Proceed(c)
  PROVE  InsertsLogged'
<1> USE DEF disk, tx, local
<1>1. /\ TypeOK /\ StepOK(c) /\ UndoChain /\ OpFresh(c)
      /\ log \in Seq(UndoEntry) /\ hist \in Seq(Table) /\ Len(log) \in Nat /\ Len(hist) \in Nat
  BY DEF Alone, TypeOK, UndoInv
<1>2. CASE UNCHANGED <<active, log, hist>>
  BY <1>2 DEF InsertsLogged
<1>3. CASE Begin(c)
  <2>1. log' = <<>>
    BY <1>3 DEF Begin, Alone, ReplayExclusive
  <2> QED
    BY <2>1 DEF InsertsLogged
<1>4. CASE Commit(c) \/ EndReplay(c)
  BY <1>4 DEF Commit, EndReplay, InsertsLogged
<1>5. CASE RecordUndo(c)
  <2>1. CASE ~active
    BY <1>2, <1>5, <2>1 DEF RecordUndo
  <2>2. CASE active
    <3> DEFINE e == EntryOf(op[c])
    <3>1. /\ op[c] \in RowOp /\ op[c].mode \in WriteModes /\ pc[c] = "record"
          /\ Len(hist) = Len(log) + 1
          /\ log' = Append(log, e) /\ hist' = Append(hist, data)
      BY <1>1, <1>5, <2>2 DEF RecordUndo, StepOK, UndoChain
    <3>2. data[op[c].key] = op[c].new
      BY <1>1, <3>1 DEF OpFresh, Unlogged, Write, InOp
    <3>3. e.kind = "ins" => data[e.key] = e.row
      BY <3>1, <3>2 DEF EntryOf
    <3> HIDE DEF e
    <3>4. /\ Len(log') = Len(log) + 1 /\ log'[Len(log) + 1] = e /\ hist'[Len(log) + 2] = data
          /\ \A i \in 1..Len(log) : log'[i] = log[i] /\ hist'[i + 1] = hist[i + 1]
      BY <1>1, <3>1
    <3> QED
      BY <1>1, <2>2, <3>3, <3>4 DEF InsertsLogged
  <2> QED
    BY <2>1, <2>2
<1>6. CASE PopUndo(c)
  <2>1. log # <<>> /\ log' = DropLast(log) /\ hist' = DropLast(hist) /\ active' = active
    BY <1>6 DEF PopUndo
  <2>2. CASE active
    <3>1. Len(hist) = Len(log) + 1 /\ hist # <<>>
      BY <1>1, <2>2 DEF UndoChain
    <3>2. /\ Len(log') = Len(log) - 1
          /\ \A i \in 1..(Len(log) - 1) : log'[i] = log[i]
          /\ \A i \in 1..(Len(hist) - 1) : hist'[i] = hist[i]
      BY <1>1, <2>1, <3>1, DropLastProperties
    <3>3. \A i \in 1..(Len(log) - 1) : log'[i] = log[i] /\ hist'[i + 1] = hist[i + 1]
      BY <1>1, <3>1, <3>2
    <3> QED
      BY <1>1, <2>2, <3>2, <3>3 DEF InsertsLogged
  <2> QED
    BY <2>1, <2>2 DEF InsertsLogged
<1>7. CASE Fail(c) \/ StartInsert(c) \/ StartUpdate(c) \/ StartDelete(c) \/ StartRollback(c)
           \/ StartDrop(c) \/ FinishStatement(c) \/ Release(c)
  BY <1>2, <1>7 DEF Fail, StartInsert, StartUpdate, StartDelete, StartRollback, StartDrop,
     StartReplay, FinishStatement, Release
<1>8. CASE InsertRow(c) \/ InsertProbe(c) \/ UpsertFetch(c) \/ UpdateRow(c) \/ DeleteRow(c)
  BY <1>2, <1>8 DEF Fail, InsertRow, InsertProbe, UpsertFetch, UpdateRow, DeleteRow
<1>9. CASE RemoveIndexes(c) \/ WriteRow(c) \/ AddIndexes(c) \/ UndoCurrent(c) \/ UndoProbe(c)
  BY <1>2, <1>9 DEF RemoveIndexes, WriteRow, AddIndexes, UndoCurrent, UndoProbe
<1> QED
  BY <1>3, <1>4, <1>5, <1>6, <1>7, <1>8, <1>9 DEF Call, Proceed

-----------------------------------------------------------------------------
(* The entries of a table.                                                 *)
Exact(t) == UNION {Entries(t[k]) : k \in Pks}

(* Under their own keys no two rows share an entry.                        *)
LEMMA EntriesRemoved ==
  ASSUME NEW t \in Table, Keyed(t), NEW k \in Pks
  PROVE  Exact(t) \ Entries(t[k]) = Exact([t EXCEPT ![k] = NoRow])
<1> DEFINE u == [t EXCEPT ![k] = NoRow]
<1>1. /\ u[k] = NoRow /\ \A j \in Pks : j # k => u[j] = t[j]
      /\ Entries(NoRow) = {}
  BY DEF Table, Entries
<1>2. \A j \in Pks : \A e \in Entries(t[j]) : e[2] = j
  BY DEF Keyed, Entries
<1> HIDE DEF u
<1>3. \A e : e \in Exact(t) /\ e \notin Entries(t[k]) => e \in Exact(u)
  BY <1>1 DEF Exact
<1>4. \A e : e \in Exact(u) => e \in Exact(t) /\ e \notin Entries(t[k])
  BY <1>1, <1>2 DEF Exact
<1> QED
  BY <1>3, <1>4 DEF u

LEMMA EntriesAdded ==
  ASSUME NEW t \in Table, NEW k \in Pks
  PROVE  Exact([t EXCEPT ![k] = NoRow]) \cup Entries(t[k]) = Exact(t)
<1> DEFINE u == [t EXCEPT ![k] = NoRow]
<1>1. /\ u[k] = NoRow /\ \A j \in Pks : j # k => u[j] = t[j]
      /\ Entries(NoRow) = {}
  BY DEF Table, Entries
<1> HIDE DEF u
<1>2. \A e : e \in Exact(t) <=> e \in Exact(u) \/ e \in Entries(t[k])
  BY <1>1 DEF Exact
<1> QED
  BY <1>2 DEF u

(* From the removal of the entries of the old row to the entries of the    *)
(* new one the index is that of the table without the row.                 *)
Indexed(c) == IF pc[c] \in {"write", "index"} THEN [data EXCEPT ![op[c].key] = NoRow] ELSE data

(* The row an operation removes the entries of is the one that is stored,  *)
(* in a replay too.                                                        *)
OldFresh(c) ==
  /\ pc[c] \in {"unindex", "write"} /\ op[c].mode = "undoIns" => data[op[c].key] = op[c].old
  /\ pc[c] = "unindex" /\ op[c].mode = "undoUpd" => data[op[c].key] = op[c].old
  /\ pc[c] = "index" => data[op[c].key] = op[c].new

IndexInv(c) == idx = Exact(Indexed(c)) /\ OldFresh(c)

LEMMA IndexStep ==
  ASSUME NEW c \in Clients, Clients = {c}, Alone(c), NoUpsert(c), InsertsLogged, IndexInv(c),
         Call(c) \/ Proceed(c)
  PROVE  IndexInv(c)'
<1> USE DEF disk, tx, local
<1>1. /\ TypeOK /\ StepOK(c) /\ data \in Table /\ Keyed(data) /\ OpFresh(c) /\ pc \in [Clients -> Labels]
      /\ op \in [Clients -> RowOp \cup {NoOp}] /\ NoRow \notin Row
  BY SentinelAssumption DEF Alone, TypeOK, KeyInv, KeyMatches, Keyed, UndoInv
<1>2. InOp(c) => op[c] \in RowOp /\ op[c].key \in Pks
  <2>1. InOp(c) => op[c] \in RowOp
    BY <1>1 DEF StepOK, InOp
  <2> QED
    BY <2>1 DEF RowOp
<1>3. CASE /\ pc[c] \notin {"unindex", "write", "index"} /\ pc'[c] \notin {"unindex", "write", "index"}
           /\ UNCHANGED <<data, idx>>
  BY <1>3 DEF IndexInv, Indexed, OldFresh
<1>4. CASE Fail(c) /\ pc[c] \notin {"unindex", "write", "index"}
  BY <1>1, <1>3, <1>4 DEF Fail, Leave, Goto
<1>5. CASE Call(c)
  <2>1. CASE StartDrop(c)
    BY <1>1, <1>3, <2>1 DEF StartDrop, StartReplay, Goto
  <2>2. CASE StartInsert(c) \/ StartUpdate(c) \/ StartDelete(c)
    BY <1>1, <1>3, <2>2 DEF StartInsert, StartUpdate, StartDelete, Starts, Goto
  <2>3. CASE Begin(c) \/ Commit(c) \/ StartRollback(c)
    BY <1>1, <1>3, <2>3 DEF Begin, Commit, StartRollback, StartReplay, Goto
  <2> QED
    BY <1>5, <2>1, <2>2, <2>3 DEF Call
<1>6. CASE FinishStatement(c) \/ EndReplay(c) \/ Release(c)
  BY <1>1, <1>3, <1>6 DEF FinishStatement, EndReplay, Release, Leave, Goto
<1>7. CASE InsertRow(c)
  BY <1>1, <1>3, <1>4, <1>7 DEF InsertRow, NextValues, Goto
<1>8. CASE InsertProbe(c)
  <2>1. CASE data[op[c].key] = NoRow /\ Goto(c, "write") /\ UNCHANGED <<disk, tx, local>>
    <3>1. pc[c] = "probe" /\ pc'[c] = "write" /\ op[c].mode = "insert" /\ InOp(c)
      BY <1>1, <1>8, <2>1 DEF InsertProbe, Goto, InOp
    <3>2. [data EXCEPT ![op[c].key] = NoRow] = data
      BY <1>1, <1>2, <2>1, <3>1 DEF Table
    <3> QED
      BY <2>1, <3>1, <3>2 DEF IndexInv, Indexed, OldFresh
  <2>2. CASE NextValues(c) \/ Goto(c, "fetch")
    BY <1>1, <1>3, <1>8, <2>2 DEF InsertProbe, NextValues, Goto, Fail
  <2> QED
    BY <1>4, <1>8, <2>1, <2>2 DEF InsertProbe
<1>9. CASE UpsertFetch(c)
  BY <1>9 DEF UpsertFetch, NoUpsert
<1>10. CASE UpdateRow(c) \/ DeleteRow(c)
  <2>1. CASE Goto(c, "unindex") /\ UNCHANGED disk /\ op'[c].mode \in {"update", "delete"}
    BY <1>1, <1>10, <2>1 DEF UpdateRow, DeleteRow, Goto, IndexInv, Indexed, OldFresh
  <2>2. CASE Fail(c)
    BY <1>4, <1>10, <2>2 DEF UpdateRow, DeleteRow
  <2> QED
    BY <1>1, <1>10, <2>1, <2>2 DEF UpdateRow, DeleteRow
<1>11. CASE RemoveIndexes(c)
  <2>1. pc[c] = "unindex" /\ pc'[c] = "write" /\ idx' = idx \ Entries(op[c].old)
        /\ UNCHANGED <<data, op>> /\ op[c] \in RowOp /\ op[c].key \in Pks
    BY <1>1, <1>2, <1>11 DEF RemoveIndexes, Goto, InOp
  <2>2. data[op[c].key] = op[c].old
    <3>1. CASE op[c].mode \in WriteModes
      BY <1>1, <2>1, <3>1 DEF OpFresh, Write, InOp
    <3>2. CASE op[c].mode \in {"undoIns", "undoUpd"}
      BY <2>1, <3>2 DEF IndexInv, OldFresh
    <3>3. CASE op[c].mode = "undoDel"
      <4>1. data[op[c].key] = NoRow
        BY <1>1, <2>1, <3>3 DEF OpFresh, InOp
      <4>2. op[c].old = NoRow
        BY <2>1, <3>3 DEF RowOp
      <4> QED
        BY <4>1, <4>2
    <3> QED
      BY <2>1, <3>1, <3>2, <3>3 DEF RowOp, WriteModes
  <2>3. idx' = Exact([data EXCEPT ![op[c].key] = NoRow])
    BY <1>1, <2>1, <2>2, EntriesRemoved DEF IndexInv, Indexed
  <2> QED
    BY <2>1, <2>2, <2>3 DEF IndexInv, Indexed, OldFresh
<1>12. CASE WriteRow(c)
  <2> DEFINE k == op[c].key
             n == op[c].new
  <2>1. /\ pc[c] = "write" /\ data' = [data EXCEPT ![k] = n] /\ UNCHANGED <<idx, op>>
        /\ op[c] \in RowOp /\ k \in Pks /\ idx = Exact([data EXCEPT ![k] = NoRow])
        /\ pc'[c] = IF op[c].mode \in {"upsert", "delete"} THEN "record"
                    ELSE IF op[c].mode = "undoIns" THEN "undo" ELSE "index"
    BY <1>1, <1>2, <1>12 DEF WriteRow, Goto, InOp, IndexInv, Indexed
  <2>2. op[c].mode # "upsert" /\ (op[c].mode \in {"delete", "undoIns"} => n = NoRow)
    BY <2>1 DEF NoUpsert, InOp, RowOp
  <2> HIDE DEF k, n
  <2>3. [data' EXCEPT ![k] = NoRow] = [data EXCEPT ![k] = NoRow] /\ data'[k] = n
    BY <1>1, <2>1 DEF Table
  <2>4. CASE op[c].mode \in {"delete", "undoIns"}
    BY <2>1, <2>2, <2>4 DEF IndexInv, Indexed, OldFresh
  <2>5. CASE op[c].mode \notin {"delete", "undoIns"}
    <3>1. pc'[c] = "index" /\ op'[c].key = k /\ op'[c].new = n
      BY <2>1, <2>2, <2>5 DEF k, n
    <3> QED
      BY <2>1, <2>3, <3>1 DEF IndexInv, Indexed, OldFresh
  <2> QED
    BY <2>4, <2>5
<1>13. CASE AddIndexes(c)
  <2>1. /\ pc[c] = "index" /\ pc'[c] \in {"record", "undo"} /\ UNCHANGED <<data, op>>
        /\ idx' = idx \cup Entries(op[c].new) /\ op[c].key \in Pks
        /\ data[op[c].key] = op[c].new /\ idx = Exact([data EXCEPT ![op[c].key] = NoRow])
    BY <1>1, <1>2, <1>13 DEF AddIndexes, Goto, InOp, IndexInv, Indexed, OldFresh
  <2>2. idx' = Exact(data)
    BY <1>1, <2>1, EntriesAdded
  <2> QED
    BY <2>1, <2>2 DEF IndexInv, Indexed, OldFresh
<1>14. CASE RecordUndo(c)
  <2>1. pc[c] = "record" /\ pc'[c] \in {"insert", "update", "delete"}
    BY <1>1, <1>14 DEF RecordUndo, Goto, StepOK, WriteModes
  <2> QED
    BY <1>3, <1>14, <2>1 DEF RecordUndo
<1>15. CASE PopUndo(c)
  <2> DEFINE e == log[Len(log)]
  <2>1. /\ log \in Seq(UndoEntry) /\ Len(log) \in Nat /\ log # <<>>
        /\ e \in UndoEntry /\ op' = [op EXCEPT ![c] = UndoOp(e)] /\ UNCHANGED <<data, idx>>
        /\ pc[c] = "undo"
    BY <1>1, <1>15, DropLastProperties DEF PopUndo, TypeOK
  <2>2. pc'[c] = CASE e.kind = "ins" -> "unindex" [] e.kind = "upd" -> "current" [] e.kind = "del" -> "probe"
    BY <1>1, <1>15 DEF PopUndo, Goto
  <2>3. CASE e.kind = "ins"
    <3>1. active
      BY <1>1, <2>1, ReplayIsActive DEF StepOK
    <3>2. hist[Len(hist)] = data /\ Len(hist) = Len(log) + 1
      BY <2>1, <3>1 DEF Alone, UndoInv, UndoChain, Top, Unlogged, Unwritten, Write, Undo, InOp
    <3>3. Len(log) \in 1..Len(log)
      BY <2>1, EmptySeq
    <3>4. data[e.key] = e.row
      BY <2>3, <3>1, <3>2, <3>3 DEF InsertsLogged
    <3>5. /\ op'[c].mode = "undoIns" /\ op'[c].key = e.key /\ op'[c].old = e.row
          /\ pc'[c] = "unindex"
      BY <1>1, <2>1, <2>2, <2>3 DEF UndoOp
    <3> HIDE DEF e
    <3> QED
      BY <2>1, <3>4, <3>5 DEF IndexInv, Indexed, OldFresh
  <2>4. CASE e.kind # "ins"
    <3>1. pc'[c] \in {"current", "probe"}
      BY <2>1, <2>2, <2>4 DEF UndoEntry
    <3> QED
      BY <1>3, <2>1, <3>1
  <2> QED
    BY <2>3, <2>4
<1>16. CASE UndoCurrent(c)
  <2>1. /\ pc[c] = "current" /\ pc'[c] = "unindex" /\ UNCHANGED disk
        /\ op' = [op EXCEPT ![c].old = data[op[c].key]]
        /\ op[c] \in RowOp /\ op[c].mode = "undoUpd"
    BY <1>1, <1>16 DEF UndoCurrent, Goto, StepOK
  <2>2. op'[c].mode = "undoUpd" /\ op'[c].key = op[c].key /\ op'[c].old = data[op[c].key]
    BY <1>1, <2>1 DEF RowOp
  <2> QED
    BY <2>1, <2>2 DEF IndexInv, Indexed, OldFresh
<1>17. CASE UndoProbe(c)
  <2>1. pc[c] = "probe" /\ op[c].mode = "undoDel" /\ InOp(c) /\ UNCHANGED <<data, idx, op>>
    BY <1>17 DEF UndoProbe, InOp
  <2>2. CASE data[op[c].key] = NoRow
    <3>1. [data EXCEPT ![op[c].key] = NoRow] = data /\ pc'[c] = "write"
      BY <1>1, <1>2, <1>17, <2>1, <2>2 DEF Table, UndoProbe, Goto
    <3> QED
      BY <2>1, <3>1 DEF IndexInv, Indexed, OldFresh
  <2>3. CASE data[op[c].key] # NoRow
    BY <1>1, <1>3, <1>17, <2>1, <2>3 DEF UndoProbe, Goto
  <2> QED
    BY <2>2, <2>3
<1> QED
  BY <1>5, <1>6, <1>7, <1>8, <1>9, <1>10, <1>11, <1>12, <1>13, <1>14, <1>15, <1>16, <1>17
     DEF Proceed

IndexAll(c) == NoUpsert(c) /\ InsertsLogged /\ IndexInv(c)

LEMMA IndexNext ==
  ASSUME NEW c, Clients = {c}, NoUpserts, "crash" \notin Controls
  PROVE  Alone(c) /\ IndexAll(c) /\ [Next]_vars => IndexAll(c)'
<1> SUFFICES ASSUME Alone(c), IndexAll(c), [Next]_vars PROVE IndexAll(c)'
  OBVIOUS
<1>1. CASE \E d \in Clients : Call(d) \/ Proceed(d)
  BY <1>1, NoUpsertStep, LoggedStep, IndexStep DEF IndexAll
<1>2. CASE Reopen
  BY <1>2 DEF Reopen, Fresh, IndexAll, NoUpsert, InOp, InsertsLogged, IndexInv, Indexed,
              OldFresh, disk
<1>3. CASE UNCHANGED vars
  BY <1>3 DEF vars, IndexAll, NoUpsert, InOp, InsertsLogged, IndexInv, Indexed, OldFresh
<1> QED
  BY <1>1, <1>2, <1>3 DEF Next, Crash

LEMMA IndexInit ==
  ASSUME NEW c, Clients = {c}, Init
  PROVE  IndexAll(c)
<1>1. Exact(EmptyTable) = {}
  BY DEF Exact, EmptyTable, Entries
<1> QED
  BY <1>1 DEF Init, IndexAll, NoUpsert, InOp, InsertsLogged, IndexInv, Indexed, OldFresh

(* With one client that neither crashes nor uses DO UPDATE the index holds *)
(* the entries of the stored rows and no other whenever no call is in      *)
(* progress: after statements that succeeded, failed midway or were rolled *)
(* back.                                                                   *)
THEOREM IndexStaysExact ==
  ASSUME NEW CONSTANT c, Clients = {c}, NoUpserts, "crash" \notin Controls
  PROVE  Spec => []IndexExact
<1>0. KeysKept
  BY DEF NoUpserts, KeysKept
<1>1. Init => IndexAll(c)
  BY IndexInit
<1>2. Alone(c) /\ IndexAll(c) /\ [Next]_vars => IndexAll(c)'
  BY IndexNext
<1>3. IndexAll(c) => IndexExact
  BY DEF IndexAll, IndexInv, Indexed, IndexExact, AtRest, Steps, Exact
<1> QED
  BY <1>0, <1>1, <1>2, <1>3, AloneInvariant, PTL DEF Spec

-----------------------------------------------------------------------------
(* NOT NULL, the type of the column and UNIQUE, of one table.              *)
Sound(t) ==
  /\ \A k \in Pks : t[k] # NoRow => t[k] \in Valid
  /\ Unique => \A j, k \in Pks :
       (j # k /\ t[j] # NoRow /\ t[k] # NoRow /\ t[j].v = t[k].v) => t[j].v = NULL

(* Row r may be stored at key k of a sound table.                          *)
Fits(t, r, k) ==
  /\ r \in Valid
  /\ Unique /\ r.v # NULL => \A j \in Pks : t[j] # NoRow /\ t[j].v = r.v => j = k

LEMMA SoundPut ==
  ASSUME NEW t \in Table, NEW k \in Pks, NEW r, Sound(t), r = NoRow \/ Fits(t, r, k)
  PROVE  Sound([t EXCEPT ![k] = r])
BY DEF Sound, Fits, Table

(* What was checked of the row of a statement still holds when it is       *)
(* written: nobody else writes in between.                                 *)
NewFits(c) ==
  pc[c] \in {"probe", "unindex", "write"} /\ op[c].mode \in {"insert", "update"} =>
    Fits(data, op[c].new, op[c].key)

(* So do the tables the undo log leads back to.                            *)
SoundInv(c) == Sound(data) /\ (\A i \in 1..Len(hist) : Sound(hist[i])) /\ NewFits(c)

(* Steps that only move within an operation check nothing and write        *)
(* nothing.                                                                *)
LEMMA NewFitsStep ==
  ASSUME NEW c \in Clients, Clients = {c}, Alone(c), NewFits(c), Call(c) \/ Proceed(c)
  PROVE  NewFits(c)'
<1> USE DEF disk, tx, local
<1>1. /\ TypeOK /\ StepOK(c) /\ data \in Table /\ Keyed(data) /\ pc \in [Clients -> Labels]
      /\ op \in [Clients -> RowOp \cup {NoOp}] /\ NoRow \notin Row
  BY SentinelAssumption DEF Alone, TypeOK, KeyInv, KeyMatches, Keyed
<1>2. CASE pc'[c] \notin {"probe", "unindex", "write"}
  BY <1>2 DEF NewFits
<1>3. CASE Fail(c)
  BY <1>1, <1>2, <1>3 DEF Fail, Leave, Goto
<1>4. CASE Call(c)
  <2>1. CASE StartDrop(c) \/ StartRollback(c)
    BY <1>1, <1>2, <2>1 DEF StartDrop, StartRollback, StartReplay, Goto
  <2>2. CASE StartInsert(c) \/ StartUpdate(c) \/ StartDelete(c)
    BY <1>1, <1>2, <2>2 DEF StartInsert, StartUpdate, StartDelete, Goto
  <2>3. CASE Begin(c) \/ Commit(c)
    BY <1>1, <1>2, <2>3 DEF Begin, Commit
  <2> QED
    BY <1>4, <2>1, <2>2, <2>3 DEF Call
<1>5. CASE FinishStatement(c) \/ EndReplay(c) \/ Release(c)
  BY <1>1, <1>2, <1>5 DEF FinishStatement, EndReplay, Release, Leave, Goto
<1>6. CASE InsertRow(c)
  <2> DEFINE r == Head(rows[c]).row
             o == [mode |-> "insert", key |-> r.pk, old |-> NoRow, new |-> r]
  <2>1. CASE /\ r \in Valid /\ ~Clashes(r, {}) /\ op' = [op EXCEPT ![c] = o] /\ UNCHANGED data
    <3>1. Fits(data, r, r.pk)
      <4> HIDE DEF r
      <4> QED
        BY <2>1 DEF Clashes, Fits
    <3>2. op'[c].key = r.pk /\ op'[c].new = r
      BY <1>1, <2>1
    <3> QED
      BY <2>1, <3>1, <3>2 DEF NewFits
  <2>2. CASE NextValues(c)
    BY <1>1, <1>2, <2>2 DEF NextValues, Goto
  <2> QED
    BY <1>3, <1>6, <2>1, <2>2 DEF InsertRow
<1>7. CASE InsertProbe(c)
  <2>1. CASE Goto(c, "write") /\ UNCHANGED <<disk, tx, local>>
    BY <1>1, <1>7, <2>1 DEF InsertProbe, Goto, NewFits
  <2>2. CASE NextValues(c) \/ Goto(c, "fetch")
    BY <1>1, <1>2, <2>2 DEF NextValues, Goto
  <2> QED
    BY <1>3, <1>7, <2>1, <2>2 DEF InsertProbe
<1>8. CASE UpsertFetch(c)
  <2>1. CASE Fail(c)
    BY <1>3, <2>1
  <2> DEFINE k == Head(rows[c]).key
  <2>2. CASE op' = [op EXCEPT ![c] = [mode |-> "upsert", key |-> k, old |-> data[k],
                                      new |-> Assigned(data[k], stmt[c].set)]]
    BY <1>1, <2>2 DEF NewFits
  <2> QED
    BY <1>8, <2>1, <2>2 DEF UpsertFetch
<1>9. CASE UpdateRow(c)
  <2>1. PICK k \in Pks :
          LET r == scan[c][k]
              n == Assigned(r, stmt[c].set)
          IN
          \/ Fail(c)
          \/ /\ ~Refused(stmt[c].set, r, n)
             /\ op' = [op EXCEPT ![c] = [mode |-> "update", key |-> r.pk, old |-> r, new |-> n]]
             /\ UNCHANGED data
    BY <1>9 DEF UpdateRow
  <2> DEFINE r == scan[c][k]
             n == Assigned(r, stmt[c].set)
  <2>2. CASE /\ ~Refused(stmt[c].set, r, n)
             /\ op' = [op EXCEPT ![c] = [mode |-> "update", key |-> r.pk, old |-> r, new |-> n]]
             /\ UNCHANGED data
    <3>1. op'[c].key = r.pk /\ op'[c].new = n
      BY <1>1, <2>2
    <3> HIDE DEF r, n
    <3>2. Fits(data, n, r.pk)
      BY <1>1, <2>2 DEF Refused, Clashes, Fits, Keyed
    <3> QED
      BY <2>2, <3>1, <3>2 DEF NewFits
  <2> QED
    BY <1>3, <2>1, <2>2
<1>10. CASE DeleteRow(c)
  BY <1>1, <1>10 DEF DeleteRow, NewFits
<1>11. CASE RemoveIndexes(c)
  BY <1>1, <1>11 DEF RemoveIndexes, Goto, NewFits
<1>12. CASE WriteRow(c)
  <2>1. pc'[c] \in {"record", "undo", "index"}
    BY <1>1, <1>12 DEF WriteRow, Goto
  <2> QED
    BY <1>2, <2>1
<1>13. CASE AddIndexes(c)
  BY <1>1, <1>2, <1>13 DEF AddIndexes, Goto
<1>14. CASE RecordUndo(c)
  <2>1. pc'[c] \in {"insert", "update", "delete"}
    BY <1>1, <1>14 DEF RecordUndo, Goto, StepOK, WriteModes
  <2> QED
    BY <1>2, <2>1
<1>15. CASE PopUndo(c)
  <2> DEFINE e == log[Len(log)]
  <2>1. e \in UndoEntry /\ op'[c] = UndoOp(e)
    BY <1>1, <1>15, DropLastProperties DEF PopUndo, TypeOK
  <2> HIDE DEF e
  <2> QED
    BY <2>1, UndoOpType DEF NewFits, WriteModes
<1>16. CASE UndoCurrent(c)
  <2>1. op[c] \in RowOp /\ op[c].mode = "undoUpd"
    BY <1>1, <1>16 DEF UndoCurrent, StepOK
  <2> QED
    BY <1>1, <1>16, <2>1 DEF UndoCurrent, NewFits, RowOp
<1>17. CASE UndoProbe(c)
  BY <1>1, <1>17 DEF UndoProbe, Goto, NewFits
<1> QED
  BY <1>4, <1>5, <1>6, <1>7, <1>8, <1>9, <1>10, <1>11, <1>12, <1>13, <1>14, <1>15, <1>16, <1>17
     DEF Proceed

(* What is written is a row that fits, nothing, or the row of the table    *)
(* the replay returns to.                                                  *)
LEMMA WriteSound ==
  ASSUME NEW c \in Clients, Clients = {c}, Alone(c), NoUpsert(c), SoundInv(c), WriteRow(c)
  PROVE  Sound(data')
<1> DEFINE k == op[c].key
           n == op[c].new
<1>1. /\ TypeOK /\ StepOK(c) /\ data \in Table /\ pc[c] = "write" /\ InOp(c)
      /\ data' = [data EXCEPT ![k] = n] /\ op[c] \in RowOp /\ op[c].mode # "upsert"
  BY DEF Alone, TypeOK, StepOK, WriteRow, InOp, NoUpsert
<1>2. k \in Pks
  BY <1>1 DEF RowOp
<1>3. CASE op[c].mode \in {"insert", "update"}
  <2>1. Fits(data, n, k)
    BY <1>1, <1>3 DEF SoundInv, NewFits
  <2> QED
    BY <1>1, <1>2, <2>1, SoundPut DEF SoundInv
<1>4. CASE op[c].mode = "delete"
  <2>1. n = NoRow
    BY <1>1, <1>4 DEF RowOp
  <2> QED
    BY <1>1, <1>2, <2>1, SoundPut DEF SoundInv
<1>5. CASE op[c].mode \notin WriteModes
  <2>1. active
    BY <1>1, <1>5, ReplayIsActive DEF StepOK
  <2>2. hist[Len(hist)] = data' /\ Len(hist) = Len(log) + 1 /\ Len(log) \in Nat
    BY <1>1, <1>5, <2>1 DEF Alone, UndoInv, UndoChain, Top, Unlogged, Unwritten, Write, Undo, TypeOK
  <2> QED
    BY <2>2 DEF SoundInv
<1> QED
  BY <1>1, <1>3, <1>4, <1>5 DEF WriteModes

LEMMA SoundStep ==
  ASSUME NEW c \in Clients, Clients = {c}, Alone(c), NoUpsert(c), SoundInv(c),
         Call(c) \/ Proceed(c)
  PROVE  SoundInv(c)'
<1>1. Sound(data')
  BY WhoWrites, WriteSound DEF SoundInv
<1>2. /\ log \in Seq(UndoEntry) /\ hist \in Seq(Table) /\ Len(hist) \in Nat
      /\ active => Len(hist) = Len(log) + 1
  BY DEF Alone, TypeOK, UndoInv, UndoChain
<1>3. ASSUME PopUndo(c) PROVE hist' = DropLast(hist) /\ hist # <<>>
  <2>1. pc[c] = "undo" /\ hist' = DropLast(hist)
    BY <1>3 DEF PopUndo
  <2>2. active
    BY <2>1, ReplayIsActive DEF Alone, TypeOK, StepOK
  <2> QED
    BY <1>2, <2>1, <2>2
<1>4. \/ hist' = hist \/ hist' = <<>> \/ hist' = <<data>> \/ hist' = Append(hist, data)
      \/ hist' = DropLast(hist) /\ hist # <<>>
  BY <1>3 DEF Call, Proceed, StartInsert, StartUpdate, StartDelete, Begin, Commit, StartRollback,
     StartDrop, StartReplay, InsertRow, InsertProbe, UpsertFetch, UpdateRow, DeleteRow,
     FinishStatement, RemoveIndexes, WriteRow, AddIndexes, RecordUndo, UndoCurrent, UndoProbe,
     EndReplay, Release, Fail, tx
<1>5. ASSUME NEW i \in 1..Len(hist') PROVE Sound(hist'[i])
  <2>1. CASE hist' = Append(hist, data)
    BY <1>2, <1>5, <2>1 DEF SoundInv
  <2>2. CASE hist' = DropLast(hist) /\ hist # <<>>
    <3>1. /\ Len(DropLast(hist)) = Len(hist) - 1
          /\ \A j \in 1..(Len(hist) - 1) : DropLast(hist)[j] = hist[j]
      BY <1>2, <2>2, DropLastProperties
    <3>2. i \in 1..(Len(hist) - 1) /\ i \in 1..Len(hist)
      BY <1>2, <1>5, <2>2, <3>1
    <3>3. hist'[i] = hist[i]
      BY <2>2, <3>1, <3>2
    <3> QED
      BY <3>2, <3>3 DEF SoundInv
  <2>3. CASE hist' = hist \/ hist' = <<>> \/ hist' = <<data>>
    BY <1>5, <2>3 DEF SoundInv
  <2> QED
    BY <1>4, <2>1, <2>2, <2>3
<1>6. NewFits(c)'
  BY NewFitsStep DEF SoundInv
<1> QED
  BY <1>1, <1>5, <1>6 DEF SoundInv, Sound

LEMMA SoundNext ==
  ASSUME NEW c, Clients = {c}, NoUpserts
  PROVE  Alone(c) /\ NoUpsert(c) /\ SoundInv(c) /\ [Next]_vars => NoUpsert(c)' /\ SoundInv(c)'
<1> SUFFICES ASSUME Alone(c), NoUpsert(c), SoundInv(c), [Next]_vars
             PROVE  NoUpsert(c)' /\ SoundInv(c)'
  OBVIOUS
<1>1. CASE \E d \in Clients : Call(d) \/ Proceed(d)
  BY <1>1, NoUpsertStep, SoundStep
<1>2. CASE Reopen \/ Crash
  <2>1. data' = data /\ hist' = <<>> /\ pc'[c] = "idle"
    BY <1>2 DEF Reopen, Crash, Fresh, disk
  <2> QED
    BY <2>1 DEF NoUpsert, InOp, SoundInv, Sound, NewFits
<1>3. CASE UNCHANGED vars
  BY <1>3 DEF vars, NoUpsert, InOp, SoundInv, Sound, NewFits, Fits
<1> QED
  BY <1>1, <1>2, <1>3 DEF Next

(* With one client that does not use DO UPDATE, NOT NULL and UNIQUE hold   *)
(* of the stored rows after every write of every statement and of every    *)
(* replay, and so after a crash at any of them.                            *)
THEOREM ConstraintsAlwaysHold ==
  ASSUME NEW CONSTANT c, Clients = {c}, NoUpserts
  PROVE  Spec => []ConstraintsHold
<1>0. KeysKept
  BY DEF NoUpserts, KeysKept
<1>1. Init => NoUpsert(c) /\ SoundInv(c)
  BY DEF Init, NoUpsert, InOp, SoundInv, Sound, NewFits, EmptyTable
<1>2. Alone(c) /\ NoUpsert(c) /\ SoundInv(c) /\ [Next]_vars => NoUpsert(c)' /\ SoundInv(c)'
  BY SoundNext
<1>3. SoundInv(c) => ConstraintsHold
  BY DEF SoundInv, Sound, ConstraintsHold
<1> QED
  BY <1>0, <1>1, <1>2, <1>3, AloneInvariant, PTL DEF Spec
=============================================================================
