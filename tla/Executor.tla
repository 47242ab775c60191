------------------------------ MODULE Executor ------------------------------
(***************************************************************************)
(* The SQL executor of RustMinidb (src/src/sql/executor.rs) over the redb  *)
(* storage engine (src/src/storage/redb_engine.rs): one table with an      *)
(* INTEGER primary key and one more column, which carries a secondary      *)
(* index and may be declared UNIQUE or NOT NULL.                           *)
(*                                                                         *)
(* Clients are threads that hold clones of one Executor: they share the    *)
(* engine and the transaction state behind Arc<Mutex<Option<TxState>>>.    *)
(* A call of the engine is one redb transaction, hence one step; between   *)
(* two engine calls of a statement the other clients run.                  *)
(***************************************************************************)
EXTENDS Naturals, Sequences, FiniteSets

CONSTANTS
  Clients,     \* threads that hold a clone of the executor
  Pks,         \* primary keys, ordered as their big-endian bytes are
  Vals,        \* values of the second column
  NULL,        \* Value::Null
  NoRow,       \* the key is not in the table
  None,        \* nobody holds the lock; a column an assignment list leaves alone
  Unique,      \* the second column is declared UNIQUE
  Valid,       \* the rows TableSchema::validate_row accepts
  Statements,  \* the INSERT, UPDATE and DELETE statements clients may issue
  Controls,    \* which of "begin", "commit", "rollback", "drop", "crash" occur
  MaxLog       \* bound: no statement starts with MaxLog or more undo entries

Row        == [pk : Pks, v : Vals \cup {NULL}]
Table      == [Pks -> Row \cup {NoRow}]
EmptyTable == [k \in Pks |-> NoRow]
Assignment == [pk : Pks \cup {None}, v : Vals \cup {NULL, None}]

(* A row of VALUES: as it is stored - its columns in their order, coerced, *)
(* AUTO_INCREMENT filled in - and the key that DO UPDATE goes by, which is *)
(* the raw value in the place the primary key has in the schema (None: no  *)
(* value there, or none that is a key).                                    *)
Given   == [row : Row, key : Pks \cup {None}]
Inserts == [op : {"insert"}, rows : Seq(Given),
            conflict : {"error", "nothing", "update"}, set : Assignment]
Updates == [op : {"update"}, where : SUBSET Row, set : Assignment]
Deletes == [op : {"delete"}, where : SUBSET Row]

NoStmt   == [op |-> "none"]
Rollback == [op |-> "rollback"]
Drop     == [op |-> "drop"]
Stmt     == Inserts \cup Updates \cup Deletes \cup {NoStmt, Rollback, Drop}

ASSUME PksAssumption        == Pks \subseteq Nat
ASSUME SentinelAssumption   == /\ NoRow \notin Row
                               /\ None \notin Clients \cup Pks
ASSUME SchemaAssumption     == Unique \in BOOLEAN /\ Valid \subseteq Row
ASSUME StatementsAssumption == Statements \subseteq Inserts \cup Updates \cup Deletes
ASSUME MaxLogAssumption     == MaxLog \in Nat

(***************************************************************************)
(* An undo entry, and the row operation a thread is in the middle of: the  *)
(* row whose index entries go, the row written at the key (NoRow: the key  *)
(* is deleted).                                                            *)
(***************************************************************************)
UndoEntry == [kind : {"ins", "upd", "del"}, key : Pks, row : Row]

WriteModes == {"insert", "upsert", "update", "delete"}
RowOp ==
       [mode : {"insert", "undoDel"}, key : Pks, old : {NoRow}, new : Row]
  \cup [mode : {"upsert", "update"},  key : Pks, old : Row, new : Row]
  \cup [mode : {"delete", "undoIns"}, key : Pks, old : Row, new : {NoRow}]
  \cup [mode : {"undoUpd"}, key : Pks, old : Row \cup {NoRow}, new : Row]
NoOp == [mode |-> "none"]

VARIABLES
  data,    \* redb table __data__{table}: key -> row
  idx,     \* redb table __idx__: the composite keys, as <<value, key>>
  active,  \* Executor.tx is Some(TxState)
  log,     \* TxState.undo_log
  lock,    \* who holds the mutex around tx for longer than one step
  pc,      \* where each thread is
  stmt,    \* the statement it executes
  rows,    \* INSERT: VALUES rows not handled yet, head first
  scan,    \* UPDATE, DELETE: scanned rows not handled yet, by key
  op,      \* the row operation in progress
  outcome, \* how the last transaction ended, for whoever began it
  hist     \* auxiliary: the table at BEGIN, then after each recorded write

disk  == <<data, idx>>
tx    == <<active, log, lock, outcome, hist>>
local == <<stmt, rows, scan, op>>
vars  == <<data, idx, active, log, lock, outcome, hist, pc, stmt, rows, scan, op>>

Steps == {"insert", "update", "delete", "probe", "fetch", "unindex", "write",
          "index", "record", "undo", "current"}
Labels == Steps \cup {"idle", "release", "gone"}

Init ==
  /\ data = EmptyTable /\ idx = {}
  /\ active = FALSE /\ log = <<>> /\ lock = None
  /\ outcome = "none" /\ hist = <<>>
  /\ pc   = [c \in Clients |-> "idle"]
  /\ stmt = [c \in Clients |-> NoStmt]
  /\ rows = [c \in Clients |-> <<>>]
  /\ scan = [c \in Clients |-> EmptyTable]
  /\ op   = [c \in Clients |-> NoOp]

-----------------------------------------------------------------------------
Goto(c, label) == pc' = [pc EXCEPT ![c] = label]

(* The thread leaves its statement, with Ok or with Err.                   *)
Leave(c, label) ==
  /\ Goto(c, label)
  /\ stmt' = [stmt EXCEPT ![c] = NoStmt]
  /\ rows' = [rows EXCEPT ![c] = <<>>]
  /\ scan' = [scan EXCEPT ![c] = EmptyTable]
  /\ op'   = [op EXCEPT ![c] = NoOp]
Fail(c) == Leave(c, "idle") /\ UNCHANGED <<disk, tx>>

Starts(c) == pc[c] = "idle" /\ Len(log) < MaxLog
DropLast(s) == SubSeq(s, 1, Len(s) - 1)

(* Row r with the SET list applied.                                        *)
Assigned(r, set) == [pk |-> IF set.pk = None THEN r.pk ELSE set.pk,
                     v  |-> IF set.v  = None THEN r.v  ELSE set.v]

(* The composite keys of a row in the index.                               *)
Entries(r) == IF r = NoRow THEN {} ELSE {<<r.v, r.pk>>}

(* Variant: UNIQUE is checked for INSERT alone.                            *)
ClashesOnInsert(r, excluded) ==
  /\ Unique /\ r.v # NULL /\ excluded = {}
  /\ \E k \in Pks : data[k] # NoRow /\ data[k].v = r.v

(* check_unique_constraints finds the value of r in a stored row whose     *)
(* primary-key column is not an excluded one.                              *)
Clashes(r, excluded) ==
  /\ Unique /\ r.v # NULL
  /\ \E k \in Pks : /\ data[k] # NoRow
                    /\ data[k].v = r.v
                    /\ data[k].pk \notin excluded

(* The keys get_row finds a row under.                                     *)
StoredKeys == {k \in Pks : data[k] # NoRow}

(* scan_table, filtered by the WHERE clause.                               *)
Matching(where) == [k \in Pks |-> IF data[k] \in where THEN data[k] ELSE NoRow]
IsNext(t, k) == t[k] # NoRow /\ \A j \in Pks : t[j] # NoRow => k <= j

-----------------------------------------------------------------------------
(* INSERT: one VALUES row after another.                                   *)

StartInsert(c) ==
  /\ Starts(c)
  /\ \E s \in Statements \cap Inserts :
       /\ stmt' = [stmt EXCEPT ![c] = s]
       /\ rows' = [rows EXCEPT ![c] = s.rows]
  /\ Goto(c, "insert")
  /\ UNCHANGED <<disk, tx, scan, op>>

(* Variant: a skipped row stays at the head of the list.                   *)
NextValuesStays(c) == Goto(c, "insert") /\ UNCHANGED rows

NextValues(c) ==
  /\ rows' = [rows EXCEPT ![c] = Tail(rows[c])]
  /\ Goto(c, "insert")

(* validate_row, then check_unique_constraints on a scan of the table. A   *)
(* UNIQUE violation is skipped by DO NOTHING alone; DO UPDATE fails.       *)
InsertRow(c) ==
  /\ pc[c] = "insert" /\ rows[c] # <<>>
  /\ LET r == Head(rows[c]).row IN
     \/ /\ r \notin Valid \/ (Clashes(r, {}) /\ stmt[c].conflict # "nothing")
        /\ Fail(c)
     \/ /\ r \in Valid /\ Clashes(r, {}) /\ stmt[c].conflict = "nothing"
        /\ NextValues(c)
        /\ UNCHANGED <<disk, tx, stmt, scan, op>>
     \/ /\ r \in Valid /\ ~Clashes(r, {})
        /\ op' = [op EXCEPT ![c] = [mode |-> "insert", key |-> r.pk,
                                    old |-> NoRow, new |-> r]]
        /\ Goto(c, "probe")
        /\ UNCHANGED <<disk, tx, stmt, rows, scan>>

(* insert_row looks the key up in a read transaction and writes in another *)
(* one. PrimaryKeyConflict goes by the ON CONFLICT clause.                 *)
InsertProbe(c) ==
  /\ pc[c] = "probe" /\ op[c].mode = "insert"
  /\ \/ data[op[c].key] = NoRow /\ Goto(c, "write") /\ UNCHANGED <<disk, tx, local>>
     \/ /\ data[op[c].key] # NoRow /\ stmt[c].conflict = "error"
        /\ Fail(c)
     \/ /\ data[op[c].key] # NoRow /\ stmt[c].conflict = "nothing"
        /\ NextValues(c)
        /\ op' = [op EXCEPT ![c] = NoOp]
        /\ UNCHANGED <<disk, tx, stmt, scan>>
     \/ /\ data[op[c].key] # NoRow /\ stmt[c].conflict = "update"
        /\ Goto(c, "fetch")
        /\ UNCHANGED <<disk, tx, local>>

(* DO UPDATE reads the row of the raw key, which need not be the one that  *)
(* is in the way, and merges the assignments into it, with no validation   *)
(* and no UNIQUE check.  No raw key, or no row under it, is an error.      *)
UpsertFetch(c) ==
  /\ pc[c] = "fetch"
  /\ LET k == Head(rows[c]).key IN
     \/ k \notin StoredKeys /\ Fail(c)
     \/ /\ k \in StoredKeys
        /\ op' = [op EXCEPT ![c] = [mode |-> "upsert", key |-> k, old |-> data[k],
                                    new |-> Assigned(data[k], stmt[c].set)]]
        /\ Goto(c, "write")
        /\ UNCHANGED <<disk, tx, stmt, rows, scan>>

-----------------------------------------------------------------------------
(* UPDATE and DELETE: the rows of one scan, in key order.                  *)

StartUpdate(c) ==
  /\ Starts(c)
  /\ \E s \in Statements \cap Updates :
       /\ stmt' = [stmt EXCEPT ![c] = s]
       /\ scan' = [scan EXCEPT ![c] = Matching(s.where)]
  /\ Goto(c, "update")
  /\ UNCHANGED <<disk, tx, rows, op>>

StartDelete(c) ==
  /\ Starts(c)
  /\ \E s \in Statements \cap Deletes :
       /\ stmt' = [stmt EXCEPT ![c] = s]
       /\ scan' = [scan EXCEPT ![c] = Matching(s.where)]
  /\ Goto(c, "delete")
  /\ UNCHANGED <<disk, tx, rows, op>>

(* Variant: UPDATE may assign the primary key.                             *)
RefusedButPk(set, r, n) == n \notin Valid \/ Clashes(n, {r.pk})

(* The new row n is validated, the primary key may not be assigned, and    *)
(* the UNIQUE check leaves out the row r being updated.                    *)
Refused(set, r, n) == n \notin Valid \/ set.pk # None \/ Clashes(n, {r.pk})

UpdateRow(c) ==
  /\ pc[c] = "update"
  /\ \E k \in Pks :
       /\ IsNext(scan[c], k)
       /\ LET r == scan[c][k]
              n == Assigned(r, stmt[c].set)
          IN
          \/ Refused(stmt[c].set, r, n) /\ Fail(c)
          \/ /\ ~Refused(stmt[c].set, r, n)
             /\ op' = [op EXCEPT ![c] = [mode |-> "update", key |-> r.pk,
                                         old |-> r, new |-> n]]
             /\ scan' = [scan EXCEPT ![c][k] = NoRow]
             /\ Goto(c, "unindex")
             /\ UNCHANGED <<disk, tx, stmt, rows>>

DeleteRow(c) ==
  /\ pc[c] = "delete"
  /\ \E k \in Pks :
       /\ IsNext(scan[c], k)
       /\ op' = [op EXCEPT ![c] = [mode |-> "delete", key |-> scan[c][k].pk,
                                   old |-> scan[c][k], new |-> NoRow]]
       /\ scan' = [scan EXCEPT ![c][k] = NoRow]
       /\ Goto(c, "unindex")
       /\ UNCHANGED <<disk, tx, stmt, rows>>

FinishStatement(c) ==
  /\ \/ pc[c] = "insert" /\ rows[c] = <<>>
     \/ pc[c] \in {"update", "delete"} /\ scan[c] = EmptyTable
  /\ Leave(c, "idle")
  /\ UNCHANGED <<disk, tx>>

-----------------------------------------------------------------------------
(* The engine writes a row operation consists of. They serve statements    *)
(* and the replay of the undo log alike.                                   *)

(* remove_indexes_for_delete, before the row is overwritten or deleted.    *)
RemoveIndexes(c) ==
  /\ pc[c] = "unindex"
  /\ idx' = idx \ Entries(op[c].old)
  /\ Goto(c, "write")
  /\ UNCHANGED <<data, tx, local>>

(* The write transaction of insert_row, update_row or delete_row: each     *)
(* writes blindly. Deletes and DO UPDATE touch no index afterwards.        *)
WriteRow(c) ==
  /\ pc[c] = "write"
  /\ data' = [data EXCEPT ![op[c].key] = op[c].new]
  /\ Goto(c, CASE op[c].mode \in {"upsert", "delete"} -> "record"
               [] op[c].mode = "undoIns" -> "undo"
               [] OTHER -> "index")
  /\ UNCHANGED <<idx, tx, local>>

(* update_indexes_for_insert, after the row is written.                    *)
AddIndexes(c) ==
  /\ pc[c] = "index"
  /\ idx' = idx \cup Entries(op[c].new)
  /\ Goto(c, IF op[c].mode \in WriteModes THEN "record" ELSE "undo")
  /\ UNCHANGED <<data, tx, local>>

(* Variants: the entry of an UPDATE, or of a DELETE, has the row after it. *)
EntryOfNewUpdate(o) ==
  [kind |-> IF o.mode = "insert" THEN "ins" ELSE IF o.mode = "delete" THEN "del" ELSE "upd",
   key  |-> o.key, row |-> IF o.mode = "delete" THEN o.old ELSE o.new]
EntryOfNewDelete(o) ==
  [kind |-> IF o.mode = "insert" THEN "ins" ELSE IF o.mode = "delete" THEN "del" ELSE "upd",
   key  |-> o.key, row |-> IF o.mode = "update" THEN o.old ELSE o.new]

(* The entry that undoes row operation o.                                  *)
EntryOf(o) ==
  CASE o.mode = "insert" -> [kind |-> "ins", key |-> o.key, row |-> o.new]
    [] o.mode = "delete" -> [kind |-> "del", key |-> o.key, row |-> o.old]
    [] OTHER             -> [kind |-> "upd", key |-> o.key, row |-> o.old]

(* Variant: the log is pushed to without the lock.                         *)
RecordUndoUnlocked(c) ==
  /\ pc[c] = "record"
  /\ log'  = IF active THEN Append(log, EntryOf(op[c])) ELSE log
  /\ hist' = IF active THEN Append(hist, data) ELSE hist
  /\ op' = [op EXCEPT ![c] = NoOp]
  /\ rows' = [rows EXCEPT ![c] = IF stmt[c].op = "insert" THEN Tail(@) ELSE @]
  /\ Goto(c, stmt[c].op)
  /\ UNCHANGED <<disk, active, lock, outcome, stmt, scan>>

(* record_undo takes the lock after the row is written and pushes only     *)
(* when a transaction, whoever began it, is open at that moment.           *)
RecordUndo(c) ==
  /\ pc[c] = "record" /\ lock = None
  /\ log'  = IF active THEN Append(log, EntryOf(op[c])) ELSE log
  /\ hist' = IF active THEN Append(hist, data) ELSE hist
  /\ op' = [op EXCEPT ![c] = NoOp]
  /\ rows' = [rows EXCEPT ![c] = IF stmt[c].op = "insert" THEN Tail(@) ELSE @]
  /\ Goto(c, stmt[c].op)
  /\ UNCHANGED <<disk, active, lock, outcome, stmt, scan>>

-----------------------------------------------------------------------------
(* BEGIN, COMMIT, ROLLBACK. What a client is refused (a nested BEGIN, a    *)
(* COMMIT or ROLLBACK without a transaction) changes nothing.              *)

Begin(c) ==
  /\ pc[c] = "idle" /\ "begin" \in Controls
  /\ lock = None /\ ~active
  /\ active' = TRUE /\ outcome' = "none"
  /\ hist' = <<data>>
  /\ UNCHANGED <<disk, log, lock, pc, local>>

Commit(c) ==
  /\ pc[c] = "idle" /\ "commit" \in Controls
  /\ lock = None /\ active
  /\ active' = FALSE /\ outcome' = "committed"
  /\ log' = <<>> /\ hist' = <<>>
  /\ UNCHANGED <<disk, lock, pc, local>>

(* Variant: the replay does not take the lock.                             *)
StartReplayUnlocked(c, s) ==
  /\ active
  /\ lock' = c
  /\ stmt' = [stmt EXCEPT ![c] = s]
  /\ Goto(c, "undo")
  /\ UNCHANGED <<disk, active, log, outcome, hist, rows, scan, op>>

(* ROLLBACK, and Drop of the last clone, hold the lock during the replay.  *)
StartReplay(c, s) ==
  /\ lock = None /\ active
  /\ lock' = c
  /\ stmt' = [stmt EXCEPT ![c] = s]
  /\ Goto(c, "undo")
  /\ UNCHANGED <<disk, active, log, outcome, hist, rows, scan, op>>

StartRollback(c) ==
  /\ pc[c] = "idle" /\ "rollback" \in Controls
  /\ StartReplay(c, Rollback)

(* undo_entry of the last entry, popped first.                             *)
UndoOp(e) ==
  CASE e.kind = "ins" -> [mode |-> "undoIns", key |-> e.key, old |-> e.row, new |-> NoRow]
    [] e.kind = "upd" -> [mode |-> "undoUpd", key |-> e.key, old |-> NoRow, new |-> e.row]
    [] e.kind = "del" -> [mode |-> "undoDel", key |-> e.key, old |-> NoRow, new |-> e.row]

(* Variant: the entries are replayed oldest first.                         *)
PopUndoOldest(c) ==
  /\ pc[c] = "undo" /\ log # <<>>
  /\ LET e == Head(log) IN
       /\ op' = [op EXCEPT ![c] = UndoOp(e)]
       /\ Goto(c, CASE e.kind = "ins" -> "unindex"
                    [] e.kind = "upd" -> "current"
                    [] e.kind = "del" -> "probe")
  /\ log' = Tail(log) /\ hist' = DropLast(hist)
  /\ UNCHANGED <<disk, active, lock, outcome, stmt, rows, scan>>

PopUndo(c) ==
  /\ pc[c] = "undo" /\ log # <<>>
  /\ LET e == log[Len(log)] IN
       /\ op' = [op EXCEPT ![c] = UndoOp(e)]
       /\ Goto(c, CASE e.kind = "ins" -> "unindex"
                    [] e.kind = "upd" -> "current"
                    [] e.kind = "del" -> "probe")
  /\ log' = DropLast(log) /\ hist' = DropLast(hist)
  /\ UNCHANGED <<disk, active, lock, outcome, stmt, rows, scan>>

(* Variant: the index entries of the current row are left in place.        *)
UndoCurrentKept(c) ==
  /\ pc[c] = "current"
  /\ Goto(c, "unindex")
  /\ UNCHANGED <<disk, tx, local>>

(* get_row: the index entries to remove are those of the current row.      *)
UndoCurrent(c) ==
  /\ pc[c] = "current"
  /\ op' = [op EXCEPT ![c].old = data[op[c].key]]
  /\ Goto(c, "unindex")
  /\ UNCHANGED <<disk, tx, stmt, rows, scan>>

(* A deleted row is put back with insert_row: a row that took its key      *)
(* meanwhile makes the entry fail, and the replay goes on with the next.   *)
UndoProbe(c) ==
  /\ pc[c] = "probe" /\ op[c].mode = "undoDel"
  /\ Goto(c, IF data[op[c].key] = NoRow THEN "write" ELSE "undo")
  /\ UNCHANGED <<disk, tx, local>>

EndReplay(c) ==
  /\ pc[c] = "undo" /\ log = <<>>
  /\ active' = FALSE /\ outcome' = "aborted" /\ hist' = <<>> /\ lock' = None
  /\ Leave(c, IF stmt[c].op = "drop" THEN "release" ELSE "idle")
  /\ UNCHANGED <<disk, log>>

-----------------------------------------------------------------------------
(* Drop for Executor, and the end of the process.                          *)

(* Variant: the last clone is dropped like any other.                      *)
StartDropSilent(c) ==
  /\ pc[c] = "idle" /\ "drop" \in Controls
  /\ Goto(c, "release")
  /\ UNCHANGED <<disk, tx, local>>

(* Drop reads strong_count before its own reference is given back.         *)
StartDrop(c) ==
  /\ pc[c] = "idle" /\ "drop" \in Controls
  /\ LET last == \A d \in Clients \ {c} : pc[d] = "gone" IN
     \/ last /\ StartReplay(c, Drop)
     \/ /\ ~last \/ (lock = None /\ ~active)
        /\ Goto(c, "release")
        /\ UNCHANGED <<disk, tx, local>>

Release(c) ==
  /\ pc[c] = "release"
  /\ Goto(c, "gone")
  /\ UNCHANGED <<disk, tx, local>>

(* Executor::new on the same engine: the old transaction state is freed.   *)
Fresh ==
  /\ active' = FALSE /\ log' = <<>> /\ lock' = None /\ hist' = <<>>
  /\ outcome' = IF active THEN "aborted" ELSE outcome
  /\ pc'   = [c \in Clients |-> "idle"]
  /\ stmt' = [c \in Clients |-> NoStmt]
  /\ rows' = [c \in Clients |-> <<>>]
  /\ scan' = [c \in Clients |-> EmptyTable]
  /\ op'   = [c \in Clients |-> NoOp]
  /\ UNCHANGED disk

Reopen == Clients # {} /\ (\A c \in Clients : pc[c] = "gone") /\ Fresh

(* The process dies: every engine write is durable, nothing else is.       *)
Crash == "crash" \in Controls /\ Fresh

-----------------------------------------------------------------------------
(* The steps of a call that has begun.                                     *)
Proceed(c) ==
  \/ InsertRow(c) \/ InsertProbe(c) \/ UpsertFetch(c)
  \/ UpdateRow(c) \/ DeleteRow(c) \/ FinishStatement(c)
  \/ RemoveIndexes(c) \/ WriteRow(c) \/ AddIndexes(c) \/ RecordUndo(c)
  \/ PopUndo(c) \/ UndoCurrent(c) \/ UndoProbe(c) \/ EndReplay(c)
  \/ Release(c)

Call(c) ==
  \/ StartInsert(c) \/ StartUpdate(c) \/ StartDelete(c)
  \/ Begin(c) \/ Commit(c) \/ StartRollback(c) \/ StartDrop(c)

Next == (\E c \in Clients : Call(c) \/ Proceed(c)) \/ Reopen \/ Crash

Spec == Init /\ [][Next]_vars

(* A thread inside a call is scheduled again; clients need not call.       *)
FairSpec == Spec /\ \A c \in Clients : WF_vars(Proceed(c))

-----------------------------------------------------------------------------
(* Properties.                                                             *)

UndoSteps == {"undo", "current", "probe", "unindex", "write", "index"}

(* The step of a thread fits the row operation and the statement it is in. *)
StepOK(c) ==
  /\ pc[c] \in {"unindex", "write", "index", "record", "fetch", "probe", "current"} =>
       /\ op[c] \in RowOp
       /\ op[c].mode \in {"insert", "upsert"} => stmt[c].op = "insert" /\ rows[c] # <<>>
       /\ op[c].mode \in {"update", "delete"} => stmt[c].op = op[c].mode
       /\ op[c].mode \notin WriteModes => stmt[c].op \in {"rollback", "drop"}
  /\ pc[c] = "record"  => op[c].mode \in WriteModes
  /\ pc[c] = "fetch"   => op[c].mode = "insert" /\ stmt[c].conflict = "update"
  /\ pc[c] = "current" => op[c].mode = "undoUpd"
  /\ pc[c] = "probe"   => op[c].mode \in {"insert", "undoDel"}
  /\ pc[c] \in {"insert", "update", "delete"} => stmt[c].op = pc[c]
  /\ pc[c] = "undo" => stmt[c].op \in {"rollback", "drop"}
  /\ pc[c] \in {"idle", "release", "gone"} => stmt[c] = NoStmt

TypeOK ==
  /\ data \in Table
  /\ idx \subseteq ((Vals \cup {NULL}) \X Pks)
  /\ active \in BOOLEAN
  /\ log \in Seq(UndoEntry)
  /\ lock \in Clients \cup {None}
  /\ outcome \in {"none", "committed", "aborted"}
  /\ hist \in Seq(Table)
  /\ pc \in [Clients -> Labels]
  /\ stmt \in [Clients -> Stmt]
  /\ rows \in [Clients -> Seq(Given)]
  /\ scan \in [Clients -> Table]
  /\ op \in [Clients -> RowOp \cup {NoOp}]
  /\ \A c \in Clients : StepOK(c)

(* A replay of the undo log holds the transaction mutex from its first to  *)
(* its last entry: no two threads replay at once, and the transaction they *)
(* replay is still open (executor.rs, replay_undo_log under its guard).    *)
Replaying(c) == stmt[c] \in {Rollback, Drop}
ReplayExclusive ==
  /\ \A c \in Clients : Replaying(c) => lock = c /\ active
  /\ lock # None => Replaying(lock)
  /\ ~active => log = <<>> /\ hist = <<>>

(* While a replay runs nobody adds an undo entry: the log only shrinks, so *)
(* the loop that pops it comes to an end (executor.rs, replay_undo_log).   *)
ReplayShrinksLog ==
  [][lock # None => /\ Len(log') <= Len(log)
                    /\ \A i \in 1..Len(log') : log'[i] = log[i]]_vars

(* A replay that began ends, whatever the other threads do meanwhile.      *)
ReplayEnds == \A c \in Clients : (pc[c] = "undo") ~> (pc[c] \in {"idle", "release"})

(* Every row is stored under its own primary key, in the table and in the  *)
(* undo log: get_row, update_row and delete_row by pk_value find it.       *)
KeyMatches ==
  /\ \A k \in Pks : data[k] # NoRow => data[k].pk = k
  /\ \A i \in 1..Len(log) : log[i].row.pk = log[i].key

(* ROLLBACK restores the state before the transaction began (the comment   *)
(* of execute_rollback), no other statement being in progress at its end.  *)
RollbackRestores ==
  \A c \in Clients :
    (/\ pc[c] = "undo" /\ log = <<>>
     /\ \A d \in Clients \ {c} : pc[d] \notin Steps)
      => data = hist[1]

(* The undo log leads from the table after each recorded write back to the *)
(* table before it, down to the one at BEGIN: what the reverse replay of   *)
(* replay_undo_log relies on.                                              *)
Undone(e, t) == [t EXCEPT ![e.key] = IF e.kind = "ins" THEN NoRow ELSE e.row]
Undoes(e, before, after) ==
  /\ before = Undone(e, after)
  /\ e.kind = "del" => after[e.key] = NoRow
UndoChain ==
  active => /\ Len(hist) = Len(log) + 1
            /\ \A i \in 1..Len(log) : Undoes(log[i], hist[i], hist[i + 1])

(* Between calls the index holds the entries of the stored rows and no     *)
(* other, so that a lookup through it (IndexScan) returns what a filtered  *)
(* scan returns.                                                           *)
AtRest == \A c \in Clients : pc[c] \notin Steps
IndexExact == AtRest => idx = UNION {Entries(data[k]) : k \in Pks}

(* NOT NULL and UNIQUE hold of the stored rows at every moment, in the     *)
(* middle of a replay too.                                                 *)
ConstraintsHold ==
  /\ \A k \in Pks : data[k] # NoRow => data[k] \in Valid
  /\ Unique => \A j, k \in Pks :
       (j # k /\ data[j] # NoRow /\ data[k] # NoRow /\ data[j].v = data[k].v)
         => data[j].v = NULL

(* When the last clone of the executor has gone, no transaction is left    *)
(* open: Drop rolled it back.                                              *)
LastDropRollsBack == (\A c \in Clients : pc[c] = "gone") => ~active

(* Every call returns.                                                     *)
CallEnds == \A c \in Clients : (pc[c] \in Steps) ~> (pc[c] \in {"idle", "release"})

(* The executor implements Transaction: what counts as committed is the    *)
(* table at BEGIN while a transaction is open, and the table otherwise.    *)
Txn == INSTANCE Transaction WITH
         Tables    <- Table,
         committed <- IF active THEN hist[1] ELSE data,
         working   <- data,
         open      <- active,
         outcome   <- outcome
ImplementsTransaction == Txn!Spec
=============================================================================
