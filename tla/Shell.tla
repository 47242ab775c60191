------------------------------- MODULE Shell -------------------------------
(***************************************************************************)
(* The interactive shell (cmd_shell, src/src/main.rs): one thread that     *)
(* reads lines, the databases it has open, the executor it runs statements *)
(* with, and the metrics it records beside threads of the program the      *)
(* library is part of.                                                     *)
(*                                                                         *)
(* The first database has two executors: "first", which the session begins *)
(* with, and the one in the map; a clone of an executor in the map shares  *)
(* its transaction.  The transaction itself is what module Transaction     *)
(* promises: writes are kept by COMMIT and undone when it is aborted.      *)
(* Tables, listings and the messages of the file watcher are left out.     *)
(***************************************************************************)
EXTENDS Monitor

CONSTANTS
  Names,      \* names of databases as typed
  Primary,    \* the first name of the command line
  Others,     \* the other names of the command line, as far as they open
  FileOf,     \* name -> file
  MaxOthers,  \* bound: queries the other threads record
  Session     \* the shell's thread

ASSUME ShellAssumption ==
  /\ Primary \in Names /\ Others \subseteq Names \ {Primary} /\ Session \in Threads
  /\ "first" \notin Names
  /\ \A m, n \in Others \cup {Primary} : FileOf[m] = FileOf[n] => m = n

VARIABLES
  running,    \* the loop has not ended
  current,    \* current_db_name
  executor,   \* current_executor: "first" or a clone of the one under a name of the map
  map,        \* db_map: the names it has
  undo,       \* executor -> the writes of its open transaction
  open,       \* executor -> it has a transaction open
  data,       \* file -> the writes stored
  kept,       \* history: file -> the writes no transaction can undo
  others      \* how many queries the other threads have recorded

svars == <<running, current, executor, map, undo, open, data, kept, others>>
vars == <<mvars, svars>>

Executors == Names \cup {"first"}
Files == {FileOf[n] : n \in Names}
FileFor(e) == IF e = "first" THEN FileOf[Primary] ELSE FileOf[e]
Locked == {FileOf[n] : n \in map}   \* redb locks an open file

ShellInit ==
  /\ running = TRUE /\ current = Primary /\ executor = "first" /\ map = {Primary} \cup Others
  /\ undo = [e \in Executors |-> {}] /\ open = [e \in Executors |-> FALSE]
  /\ data = [f \in Files |-> {}] /\ kept = [f \in Files |-> {}]
  /\ others = 0
Init == ShellInit /\ MonitorInit

Ready == running /\ ~Busy(Session)

(* An executor is dropped: its open transaction is rolled back.            *)
Rollback(e) == /\ data' = [data EXCEPT ![FileFor(e)] = @ \ undo[e]]
               /\ undo' = [undo EXCEPT ![e] = {}] /\ open' = [open EXCEPT ![e] = FALSE]

(* .use of a name in the map, or of a file that opens: not one that is open*)
(* under another name.  The session's first executor goes when it is left. *)
CanUse(name) == name \in map \/ FileOf[name] \notin Locked
(* Variant: the executor that is left is dropped whatever it is.           *)
LeftAny == executor
Left == IF executor = "first" THEN executor ELSE "none"

Use(name) ==
  /\ Ready /\ CanUse(name)
  /\ current' = name /\ executor' = name /\ map' = map \cup {name}
  /\ IF Left = "none" THEN UNCHANGED <<data, undo, open>> ELSE Rollback(Left)
  /\ UNCHANGED <<mvars, running, kept, others>>

(* A statement that succeeds is recorded as a query or as a write, one that*)
(* fails (a BEGIN in a transaction, a COMMIT without, a parse error) adds  *)
(* to error_events only and is left out: record_query(false, ..) is called *)
(* by other threads.                                                       *)
Recorded == \E us \in Durations[Session] : Record(Session, TRUE, us)
             /\ UNCHANGED <<running, current, executor, map, others>>

ShowMetrics == Ready /\ SnapStart(Session) /\ UNCHANGED svars   \* .monitor
Select == Ready /\ Recorded /\ UNCHANGED <<data, kept, undo, open>>
(* A write the file does not hold.                                         *)
NewWrite(f) == CHOOSE w \in 0..Cardinality(data[f]) : w \notin data[f]
Write ==
  LET f == FileFor(executor)  w == NewWrite(f) IN
  /\ Ready /\ Recorded /\ data' = [data EXCEPT ![f] = @ \cup {w}]
  /\ IF open[executor] THEN undo' = [undo EXCEPT ![executor] = @ \cup {w}] /\ UNCHANGED kept
     ELSE kept' = [kept EXCEPT ![f] = @ \cup {w}] /\ UNCHANGED undo
  /\ UNCHANGED open
Begin == /\ Ready /\ ~open[executor] /\ Recorded
         /\ open' = [open EXCEPT ![executor] = TRUE] /\ UNCHANGED <<data, kept, undo>>
Commit == /\ Ready /\ open[executor] /\ Recorded
          /\ kept' = [kept EXCEPT ![FileFor(executor)] = @ \cup undo[executor]]
          /\ undo' = [undo EXCEPT ![executor] = {}] /\ open' = [open EXCEPT ![executor] = FALSE]
          /\ UNCHANGED data
RollbackStatement == Ready /\ open[executor] /\ Recorded /\ Rollback(executor) /\ UNCHANGED kept

(* The loop ends (.exit, .quit or the end of the input): all executors are *)
(* dropped, the current one first, so that the map's are the last of theirs*)
Dropped == {executor} \cup map
(* Variant: the executors in the map are not dropped.                      *)
DroppedCurrent == {executor}
LastDropped == Dropped
Exit ==
  /\ Ready /\ running' = FALSE
  /\ data' = [f \in Files |-> data[f] \ UNION {undo[e] : e \in {x \in LastDropped : FileFor(x) = f}}]
  /\ undo' = [e \in Executors |-> IF e \in LastDropped THEN {} ELSE undo[e]]
  /\ open' = [e \in Executors |-> open[e] /\ e \notin LastDropped]
  /\ UNCHANGED <<mvars, current, executor, map, kept, others>>

Line == ShowMetrics \/ Select \/ Write \/ Begin \/ Commit \/ RollbackStatement \/ Exit \/ \E n \in Names : Use(n)

(* Another thread of the program records a query of its own.               *)
Elsewhere ==
  /\ others < MaxOthers /\ others' = others + 1
  /\ \E t \in Threads \ {Session}, ok \in BOOLEAN : \E us \in Durations[t] : Record(t, ok, us)
  /\ UNCHANGED <<running, current, executor, map, undo, open, data, kept>>
Counting == (\E t \in Threads : Step(t)) /\ UNCHANGED svars

Next == Line \/ Elsewhere \/ Counting
Spec == Init /\ [][Next]_vars

-----------------------------------------------------------------------------
(* Between calls the counters are what the queries recorded make them: all *)
(* are counted, the slowest is the slowest of all and the fastest the      *)
(* fastest - unless a query took 0 microseconds, which the fastest takes   *)
(* for no query at all (record_query, update_extremes): no lost update.    *)
MetricsAgree ==
  Recording = {} =>
    /\ total = Cardinality(Queries) /\ time = Cardinality(Micros)
    /\ success = Cardinality({q \in Queries : q[1].ok})
    /\ failed = Cardinality({q \in Queries : ~q[1].ok})
    /\ LET us == {q[1].us : q \in Queries} IN
       us # {} => extreme["slow"] = Max(us) /\ (extreme["fast"] = Min(us) \/ 0 \in us)

(* A snapshot is torn by no more than the calls it overlaps: successes and *)
(* failures differ from the total by at most their number (snapshot loads  *)
(* each counter on its own, record_query adds to each on its own).         *)
SnapshotTear ==
  [][\A t \in Threads : pc[t] = "load failed" /\ pc'[t] = "idle" =>
       LET gap == snap[2] + failed - snap[1] IN -overlap <= gap /\ gap <= overlap]_vars

(* What is stored is what was kept and what an executor can still undo;    *)
(* when the shell has ended nothing is left of a transaction that was open *)
(* in any of its databases, current or not (Drop for Executor through      *)
(* db_map and current_executor).                                           *)
NothingHalf ==
  /\ \A f \in Files : data[f] = kept[f] \cup UNION {undo[e] : e \in {x \in Executors : FileFor(x) = f}}
  /\ ~running => \A f \in Files : data[f] = kept[f]

(* An open transaction outlives every step but its own COMMIT or ROLLBACK, *)
(* the end of the shell and leaving the session's first executor: .use away*)
(* and back finds it open, with its writes (current_executor = exec.clone) *)
(* - except in the first database before the first .use.                   *)
TransactionOutlives ==
  [][\A e \in Executors : open[e] /\ ~open'[e] =>
        \/ executor = e /\ executor' \in {e} \cup (IF e = "first" THEN Names ELSE {})
        \/ ~running']_vars
=============================================================================
