# Verification of RustMinidb

TLA+ specifications, TLC runs and TLAPS proofs for RustMinidb, an embedded SQL
database in Rust over the redb key-value store, with an HTTP server in front.
Source paths below are relative to the repository root.

## 1. The system

| Component | State it keeps | Operations | What must hold |
|---|---|---|---|
| SQL executor (`src/sql/executor.rs`) | `Arc<Mutex<Option<TxState>>>`: an undo log, shared by all clones | INSERT, UPSERT, UPDATE, DELETE, BEGIN, COMMIT, ROLLBACK, DDL, SELECT; drop of the last clone rolls back; `execute_with_timeout` leaves a thread behind | transactions all or nothing; index exact; UNIQUE and NOT NULL kept; calls return |
| redb engine (`src/storage/redb_engine.rs`) | per table: schema, rows by key bytes, index metadata, index entries | every trait method is one redb transaction, except `insert_row`, `update_row`, `create_index`, which are two or three | index and rows agree; a table made again is empty |
| planner and evaluation (`src/sql/planner.rs`, `executor.rs`, `parser.rs`) | none | plan choice, WHERE, LIKE, comparison, aggregates, ORDER BY | an index lookup returns what the filter would |
| encoding (`src/storage/encoding.rs`) | none | `serialize_value`, `deserialize_value` | byte order is value order; round trip |
| server state (`src/server/error.rs`, `handlers.rs`) | `RwLock` around the open databases, the current one and its instance | query, import, switch, create, delete, comment, export, reload, remove | the served instance is the one under the current name; no file under two names; nobody stuck |
| file watcher (`src/watcher.rs`) | event channel, debounce times, running flag | notify callback, 2 s debounce, callback, stop | a removed or replaced file does not stay served unnoticed |
| metrics (`src/monitor.rs`) | atomic counters, histogram, handler list | record, snapshot, publish | no lost count; extremes right; a snapshot torn by no more than what it overlaps |
| export/import (`src/migration.rs`) | none | table by table export, statement splitting, import | an import that reports success has restored every row |
| shell (`src/main.rs`) | an executor per database, the current one | statements, `.use`, `.monitor`, `.exit` | no half transaction when it ends |
| config, auth, banner, embedding API | none | terminal and HTTP plumbing | outside the models |

Threads: the HTTP server runs a handler per request, the watcher has its own
thread, and `execute_with_timeout` starts one per statement. They meet in the
executor's transaction mutex, in redb (one writer, snapshot readers) and in the
server's `RwLock`. What is hard is therefore the order of steps of several
threads between two engine calls, the undo log that is in memory while rows are
on disk, and results computed from one snapshot and used on a later one.
`PROJECT.json` lists these hazards with their lines.

## 2. Modules

| Module | What it is |
|---|---|
| `Executor` | one table, one index, the executor's statements at engine-call grain; properties at its end |
| `Transaction` | what BEGIN/COMMIT/ROLLBACK promise; `Executor` implements it for one client |
| `MCExecutor` | the statements and instances TLC uses |
| `Catalog` | tables, indexes and the statements that change or rely on their catalogue |
| `Watcher` | the file watcher's channel, debounce and callback |
| `Server` | open databases, the lock, the request handlers; extends `Watcher` |
| `Values`, `Rows`, `Query`, `Dump` | values; keys and the order of a sort; SELECT from syntax tree to rows; export and import |
| `Monitor`, `Shell` | query counters; the interactive shell, which records them |
| `MCCatalog`, `MCServer`, `MCSql`, `MCShell` | the instances TLC uses |
| `ExecutorProofs` | theorems for any number of clients: types, the replay and its lock |
| `RollbackProofs` | theorems about keys, and for one client about ROLLBACK, the refinement of `Transaction`, the index, NOT NULL and UNIQUE |
| `CatalogProofs` | theorems about the catalogue for any clients, tables, indexes and columns |
| `ServerProofs` | theorems about the databases, the lock and the watcher, for any threads, names and files; when a served database is stale |
| `ShellProofs` | theorems about the counters, for any threads, and the shell |
| `RowsProofs` | theorems about values, their keys and the order of a sort; lemmas about sequences |
| `QueryProofs` | lemmas about every query over any table: plans, pages, sorts, groups, conditions, LIKE |
| `DumpProofs` | theorems about export and import, and about queries in every state of module `Dump` |

### Executor

`data` is the redb table `__data__{table}`, `idx` the composite keys
`<<value, key>>` of `__idx__`. `active` and `log` are `Option<TxState>` and its
`undo_log`; `lock` is the mutex around them while a replay holds it (BEGIN, COMMIT and
`record_undo` hold it for one step). Each client is a thread with a program
label `pc`, its statement, the VALUES rows (`rows`, of `Given`) or scanned rows (`scan`) it has
left, and the row operation `op` it is in the middle of. Two auxiliary variables
appear in no guard: `hist` records the table at BEGIN and after every recorded write, and
`outcome` how the last transaction ended.

A row write is a chain of engine calls, each a step: `RemoveIndexes`,
`WriteRow`, `AddIndexes`, then `RecordUndo`.

| Statement | Steps |
|---|---|
| INSERT, per row | `InsertRow` (validate, UNIQUE scan), `InsertProbe` (does the key exist), `WriteRow`, `AddIndexes`, `RecordUndo` |
| ... DO UPDATE | `UpsertFetch`, of the row under the raw key, and if there is one `WriteRow`, `RecordUndo`: no validation, no index maintenance |
| UPDATE, per scanned row | `UpdateRow`, `RemoveIndexes`, `WriteRow`, `AddIndexes`, `RecordUndo` |
| DELETE, per scanned row | `DeleteRow`, `RemoveIndexes`, `WriteRow`, `RecordUndo` |
| ROLLBACK, per entry | `PopUndo`, then for an insert `RemoveIndexes`, `WriteRow`; for an update `UndoCurrent`, `RemoveIndexes`, `WriteRow`, `AddIndexes`; for a delete `UndoProbe`, `WriteRow`, `AddIndexes`; at the end `EndReplay` |

Abstractions: a row has its key and one more column; a WHERE clause is the set
of rows it accepts (the code evaluates it on the scanned row alone); the rows
`validate_row` accepts are the constant `Valid`; keys are naturals, whose
big-endian bytes are ordered as they are; a row of VALUES (`Given`) is the row it is stored as - its
columns in their order, coerced, AUTO_INCREMENT filled in - and the key DO UPDATE goes by, which is the
raw value that stands in the primary key's place of the schema, whatever column list the statement has;
the index is not created or dropped while clients run; the engine has no I/O
errors. Requests that are refused and change nothing are stuttering steps.

### Catalog

The engine's four catalogues for a set of tables: `schemas` (`__schema__`), `data`,
`indexes` (`__indexes__`) and `entries` (`__idx__...`). A row is a list of values, as in
the code, so that a row written under one schema can be shorter or longer than the next
one. Each client has a frame `run[c]`: the statement, the next engine call (`at`), the
schema it read (`seen`), the row, and what it still has to handle. CREATE, DROP and ALTER
TABLE, CREATE and DROP INDEX, the comment handler, INSERT with AUTO_INCREMENT, DELETE and
the import handler are chains of engine calls. The auxiliary variables `made`, `altered`,
`imported`, `late` and `panicked` appear in no guard. Left out: UNIQUE (see `Executor`),
UPDATE (a `WriteRow` between `RemoveEntry` and `AddEntry` there), transactions around DML.

### Watcher and Server

`Watcher` is the watcher's thread: `events` is the channel, `quiet` the paths of the last 2
seconds in `debounce_map`, `job` the callback under way. `Server` extends it with the
directory (`files`, name to inode), `databases`, `current_db` and `db_instance` of
`AppStateInner`, and the `RwLock` (`readers`, `waiting`). std's lock on Linux lets no
reader pass a waiting writer: `CanRead`. An engine is identified with the inode it holds
open: redb locks the file, so that no inode is open twice (`MayOpen`); an engine lives as
long as the map, the current instance, an export or a statement past its timeout refers to
it (`Alive`). Each worker thread goes from `Arrive` to `Done`; every `state.db()` is a
`Lock`, every `write()` one step, preceded by `Wait` when it must. `Outside` is other
programs that put, move away, remove or touch a file.

What the kernel notifies is external to `src/`: a file that is written, made or moved, out of the
directory too, is a modification, one that is removed a removal, and an open alone an access, which leads
to no callback but silences the path in the debounce. The engines' own writes, of requests, of statements
past their timeout (`Detached`) and when a database is opened or closed, are modifications as well
(`Writes`, `Opening`, `Closes`), also of a file that is no longer in the directory, which the kernel
names by the entry it had (`NamesOf`). Opening a database fails if an engine of the process holds its file,
and may fail for any other reason, a file that is no database among them (`OpenFails`). Two auxiliary
variables appear in no guard: `away` holds the files that are gone and were notified as modified when they
went or after it, `refused` those whose last reload failed.

### Values, Rows, Query, Dump

Pure algorithms, over a table `(id INTEGER PRIMARY KEY, c)` whose state is the rows, the
type of `c` and whether there is an index. A value is its type and a list of numbers (an integer's 8
bytes are one digit). A float is its place in the order of `f64::total_cmp`: n >= 0 is n halves, -n - 1
the same with a minus, so that -0.0 is a value of its own below 0.0. Up to `Exact` every number of halves is a
float, beyond it every fourth, so that an integer is rounded when it is compared with a float, as `as f64` does
beyond 2^53; after `MaxFloat` come infinity and the NaN, one, without sign. Groups go by f64 equality, in which
the zeros are equal and NaN is not equal to itself. Of the texts that read as a number or a time and are
converted for a column of that type only "NaN" is modelled, since the export writes it. `Rows` is `compare_values`, the comparison
of ORDER BY, and `serialize_value` with the prefix lookup of an index. `Query` translates `convert_select`,
`convert_expr_to_where`, `plan_select` and `evaluate_plan` on syntax trees; a plan is a
list of nodes, and each node's result is rows, a panic, or unspecified (`sort_by` with an
order that is none). A condition is a list of nodes too, an AND or OR naming its two by their
places before it, so that everything the code computes by recursion or in a loop is a recursive
function on a number or, for `like_match`, on where the loop stands, and can be proved about.
`Select` is the set of syntax trees the models and the proofs are about. An average is kept as its
sum and count, since a quotient of integers would round: no query of `Select` compares one.
`Dump` adds the export, `split_sql_statements` and the import as a
state machine: the dump is a sequence of tokens in which only what the splitter looks at is
a character. A piece parses if it is the text of one statement whose literals the parser has values for:
an infinite float, written `inf.0`, is none, and a NaN is written as a name, which is read as a text and
converted back. A comment may hold a mark that ends or begins an SQL comment (`Mark`); whether what is left
then parses depends on the rest, so that it may or may not (`Unsure`). A comment that is itself SQL
which makes another table, and the defaults of columns, are left out.

### Monitor and Shell

`Monitor` is `record_query`, `update_extremes` and `snapshot`, one atomic operation per
step, in program order (what the relaxed ordering may do between different atomics is left
out). Its history `calls` counts the queries recorded by kind, that is outcome and duration; `Queries` and
`Micros` are the sets whose sizes the counters should be. `Shell` is the loop of `cmd_shell`: an executor is identified with what its
transaction can undo, as `Transaction` describes it; the session's first executor and the
one in `db_map` are two.

The operators named as variants are the definition that follows them with a bug
planted. No action uses them; they serve to see that a property would notice.

## 3. Runs

| Run | Instance | What it shows |
|---|---|---|
| `executor_alone` | one client, 3 keys, values a, b, t (t is refused by validation) and NULL, UNIQUE column, at most 3 undo entries when a statement starts | ROLLBACK restores the table at BEGIN, entry by entry (`UndoChain`, `RollbackRestores`) and with it the refinement of `Transaction`; the index is exact between calls; UNIQUE and validation hold at every step; the last drop rolls back; every call returns |
| `executor_shared` | two clients, 2 keys, DO UPDATE, clones dropped, crashes, at most 1 undo entry when a statement starts | one replay at a time and only of an open transaction; a replay only shrinks the log and ends; rows stay under their own key although DO UPDATE is not checked (no statement of this run assigns the key in DO UPDATE) and may go by a key that is not that of the row in the way |
| `rollback_race` | two clients | violation: ROLLBACK deletes a row that was there at BEGIN |
| `drop_race` | two clients | violation: two clones dropped at once leave the transaction open, each seeing the other's reference |
| `crash_mid_transaction` | one client and crashes | violation: half a transaction survives a crash |
| `upsert_index` | one client, DO UPDATE | violation: the index is stale after DO UPDATE |
| `catalog` | two clients, one table, one index, one further column; i64::MAX is 1 | index entries are complete whatever the order of CREATE INDEX and INSERT; one CREATE TABLE wins; a table made again is empty but for an INSERT that came late; a column vanishes only by its DROP or by a stale schema written back; panics need an ALTER TABLE |
| `server` | one file under two names, two worker threads (one imports), the watcher, other programs; 3 inodes | the current instance and the map agree; no file under two names; a replaced, moved or removed file is noticed unless an event was swallowed or its last reload failed; the watcher brings a file that is gone back empty only if it was notified as modified when it went or later, or its removal is still to come or was swallowed; the state does not change under a guard; the nested guard is the only deadlock |
| `import_deadlock` | one inode, an import and a query, with fairness | violation: a query waits for ever behind an import and the watcher |
| `sql` | up to 3 rows of each type, -0.0, 0.0, infinity and NaN among the floats, 47 conditions, 14 queries, all patterns up to 3 characters, pages of 1 and 2 rows, dumps with 4 comments | the answer does not depend on the plan; negations split the table; LIKE is right; pages tile; groups partition; headers fit; panics and failures of the import are explained; a restore is complete |
| `index_answers` | the same with up to 2 rows | violation: a text is found by its prefix |
| `console` | two threads, 4 recorded queries, 3 names of 2 files | no lost update; a bounded tear; no half transaction after the shell; `.use` keeps transactions open |

Bounds. Two keys let a multi-row statement fail on its second row and let two
rows collide on UNIQUE; three keys add a row that takes no part. `MaxLog`
limits the undo log when a statement starts; three entries are enough for an
insert, an update and a delete of one row undone in one replay. Nothing else is
bounded in `Executor`: clients issue statements for ever.

`catalog`: two clients are enough for every race of two statements; the keys are 1 and the
wrapped one. `server`: `MaxEvents` = 1 makes the channel overflow, which stands for the
kernel's queue; one import of one row takes its second guard; one statement may outlive its timeout. Three
inodes let a file be replaced while its predecessor is still open and one more is made. `sql`: `MaxInt` is 7, `Exact` 8 and `MaxFloat` 16, so that integers beyond 4 are rounded as
floats; the integers stored are -2 and 1, one of each sign, and the keys of two batches fit in a dump. The
characters are two letters, an upper case one, quote, semicolon, backslash, the wildcards and the mark of a comment. `console`:
`MaxCalls` and `MaxOthers` bound the queries recorded; the shell may always leave.

`MCShell` and `MCServerImport` do not check for deadlock: the shell ends with `.exit`, and the
deadlock of an import is what the property of the other is about.

Fairness. `WF_vars(Proceed(c))`: a thread inside a call is scheduled again. A
client need not call. The mutex is not fair (`std::sync::Mutex`), so that no
property says that `record_undo` of one thread is not overtaken for ever by
BEGIN/ROLLBACK cycles of another; that a replay ends needs no more than weak
fairness because nobody else can push while it holds the mutex.

`Server.FairSpec`: worker threads and the watcher's callback are scheduled, and a thread
that could take its guard again and again gets it (strong fairness: the lock serves its
waiters). `import_deadlock` violates `QueriesReturn` all the same: no lock is ever free again.

## 4. Proofs

The theorems of the modules named `...Proofs` are checked by TLAPS. They hold for all values of the constants
that meet the assumptions of the modules and the hypothesis in the second column.

| Theorem | For | Says |
|---|---|---|
| `TypeCorrect`, `OneReplay`, `ReplayOnlyShrinks` | any clients | `TypeOK`, `ReplayExclusive`, `ReplayShrinksLog` of `Executor` |
| `KeysMatch` | any clients, `KeysKept` | `KeyMatches` |
| `LogLeadsBack`, `RollbackRestoresTable` | one client, `KeysKept`, crashes or not | `UndoChain`, `RollbackRestores` |
| `DropRollsBack` | one client | `LastDropRollsBack` |
| `Implements` | one client, `KeysKept`, no crash | `ImplementsTransaction` |
| `IndexStaysExact` | one client, `NoUpserts`, no crash | `IndexExact` |
| `ConstraintsAlwaysHold` | one client, `NoUpserts`, crashes or not | `ConstraintsHold` |
| `Typed`, `OneCreates`, `PanicAfterAlter` | any clients, tables, indexes, columns | `TypeOK`, `CreatedOnce`, `PanicNeedsAlter` of `Catalog` |
| `IndexesComplete`, `CreateFindsEmpty`, `ColumnsVanishRightly` | the same | `IndexComplete`, `CreatedEmpty`, `ColumnsVanish` |
| `ServerTypeCorrect` | any threads, names, files | `TypeOK` of `Server` |
| `ServesWhatItNames`, `FilesHaveOneName` | the same | `ServedIsNamed`, `OneNameEach` |
| `OnlyImportsDeadlock`, `GuardsAreStable` | the same | `SomebodyMoves`, `StableUnderGuard` |
| `RevivalsExplained`, `StaleEntriesExplained` | the same | `RevivalExplained`, `StaleEntryExplained` |
| `NothingIsHalf`, `TransactionsOutlive` | any names and files | `NothingHalf`, `TransactionOutlives` of `Shell` |
| `CountersAgree` | any threads and durations | `MetricsAgree` |
| `SnapshotsTearLittle` | finitely many threads | `SnapshotTear` |
| `CompareIsOrder` | values of one type | `compare_values` is a total preorder |
| `SortIsOrder` | columns with values of one type, without NULL | `sort_by` gets an order |
| `IndexFindsValue` | values of one type | the prefix lookup of an index finds the value and, for Text alone, more |
| `NegativeKeysLast` | integers | key order is integer order among those of one sign |
| `KeysDecode` | integers, texts, NULL | `deserialize_value` inverts `serialize_value` |
| `DumpTyped` | any rows, comments and batch size | the table has the type its columns say, through every export and import |
| `EveryRowRestored`, `FailuresExplained` | the same | `RestoresAll`, `FailureExplained` of `Dump` |
| `AnyPlanAnswers`, `NegationsLeaveTheRest` | any rows, any conditions of one node | `PlanKeepsAnswer`, `NegationSplits` of `Query` |
| `LikeFindsEveryMatch` | patterns and texts of any length | `LikeFinds` |
| `LookupsFindTheValue` | a column of any type but Text | `IndexScanIsEquality`, which `index_answers` violates for texts |
| `PagesJoinToAnswers` | any rows, any query of `Select`, pages of any size | `PagesTile` |
| `PanicsHaveReasons` | any rows, any query of `Select` | `PanicExplained` |
| `HeadersFitRows`, `GroupsAreTheRows` | the same | `HeaderFits`, `GroupsPartition` |

Assumptions on constants. `Executor`: keys are naturals, `NoRow` is no row, `None` is no client and no key,
statements are INSERTs, UPDATEs and DELETEs. `Catalog`: CREATE TABLE gives the primary key and
some of `Columns`, `None` is no schema, row or column. `Server`: requests name databases of `Names`,
every file on the command line has its own stem, no thread is called "Watcher", `None` is no inode and no
event. `Shell`: the databases opened beside the primary one are on different files. `Values`: the largest
integer is positive and odd; every number of halves up to `Exact` and every fourth up to `MaxFloat` is a float, both
bounds multiples of four, and every integer is within them. `Query`: keys are integers of the width, what values are made of fits their types
(`DataAssumption`), conditions and queries are syntax trees of `Leaf` and `Select`. `Dump`: quote,
backslash, semicolon and the comment mark are characters and the quote is neither backslash nor semicolon; the text of a timestamp,
digits and separators, holds no backslash.

Hypotheses. `KeysKept` says that no DO UPDATE clause assigns the primary key, which the code does
not check. `NoUpserts` says that no statement has a DO UPDATE clause: it maintains no index and
validates nothing, and `upsert_index` is the counterexample. "One client" and "no crash" cannot be
dropped either: `rollback_race`, `drop_race` and `crash_mid_transaction` are counterexamples, and a
crash between a row and its index entry leaves the index short of one.

### The arguments

Executor. `TypeOK` alone is not inductive: `WriteRow` needs to know that `op`
is a row operation, hence `StepOK`, which ties the label of a thread to its
statement and its row operation. `ReplayExclusive` is inductive given `TypeOK`:
`StepKinds` shows that only seven actions touch the transaction state, and that every
other step is `Quiet`. `KeyMatches` needs the rows a thread carries (`scan`, `op`) to be under their
keys as well: `KeyInv`.

ROLLBACK. `UndoChain` says that entry i leads from `hist[i + 1]` back to
`hist[i]`. It is preserved only if the table recorded last is the one the log
accounts for, which between a write and its entry, and between popping an entry and
undoing it, is not `data`. `Top` says which table it is: `data` with the old row at
the key of a write not yet logged, or with the new row of an entry not yet undone.
`UndoInv` is `UndoChain`, `hist[Len(hist)] = Top(c)`, and that scanned rows
and the row about to be replaced are those of the table (`ScanFresh`,
`OpFresh`), which is where a second client breaks it. When the log is empty,
`hist` has one element, `Top(c) = data`, so `data = hist[1]`. For the
refinement `WriteRow` is `Write`, `EndReplay` is `Abort`, BEGIN and COMMIT are
themselves, and every other step changes nothing `Transaction` sees.

Index and constraints, over the invariants of ROLLBACK. In the middle of a row operation the index is
that of another table than `data`: `Indexed` is `data` without the key between the removal of the old
entries and the addition of the new ones, and `IndexInv` says that `idx = Exact(Indexed(c))`, with the
old row of the operation the one whose entries were removed (`OldFresh`). For the constraints, a
ROLLBACK brings back tables that were stored before, so `SoundInv` says of every table of `hist`, and not
of `data` alone, that its rows are valid and have no value twice; `NewFits` keeps of the UNIQUE scan that the
row about to be written collides with no other.

Catalogue. `IInv` ties together what a client carries from one engine call to the next and what is
stored. `FramesOK` says what the frame of a client holds at each label. Until a table is
altered, the schemas clients have seen are the one CREATE TABLE gives and rows are as long (`TablesNew`).
`Covered`: a row without its entry in an index has somebody at work who will add it, the INSERT that wrote
it or the CREATE INDEX that has it still to scan. With nobody at work this is `IndexComplete`.
`NoLateRow`: a table that does not exist holds rows only if a late INSERT put them there.

Server. `ServerInv` adds to the types which guards a thread holds at each point of its
handler (`Held`) and that whoever waits wants to write. The first bounds the guards and shows that a
thread in the way of a writer can go on unless it is an import that takes its second guard; the second
that the writer in the way of a reader can. `InnerChangesTo` reduces every change of the
databases to three: one that is open is chosen, a fresh engine is put under a name, a name is
taken out. `ServedIsNamed` and `OneNameEach` survive each of them, the latter because redb opens no
file that is still open. For the watcher, `GoneInv` says that in the channel the events of a file that is gone
end with its removal, as long as none was swallowed and the file was not notified as modified when it went or after
it (`away`); so a reload that finds its file gone has a removal behind it, or the file is in `away` or `lost`. A
served entry goes stale when its file is put, moved or removed, each of which puts an event in the channel; the event is
used up by the debounce, which makes it `lost`, by a removal, which takes the entry out, or by a reload, which either
brings the entry up to date or puts the file in `refused`, where it stays until a reload succeeds or a removal is handled.

Counters. `Sums`: each counter, plus what the threads under way will still add to it, is what `Queries`
and `Micros` count. The sets of threads under way change by one thread a step. For the extremes, `ExtremeInv`
says that a query more extreme than the stored value has a thread with its loop still to finish, that the stored
value is that of a query, and that a thread about to exchange would improve on what it loaded (`InHand`).
For `SnapshotTear`, the total is successes, failures and the threads between the two additions
(`Balanced`), and those number no more than the calls the snapshot overlaps.

Shell. What is stored is `Stored`, what was kept and what each executor can undo; a statement adds to both
sides, and the two executors on the primary file undo different transactions.

Keys. `IndexFindsValue` goes by the shape of a key: a tag and a fixed number of digits, where a prefix must
be all of it, or a tag and the characters of a text, where it need not. `SortIsOrder` takes the first
column in which two rows differ; that there is a first is well-founded induction over the numbers
(`LeastNumber`, from the library's facts on well-founded relations).

Queries. `QueryProofs` shows what `Query` promises of any table that is `Typed`: finitely many rows, keys of
64 bits, values of the column's type or NULL, no two rows with one key. A plan runs node by node
(`PlanStep`), and `SelectRuns` cuts `execute_select` into what it finds, groups, orders, projects and
limits. Each of these stages has its lemma. For `PlanKeepsAnswer`: the key of an index entry
tells the row it was made for, because it ends with the primary key (`EntriesIdentify`), so that a lookup
by key, by index and by a filter find the rows with the value. For `NegationSplits`: a negated
condition of one node holds where the positive one does not. For `PagesTile`: a page cuts one and the same answer, since the
plan below LIMIT is the same, and consecutive cuts join (`PagesJoin`, by induction on the number of pages).
For `PanicExplained`: only conditions and sorts panic, and rows of the table are as wide as its columns.
For `GroupsPartition`: each row belongs to the group
of exactly one of the rows that begin one (`Beginnings`, listed by `BeginningsAsMet`), also where keys are NaN, and a sort that is not
contradictory permutes them (`SortPermutes`). For `HeaderFits`: every stage keeps the width of its rows, and a sort
over groups compares only columns that they have, or it would have panicked (`GroupsCompare`).

LIKE. The loop goes back to the last `%` only. `LoopFinds` says that it answers TRUE just when
something is left to match, either from where it stands or from a later place at the last `%`
(`StaysOnTrack`): an earlier `%` need not take more, since the last one can take it instead (`Along`). It is
proved by induction on what is left of the text after the last `%` and then of the pattern, which
every turn makes less (`LoopFalls`).

Export and import. A text is read token by token (`ReachesStep`), so that the splitter reads two texts, one
after the other, as it reads each. A clean statement, one that leaves the splitter outside of strings and that no
semicolon ends before its end, becomes a piece of its own (`BlockRead`, `Splits`). No two statements have one text, since each shows the
key of its first row (`DumpTexts`), so a piece is read as one statement or not at all; and what a literal
is read back as is the value it was written for (`RowsReturn`), for numbers by `FloatBack`,
and by `IntegerBack`, where the least integer is read as a float, since the parser reads it without its minus. `DumpInv` is what ties the steps of the import together: what
is left to load are the texts of the last statements of the dump, and the rows of the statements before them are
back (`Resumed`). With a plain comment alone
it says that the CREATE TABLE is read before any row is, which is what `FailureExplained` needs. `RestoresAll` alone is not inductive:
it speaks of the end only.

### Model-checked only

The liveness properties `ReplayEnds` and `CallEnds`: TLAPS has no rule for fairness and ENABLED. Every other property of a
passing run is stated by a theorem. The violation runs are what they are, counterexamples on an instance.

## 5. What the models brought to light

Beside the violation runs, these are consequences of the code that the properties name as
their exceptions or that the models leave as they are:

- `WHERE c = v` keeps rows with NULL in a filter (NULL compares Equal to everything) and
  drops them through an index; a literal of another numeric type finds nothing through an index.
- The bytes of a negative integer key come after those of every other (`NegativeKeysLast`), although
  `src/src/storage/encoding.rs:8` gives big-endian order as what keeps redb's B-tree sorted: rows come
  in key order only among keys of one sign. No lookup depends on it; a SELECT without ORDER BY shows it.
- A percent sign in a text is taken for the one of the pattern, and the wildcard is used up: `'%x' LIKE '%'` is false.
  `LikeFinds` is about texts without one.
- Integers and floats together have no order: beyond 2^53 two integers may equal one float and differ from
  each other. No ORDER BY of a column meets it, since a column's values are of one type once converted.
- Every NaN is a group of its own; -0.0 and 0.0 are one group but two values to a filter, `-0.0 = 0.0` is false.
- DO UPDATE changes the row under the raw value in the primary key's place of the schema, which with a column
  list, a converted key or AUTO_INCREMENT is another row than the one in the way, or none, and then an error.
- `SELECT c AS x` projects the first column: the planner knows the column by its alias only.
- ORDER BY and HAVING over an aggregate address the rows by the table's columns and may panic;
  GROUP BY over no rows gives a row narrower than the header.
- A text with a backslash at its end or before a quote, and a comment with a quote, a semicolon or a comment
  mark, make the import lose statements: without an error, or with one if a row then finds no table. An INSERT
  with a blob or an infinite float (`inf.0`) is skipped as a whole; Boolean and Timestamp columns cannot be
  imported again; UNIQUE, AUTO_INCREMENT and indexes are not exported.
- A reload makes the file it does not find: a database moved out of the directory, or removed while an
  engine still writes to it, comes back empty. A name that is not in the map is opened like the others.
- A database opened as `a` is never reloaded, since the watcher calls it `a.db`; the path
  `delete_database` builds holds a backslash and names no file on Linux.
- `set_comment` may write the schema of one database into another after a switch, and undoes an
  ALTER TABLE that ran in between.
- `fastest_us` takes a query of 0 microseconds for none.
- The shell's first `.use` rolls back the first database's transaction; the other databases
  keep theirs.

## 6. Not modelled

Configuration, banner, argument parsing, the embedding API and the error types keep no state.
Text to syntax trees is the sqlparser crate; the conversion of CREATE, ALTER, INSERT, UPDATE and
DELETE copies fields. Authentication compares a header. The histogram, traces, timers and
event bus of `monitor.rs` are not used by the program. Dialects and options of the export other
than the defaults change wording only. redb itself is taken as what its transactions promise:
each is atomic, durable and serial; I/O errors are left out.

## 7. Plan

1. Conditions with AND and OR: that they are the union and the intersection of what their parts answer, where no part panics.
2. Larger instances of `Catalog` (two tables, two indexes) when only part of the statements runs.
3. The other dialects of the export, where they change what an import reads back.
