------------------------------- MODULE Server -------------------------------
(***************************************************************************)
(* The state of the HTTP server (src/src/server/error.rs): the databases   *)
(* that are open, the one that is current, and the RwLock they are behind; *)
(* the handlers that read and change them (src/src/server/handlers.rs),    *)
(* each run by a worker thread from its request to its answer; and the     *)
(* watcher thread, which reloads and removes databases when files change.  *)
(*                                                                         *)
(* A database file is an inode: a name that is removed and created again   *)
(* is another one.  An engine holds its inode open, and redb opens no      *)
(* inode that an engine of the process still holds, so that an instance    *)
(* (DbInstance) is identified with the inode it has open.                  *)
(***************************************************************************)
EXTENDS Watcher, FiniteSets

CONSTANTS
  Clients,     \* worker threads of the server
  Names,       \* names of databases in requests, with and without ".db"
  Loaded,      \* the databases given on the command line, first the current one
  Inodes,      \* inodes; bound: those in the directory or open at a time
  MaxDetached, \* bound: engines that statements after their timeout keep open
  MaxRows,     \* bound: rows of an import request
  Exposed,     \* the files other programs change
  Requests     \* the requests each worker thread gets: what, and for which database

Name   == [stem : Stems, dotdb : BOOLEAN]
(* The name the watcher makes of a path: the file name.                    *)
FileName(s) == [stem |-> s, dotdb |-> TRUE]

ASSUME BoundsAssumption == MaxRows \in Nat /\ MaxDetached \in Nat /\ MaxEvents \in Nat
ASSUME NamesAssumption  ==
  /\ Names \subseteq Name /\ \A s \in Stems : FileName(s) \in Names
  /\ None \notin Inodes \cup Event
ASSUME ThreadsAssumption == "Watcher" \notin Clients /\ Exposed \subseteq Stems
ASSUME LoadedAssumption ==
  /\ Loaded \in Seq(Names) /\ Loaded # <<>>
  /\ \A i, j \in DOMAIN Loaded : Loaded[i].stem = Loaded[j].stem => i = j

VARIABLES
  files,       \* the directory: the inode of {stem}.db
  databases,   \* AppStateInner.databases
  current_db,  \* AppStateInner.current_db
  db_instance, \* AppStateInner.db_instance
  readers,     \* the RwLock: read guards of each thread
  waiting,     \* the RwLock: threads that wait to write
  task,        \* the request each worker thread handles and where it is in it
  detached,    \* engines of statements that go on after their timeout
  away,        \* auxiliary: files that are gone and were notified as modified
               \* when they went or after it
  refused      \* auxiliary: files whose last reload failed

watch == <<events, quiet, job, lost, away, refused>>
inner == <<databases, current_db, db_instance>>
vars  == <<events, quiet, job, lost, away, refused, files, databases, current_db,
           db_instance, readers, waiting, task, detached>>

-----------------------------------------------------------------------------
Idle == [op |-> "idle", at |-> "idle", name |-> None, left |-> 0, inst |-> None]
Ops  == {"idle", "query", "look", "import", "comment", "switch", "switchnew",
         "create", "delete", "export"}
ASSUME RequestsAssumption ==
  \A c \in Clients : Requests[c] \subseteq [op : Ops \ {"idle"}, name : Names \cup {None}]

At(c, label) == task[c].at = label
Op(c) == task[c].op

(* AppState::new_multi opens the databases it is given, all of them there  *)
(* or made; the first is current.                                          *)
Init ==
  /\ WatcherInit
  /\ databases \in [Names -> Inodes \cup {None}]
  /\ \A n \in Names : databases[n] # None <=> \E k \in DOMAIN Loaded : Loaded[k] = n
  /\ \A m, n \in Names : databases[m] # None /\ databases[m] = databases[n] => m = n
  /\ files = [s \in Stems |-> LET ns == {n \in Names : n.stem = s /\ databases[n] # None} IN
                IF ns = {} THEN None ELSE databases[CHOOSE n \in ns : TRUE]]
  /\ current_db = Loaded[1] /\ db_instance = databases[current_db]
  /\ readers = [c \in Clients |-> 0] /\ waiting = {}
  /\ task = [c \in Clients |-> Idle]
  /\ detached = {} /\ away = {} /\ refused = {}

-----------------------------------------------------------------------------
(* The lock.  A reader waits for the writers that wait (std on Linux); a   *)
(* writer does its work in one step, in which no thread holds a guard.     *)
Free == \A c \in Clients : readers[c] = 0
CanRead == waiting = {}

(* The redb engine: which inodes it has open, and RedbEngine::open, which  *)
(* creates the file that is missing and refuses one that is open; it also  *)
(* fails for what is no database or cannot be read.  To open a database is *)
(* to write to it, and so is to close it.                                  *)
Alive(i) == \/ \E n \in Names : databases[n] = i
            \/ i = db_instance \/ i \in detached
            \/ \E c \in Clients : task[c].inst = i
Unused(i) == ~Alive(i) /\ \A s \in Stems : files[s] # i

EventOf(s, kind) == [stem |-> s, kind |-> kind]
Tell(es) ==
  /\ Notify(es)
  /\ away' = {s \in Stems : files'[s] = None /\
                 (s \in away \/ \E k \in DOMAIN es : es[k] = EventOf(s, "modify"))}

(* The kernel names a written file by its entry in the directory, and one  *)
(* that is gone by the entry it had, of which the model knows nothing.     *)
NamesOf(i) == {s \in Stems : files[s] = i \/ \A r \in Stems : files[r] # i}
Writes(i)  == {<<>>} \cup {<<EventOf(s, "modify")>> : s \in NamesOf(i)}

(* Variant: a file may be opened again.                                    *)
MayOpenTwice(s, i) == IF files[s] = None THEN Unused(i) ELSE i = files[s]
MayOpen(s, i) == IF files[s] = None THEN Unused(i) ELSE i = files[s] /\ ~Alive(i)
Opening(s) == <<EventOf(s, IF files[s] = None THEN "modify" ELSE "access"), EventOf(s, "modify")>>
Open(s, i, more) ==
  /\ MayOpen(s, i)
  /\ files' = [files EXCEPT ![s] = i]
  /\ Tell(Opening(s) \o more)
OpenFails(s) ==
  /\ UNCHANGED files
  /\ Tell(IF files[s] = None THEN <<>> ELSE <<EventOf(s, "access")>>)

-----------------------------------------------------------------------------
(* Requests.                                                               *)
Guards(op) == CASE op = "look" -> 1 [] op = "comment" -> 1 [] OTHER -> 0

Arrive(c) == \E q \in Requests[c], rows \in 0..MaxRows :
  /\ At(c, "idle")
  /\ q.op \in {"switch", "switchnew", "create", "delete"} => q.name \in Names
  /\ task' = [task EXCEPT ![c] =
       [op |-> q.op, at |-> IF q.op = "switch" THEN "write" ELSE "lock", name |-> q.name,
        left |-> IF q.op = "import" THEN rows ELSE Guards(q.op), inst |-> None]]
  /\ UNCHANGED <<watch, files, inner, readers, waiting, detached>>

Lock(c) ==
  /\ At(c, "lock") /\ CanRead
  /\ readers' = [readers EXCEPT ![c] = @ + 1]
  /\ task' = [task EXCEPT ![c].at = "locked"]
  /\ UNCHANGED <<watch, files, inner, waiting, detached>>

Unlock(c) == readers' = [readers EXCEPT ![c] = @ - 1]
Done(c)   == task' = [task EXCEPT ![c] = Idle]

(* Variant: the first guard is still held when the second is taken.        *)
LookNested(c) ==
  /\ At(c, "locked") /\ Op(c) \in {"look", "comment"}
  /\ IF task[c].left = 0 THEN readers' = [readers EXCEPT ![c] = 0] /\ Done(c)
     ELSE task' = [task EXCEPT ![c].at = "lock", ![c].left = @ - 1] /\ UNCHANGED readers
  /\ UNCHANGED <<watch, files, inner, waiting, detached>>

(* health_check, get_metrics and list_databases take one guard after the   *)
(* other, and so does set_comment: the schema it read under the first is   *)
(* written to the engine that is current under the second.                 *)
Look(c) ==
  /\ At(c, "locked") /\ Op(c) \in {"look", "comment"}
  /\ Unlock(c)
  /\ IF task[c].left = 0 THEN Done(c)
     ELSE task' = [task EXCEPT ![c].at = "lock", ![c].left = @ - 1]
  /\ UNCHANGED files
  /\ IF task[c].left = 0 /\ Op(c) = "comment" THEN \E w \in Writes(db_instance) : Tell(w)
     ELSE Tell(<<>>)
  /\ UNCHANGED <<quiet, job, refused, inner, waiting, detached>>

(* execute_query runs the statement under its guard; after the timeout the *)
(* statement goes on in a thread of its own with a clone of the executor.  *)
Query(c) ==
  /\ At(c, "locked") /\ Op(c) = "query"
  /\ \/ UNCHANGED detached
     \/ Cardinality(detached) < MaxDetached /\ detached' = detached \cup {db_instance}
  /\ Unlock(c) /\ Done(c)
  /\ UNCHANGED files /\ \E w \in Writes(db_instance) : Tell(w)
  /\ UNCHANGED <<quiet, job, refused, inner, waiting>>

Detached(i) ==
  /\ i \in detached /\ detached' \in {detached, detached \ {i}}
  /\ UNCHANGED files /\ \E w \in Writes(i) : Tell(w)
  /\ UNCHANGED <<quiet, job, refused, inner, readers, waiting, task>>

(* import_data takes a second guard for each row while it holds the first. *)
ImportRow(c) ==
  /\ At(c, "locked") /\ Op(c) = "import" /\ task[c].left > 0
  /\ task' = [task EXCEPT ![c].at = "relock"]
  /\ UNCHANGED <<watch, files, inner, readers, waiting, detached>>

Relock(c) ==
  /\ At(c, "relock") /\ CanRead
  /\ readers' = [readers EXCEPT ![c] = @ + 1]
  /\ task' = [task EXCEPT ![c].at = "insert"]
  /\ UNCHANGED <<watch, files, inner, waiting, detached>>

(* insert_row, and the end of the iteration; an error ends the request and *)
(* drops both guards.                                                      *)
InsertRow(c) ==
  /\ At(c, "insert")
  /\ \/ Unlock(c) /\ task' = [task EXCEPT ![c].at = "locked", ![c].left = @ - 1]
     \/ readers' = [readers EXCEPT ![c] = 0] /\ Done(c)
  /\ UNCHANGED files /\ \E w \in Writes(db_instance) : Tell(w)
  /\ UNCHANGED <<quiet, job, refused, inner, waiting, detached>>

EndImport(c) ==
  /\ At(c, "locked") /\ Op(c) = "import" /\ task[c].left = 0
  /\ Unlock(c) /\ Done(c)
  /\ UNCHANGED <<watch, files, inner, waiting, detached>>

(* export_database clones the engine and drops the guard.                  *)
StartExport(c) ==
  /\ At(c, "locked") /\ Op(c) = "export"
  /\ Unlock(c) /\ task' = [task EXCEPT ![c].at = "export", ![c].inst = db_instance]
  /\ UNCHANGED <<watch, files, inner, waiting, detached>>

EndExport(c) ==
  /\ At(c, "export") /\ Done(c)
  /\ UNCHANGED files /\ \E w \in Writes(task[c].inst) : Tell(w)
  /\ UNCHANGED <<quiet, job, refused, inner, readers, waiting, detached>>

(* delete_database refuses the current database; the path it builds for    *)
(* another has a backslash in it and names no file here.                   *)
Delete(c) ==
  /\ At(c, "locked") /\ Op(c) = "delete"
  /\ Unlock(c) /\ Done(c)
  /\ UNCHANGED <<watch, files, inner, waiting, detached>>

(* switch_database with "create": list_databases, which holds the names of *)
(* the open databases and of the files.                                    *)
Listed(n) == databases[FileName(n.stem)] # None \/ files[n.stem] # None

List(c) ==
  /\ At(c, "locked") /\ Op(c) = "switchnew" /\ task[c].left = 0
  /\ Unlock(c)
  /\ task' = [task EXCEPT ![c].at = IF Listed(task[c].name) THEN "write" ELSE "lock",
                          ![c].left = 1]
  /\ UNCHANGED <<watch, files, inner, waiting, detached>>

(* create_database opens the file and closes it again.                     *)
Create(c) ==
  /\ At(c, "locked")
  /\ Op(c) = "create" \/ (Op(c) = "switchnew" /\ task[c].left = 1)
  /\ Unlock(c)
  /\ \/ /\ \E i \in Inodes : Open(task[c].name.stem, i, <<>>)
        /\ task' = [task EXCEPT ![c].at = "write"]
     \/ OpenFails(task[c].name.stem) /\ Done(c)
  /\ UNCHANGED <<quiet, job, refused, inner, waiting, detached>>

(* A writer that finds the lock taken waits, and readers after it.         *)
WantsToWrite(w) == IF w \in Clients THEN At(w, "write") ELSE job # None
Wait(w) ==
  /\ WantsToWrite(w) /\ w \notin waiting /\ ~Free
  /\ waiting' = waiting \cup {w}
  /\ UNCHANGED <<watch, files, inner, readers, task, detached>>

(* switch_db.                                                              *)
Serve(n, i) ==
  /\ current_db' = n /\ db_instance' = i
  /\ databases' = [databases EXCEPT ![n] = i]

(* The engine that was current and is in the map under no name is closed.  *)
SwitchTo(n) ==
  /\ \/ /\ databases[n] # None /\ Serve(n, databases[n])
        /\ UNCHANGED files /\ \E w \in Writes(db_instance) : Tell(w)
     \/ /\ databases[n] = None
        /\ \E i \in Inodes, w \in Writes(db_instance) : Open(n.stem, i, w) /\ Serve(n, i)
     \/ databases[n] = None /\ OpenFails(n.stem) /\ UNCHANGED inner
  /\ UNCHANGED <<quiet, job, refused>>

(* Variant: the switch does not take the write lock.                       *)
SwitchUnlocked(c) ==
  /\ At(c, "write") /\ SwitchTo(task[c].name)
  /\ Done(c) /\ waiting' = waiting \ {c}
  /\ UNCHANGED <<readers, detached>>
Switch(c) ==
  /\ At(c, "write") /\ Free /\ SwitchTo(task[c].name)
  /\ Done(c) /\ waiting' = waiting \ {c}
  /\ UNCHANGED <<readers, detached>>

-----------------------------------------------------------------------------
(* The callback of the watcher: "Watcher" is its thread.                   *)

(* reload_database: the new engine is opened while the old one is still    *)
(* open; an error leaves everything as it was.  A name that is not in the  *)
(* map is opened like the others.                                          *)
NotReloaded(n) ==
  /\ OpenFails(n.stem) /\ refused' = refused \cup {n.stem} /\ UNCHANGED inner

(* Variant: the current instance is left alone.                            *)
ReloadMapOnly(n) ==
  \/ NotReloaded(n)
  \/ /\ \E i \in Inodes : Open(n.stem, i, <<>>) /\ databases' = [databases EXCEPT ![n] = i]
     /\ refused' = refused \ {n.stem} /\ UNCHANGED <<current_db, db_instance>>

Reload(n) ==
  \/ NotReloaded(n)
  \/ /\ \E i \in Inodes :
          /\ Open(n.stem, i, <<>>)
          /\ databases' = [databases EXCEPT ![n] = i]
          /\ db_instance' = IF current_db = n THEN i ELSE db_instance
     /\ refused' = refused \ {n.stem} /\ UNCHANGED current_db

(* remove_database: when the current database goes, any other one becomes  *)
(* current; when there is none, it stays.  An engine nobody holds any more *)
(* is closed.                                                              *)
Closes(n) ==
  /\ UNCHANGED files /\ refused' = refused \ {n.stem}
  /\ IF databases[n] = None THEN Tell(<<>>) ELSE \E w \in Writes(databases[n]) : Tell(w)

(* Variants: the next database need not be open; only the current one is   *)
(* taken out of the map.                                                   *)
RemoveToAny(n) ==
  /\ databases' = [databases EXCEPT ![n] = None]
  /\ IF current_db = n THEN \E m \in Names : current_db' = m /\ db_instance' = databases'[m]
     ELSE UNCHANGED <<current_db, db_instance>>
  /\ Closes(n)
RemoveCurrent(n) ==
  /\ IF current_db = n /\ \E m \in Names \ {n} : databases[m] # None
     THEN /\ databases' = [databases EXCEPT ![n] = None]
          /\ \E m \in Names \ {n} : /\ databases[m] # None
                                    /\ current_db' = m /\ db_instance' = databases[m]
     ELSE UNCHANGED inner
  /\ Closes(n)
Remove(n) ==
  /\ databases' = [databases EXCEPT ![n] = None]
  /\ IF current_db = n /\ \E m \in Names \ {n} : databases[m] # None
     THEN \E m \in Names \ {n} : /\ databases[m] # None
                                 /\ current_db' = m /\ db_instance' = databases[m]
     ELSE UNCHANGED <<current_db, db_instance>>
  /\ Closes(n)

(* Variant: every event reloads.                                           *)
CallbackReloads ==
  /\ job # None /\ Free
  /\ Reload(FileName(job.stem))
  /\ job' = None /\ waiting' = waiting \ {"Watcher"}
  /\ UNCHANGED <<quiet, readers, task, detached>>
Callback ==
  /\ job # None /\ Free
  /\ IF job.kind = "remove" THEN Remove(FileName(job.stem)) ELSE Reload(FileName(job.stem))
  /\ job' = None /\ waiting' = waiting \ {"Watcher"}
  /\ UNCHANGED <<quiet, readers, task, detached>>

WatcherStep == Take /\ UNCHANGED <<away, refused, files, inner, readers, waiting, task, detached>>
TimePasses  == \E s \in Stems :
  Calm(s) /\ UNCHANGED <<away, refused, files, inner, readers, waiting, task, detached>>

(* Other programs put a file in place, also one they have moved away and   *)
(* that is still open; they move one away, remove or change one.  A file   *)
(* that is moved is notified as modified, under both its names.            *)
PutFile(s) ==
  /\ \E i \in Inodes : /\ \A r \in Stems : files[r] # i
                        /\ files' = [files EXCEPT ![s] = i]
  /\ Tell(<<EventOf(s, "modify")>>)
MoveAway(s) ==
  /\ files[s] # None /\ files' = [files EXCEPT ![s] = None]
  /\ Tell(<<EventOf(s, "modify")>>)
RemoveFile(s) ==
  /\ files[s] # None /\ files' = [files EXCEPT ![s] = None]
  /\ Tell(<<EventOf(s, "remove")>>)
TouchFile(s) ==
  /\ files[s] # None /\ UNCHANGED files /\ Tell(<<EventOf(s, "modify")>>)
Outside == \E s \in Exposed :
  /\ PutFile(s) \/ MoveAway(s) \/ RemoveFile(s) \/ TouchFile(s)
  /\ UNCHANGED <<quiet, job, refused, inner, readers, waiting, task, detached>>

-----------------------------------------------------------------------------
Step(c) ==
  \/ Look(c) \/ Query(c) \/ ImportRow(c) \/ InsertRow(c) \/ EndImport(c)
  \/ StartExport(c) \/ EndExport(c) \/ Delete(c) \/ List(c) \/ Create(c) \/ Switch(c)

Next ==
  \/ \E c \in Clients : Arrive(c) \/ Lock(c) \/ Relock(c) \/ Step(c)
  \/ \E w \in Clients \cup {"Watcher"} : Wait(w)
  \/ \E i \in Inodes : Detached(i)
  \/ WatcherStep \/ TimePasses \/ Callback \/ Outside

Spec == Init /\ [][Next]_vars

(* Threads are scheduled, and a thread that waits for a guard gets it when *)
(* it can have it again and again.                                         *)
Fairness ==
  /\ \A c \in Clients : /\ WF_vars(Step(c) \/ Wait(c))
                        /\ SF_vars(Lock(c)) /\ SF_vars(Relock(c))
  /\ WF_vars(Callback \/ Wait("Watcher"))
FairSpec == Spec /\ Fairness

-----------------------------------------------------------------------------
(* Every variable has its type.                                            *)
TypeOK ==
  /\ WatcherTypeOK
  /\ files \in [Stems -> Inodes \cup {None}]
  /\ databases \in [Names -> Inodes \cup {None}]
  /\ current_db \in Names /\ db_instance \in Inodes
  /\ readers \in [Clients -> 0..2] /\ waiting \subseteq Clients \cup {"Watcher"}
  /\ detached \subseteq Inodes /\ away \subseteq Stems /\ refused \subseteq Stems
  /\ \A c \in Clients :
       /\ task[c].op \in Ops /\ task[c].name \in Names \cup {None}
       /\ task[c].left \in Nat /\ task[c].inst \in Inodes \cup {None}
       /\ At(c, "write") \/ Op(c) \in {"switchnew", "create", "delete"} => task[c].name \in Names

(* The instance requests are served from is held twice, as the current one *)
(* and in the map: through every switch, reload and removal the two are    *)
(* the same engine, as long as the map has the current name at all.        *)
ServedIsNamed == databases[current_db] # None => databases[current_db] = db_instance

(* No file is served under two names, though requests may name it with and *)
(* without ".db" and the watcher uses the file name.                       *)
OneNameEach == \A m, n \in Names : databases[m] # None /\ databases[m] = databases[n] => m = n

(* A database served under its file name whose file was removed, moved     *)
(* away or replaced does not stay so unnoticed: an event of the file is on *)
(* its way or was swallowed, or the watcher tried the file as it is and    *)
(* could not open it, which nothing tries again.                           *)
Pending(s) == \/ s \in lost \/ (job # None /\ job.stem = s)
              \/ \E i \in DOMAIN events : events[i].stem = s /\ Changes(events[i])
StaleEntryExplained ==
  \A s \in Stems : LET i == databases[FileName(s)] IN
    i # None /\ i # files[s] /\ ~Pending(s) => s \in refused

(* Reloading a database whose file is gone creates an empty one.  The      *)
(* watcher does so only for a file that was notified as modified when it   *)
(* went or after it - moved away, or written by an engine that still has   *)
(* it open -, or when the event of its removal is still to come or was     *)
(* swallowed.                                                              *)
RevivalExplained ==
  [][\A s \in Stems : Callback /\ files[s] = None /\ files'[s] # None =>
       s \in lost \cup away \/ \E i \in DOMAIN events : events[i] = EventOf(s, "remove")]_vars

(* While a thread holds a guard, neither the current database nor the      *)
(* instance it reads changes.                                              *)
StableUnderGuard ==
  [][(\E c \in Clients : readers[c] > 0 /\ readers'[c] > 0) => UNCHANGED inner]_vars

(* Threads that wait for the lock wait for a thread that can go on: the    *)
(* only deadlock is an import that wants its second guard while a writer   *)
(* waits for its first one to go.                                          *)
Blocked(c) == \/ (At(c, "lock") \/ At(c, "relock")) /\ ~CanRead
              \/ At(c, "write") /\ ~Free
ImportStuck == waiting # {} /\ \E c \in Clients : At(c, "relock")
SomebodyMoves ==
  (\E c \in Clients : Blocked(c)) =>
    \/ ImportStuck
    \/ \E c \in Clients : ~At(c, "idle") /\ ~Blocked(c)
    \/ job # None /\ Free

(* A query is answered within its time, whatever runs besides it.          *)
QueriesReturn == \A c \in Clients : Op(c) = "query" ~> Op(c) # "query"
=============================================================================
