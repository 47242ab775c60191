---------------------------- MODULE ServerProofs ----------------------------
(***************************************************************************)
(* Theorems about Server, for any worker threads, names, files, inodes and *)
(* requests, and any bound on the events the watcher's channel holds: what *)
(* is served, how threads wait for each other, and that a database served  *)
(* though its file was removed or replaced is so for a reason.             *)
(***************************************************************************)
EXTENDS Server, SequenceTheorems, TLAPS

-----------------------------------------------------------------------------
(* Where a worker thread can be, and the guards it holds there.            *)
Labels  == {"idle", "lock", "locked", "relock", "insert", "export", "write"}
Held(l) == IF l \in {"locked", "relock"} THEN 1 ELSE IF l = "insert" THEN 2 ELSE 0
Named   == {"switch", "switchnew", "create", "delete"}
Task    == [op : Ops, at : Labels, name : Names \cup {None}, left : Nat,
            inst : Inodes \cup {None}]

TaskOK(c) ==
  /\ Op(c) \in Named => task[c].name \in Names
  /\ At(c, "write") => Op(c) \in Named
  /\ At(c, "relock") \/ At(c, "insert") => task[c].left > 0

(* TypeOK is not inductive: readers stays below 3 because of where the     *)
(* threads are, and a thread is only taken out of waiting by the step that *)
(* ends its wait.                                                          *)
ThreadsOK ==
  /\ task \in [Clients -> Task] /\ \A c \in Clients : TaskOK(c)
  /\ readers = [c \in Clients |-> Held(task[c].at)]
  /\ waiting \subseteq Clients \cup {"Watcher"} /\ \A w \in waiting : WantsToWrite(w)

StateOK ==
  /\ WatcherTypeOK
  /\ files \in [Stems -> Inodes \cup {None}]
  /\ databases \in [Names -> Inodes \cup {None}]
  /\ current_db \in Names /\ db_instance \in Inodes
  /\ detached \subseteq Inodes /\ away \subseteq Stems /\ refused \subseteq Stems

ServerInv == StateOK /\ ThreadsOK

LEMMA InvTypes == ServerInv => TypeOK
<1> SUFFICES ASSUME ServerInv PROVE TypeOK
  OBVIOUS
<1>1. readers \in [Clients -> 0..2]
  BY DEF ServerInv, ThreadsOK, Held
<1> QED
  BY <1>1 DEF ServerInv, StateOK, ThreadsOK, TypeOK, TaskOK, Task, Named, Op, At

(* A step of one thread keeps the invariant if the thread is right where   *)
(* it arrives, and it does not stay among the waiting.                     *)
LEMMA ThreadMoves ==
  ASSUME ThreadsOK, NEW c \in Clients, NEW t \in Task,
         task' = [task EXCEPT ![c] = t], readers' = [readers EXCEPT ![c] = Held(t.at)],
         t.op \in Named => t.name \in Names,
         t.at = "write" => t.op \in Named,
         t.at \in {"relock", "insert"} => t.left > 0,
         waiting' \subseteq waiting, c \in waiting' => t.at = "write", job' = job
  PROVE  ThreadsOK'
<1>1. task' \in [Clients -> Task]
  BY DEF ThreadsOK
<1>2. \A d \in Clients : TaskOK(d)'
  BY DEF ThreadsOK, TaskOK, Op, At
<1>3. readers' = [d \in Clients |-> Held(task'[d].at)]
  BY DEF ThreadsOK
<1>4. \A w \in waiting' : WantsToWrite(w)'
  BY DEF ThreadsOK, WantsToWrite, At
<1> QED
  BY <1>1, <1>2, <1>3, <1>4 DEF ThreadsOK

-----------------------------------------------------------------------------
(* The watcher's channel keeps its type.                                   *)
LEMMA Joined ==
  ASSUME NEW S, NEW a \in Seq(S), NEW b \in Seq(S)
  PROVE  /\ a \o b \in Seq(S) /\ Len(a \o b) = Len(a) + Len(b)
         /\ \A i \in 1..Len(a) : (a \o b)[i] = a[i]
         /\ \A i \in 1..Len(b) : (a \o b)[Len(a) + i] = b[i]
BY ConcatProperties

LEMMA Prefix ==
  ASSUME NEW S, NEW a \in Seq(S), NEW n \in 0..Len(a)
  PROVE  /\ SubSeq(a, 1, n) \in Seq(S) /\ Len(SubSeq(a, 1, n)) = n
         /\ \A i \in 1..n : SubSeq(a, 1, n)[i] = a[i]
<1>1. n = 0 \/ n >= 1
  OBVIOUS
<1> QED
  BY <1>1, SubSeqProperties

(* What is sent: a number of events is added to the channel, and a path is *)
(* lost if a change of it is among the rest.                               *)
Sent(es, n) ==
  /\ events' \in Seq(Event) /\ Len(events') = Len(events) + n /\ Len(events') <= MaxEvents
  /\ \A i \in 1..Len(events) : events'[i] = events[i]
  /\ \A i \in 1..n : events'[Len(events) + i] = es[i]
  /\ lost' \subseteq Stems
  /\ \A s \in Stems : s \in lost' <=>
       \/ s \in lost /\ \A k \in 1..n : ~(es[k].stem = s /\ Changes(es[k]))
       \/ \E k \in (n + 1)..Len(es) : es[k].stem = s /\ Changes(es[k])

LEMMA NotifySends ==
  ASSUME WatcherTypeOK, NEW es \in Seq(Event), Notify(es)
  PROVE  \E n \in 0..Len(es) : Sent(es, n)
<1>1. PICK n \in 0..Len(es) :
        /\ Len(events) + n <= MaxEvents
        /\ events' = events \o SubSeq(es, 1, n)
        /\ lost' = (lost \ Changed(es, 1..n)) \cup Changed(es, (n + 1)..Len(es))
  BY DEF Notify
<1> DEFINE sub == SubSeq(es, 1, n)
           all == events \o sub
<1>2. events \in Seq(Event) /\ Len(events) \in Nat /\ Len(es) \in Nat /\ lost \subseteq Stems
  BY DEF WatcherTypeOK
<1>3. sub \in Seq(Event) /\ Len(sub) = n /\ \A i \in 1..n : sub[i] = es[i]
  BY Prefix
<1>4. events' = all
  BY <1>1
<1> HIDE DEF sub
<1>5. /\ all \in Seq(Event) /\ Len(all) = Len(events) + Len(sub)
      /\ \A i \in 1..Len(events) : all[i] = events[i]
      /\ \A i \in 1..Len(sub) : all[Len(events) + i] = sub[i]
  BY ONLY <1>2, <1>3, Joined DEF all
<1> HIDE DEF all
<1>6. \A k \in 1..Len(es) : es[k].stem \in Stems
  <2>1. \A k \in 1..Len(es) : es[k] \in Event
    BY ElementOfSeq
  <2> QED
    BY <2>1 DEF Event
<1>7. \A s : s \in Changed(es, 1..n) <=> \E k \in 1..n : es[k].stem = s /\ Changes(es[k])
  BY DEF Changed
<1>8. \A s : s \in Changed(es, (n + 1)..Len(es)) <=>
         \E k \in (n + 1)..Len(es) : es[k].stem = s /\ Changes(es[k])
  BY DEF Changed
<1>9. lost' \subseteq Stems
  BY <1>1, <1>2, <1>6, <1>8
<1>10. \A s \in Stems : s \in lost' <=>
         \/ s \in lost /\ \A k \in 1..n : ~(es[k].stem = s /\ Changes(es[k]))
         \/ \E k \in (n + 1)..Len(es) : es[k].stem = s /\ Changes(es[k])
  BY <1>1, <1>7, <1>8
<1>11. events' \in Seq(Event) /\ Len(events') = Len(events) + n /\ Len(events') <= MaxEvents
  BY <1>1, <1>3, <1>4, <1>5
<1>12. /\ \A i \in 1..Len(events) : events'[i] = events[i]
       /\ \A i \in 1..n : events'[Len(events) + i] = es[i]
  BY <1>3, <1>4, <1>5
<1> QED
  BY <1>9, <1>10, <1>11, <1>12 DEF Sent

ChannelOK == events \in Seq(Event) /\ Len(events) <= MaxEvents /\ lost \subseteq Stems /\ away \subseteq Stems

LEMMA TellType ==
  ASSUME WatcherTypeOK, NEW es \in Seq(Event), Tell(es)
  PROVE  ChannelOK'
BY NotifySends DEF Tell, Sent, ChannelOK

(* The events of the server's own files: none is a removal.                *)
Mild(es) == es \in Seq(Event) /\ \A k \in 1..Len(es) : es[k].kind # "remove"

LEMMA MildOnes ==
  ASSUME NEW s \in Stems
  PROVE  /\ Mild(<<>>) /\ Mild(<<EventOf(s, "modify")>>) /\ Mild(<<EventOf(s, "access")>>)
         /\ <<EventOf(s, "remove")>> \in Seq(Event)
BY DEF Mild, EventOf, Event, Kinds

LEMMA WritesMild ==
  ASSUME NEW i, NEW w \in Writes(i)
  PROVE  Mild(w)
<1>1. Mild(<<>>)
  BY DEF Mild
<1> QED
  BY <1>1, MildOnes DEF Writes, NamesOf

LEMMA OpeningMild ==
  ASSUME NEW s \in Stems, NEW more, Mild(more)
  PROVE  /\ Mild(Opening(s) \o more)
         /\ 1 \in 1..Len(Opening(s) \o more)
         /\ (Opening(s) \o more)[1] = EventOf(s, IF files[s] = None THEN "modify" ELSE "access")
<1> DEFINE op == Opening(s)
           all == op \o more
<1>1. /\ op \in Seq(Event) /\ Len(op) = 2 /\ \A k \in 1..2 : op[k].kind # "remove"
      /\ op[1] = EventOf(s, IF files[s] = None THEN "modify" ELSE "access")
  BY DEF Opening, EventOf, Event, Kinds
<1>2. more \in Seq(Event) /\ Len(more) \in Nat /\ \A k \in 1..Len(more) : more[k].kind # "remove"
  BY DEF Mild
<1> HIDE DEF op
<1>0. op \in Seq(Event) /\ more \in Seq(Event)
  BY <1>1, <1>2
<1>3. /\ all \in Seq(Event) /\ Len(all) = Len(op) + Len(more)
      /\ \A i \in 1..Len(op) : all[i] = op[i]
      /\ \A i \in 1..Len(more) : all[Len(op) + i] = more[i]
  BY ONLY <1>0, Joined DEF all
<1> HIDE DEF all
<1>4. \A k \in 1..Len(all) : k \in 1..2 \/ k - 2 \in 1..Len(more)
  BY <1>1, <1>2, <1>3
<1>6. ASSUME NEW k \in 1..Len(all) PROVE all[k].kind # "remove"
  <2>1. CASE k \in 1..2
    BY <1>1, <1>3, <2>1
  <2>2. CASE k - 2 \in 1..Len(more)
    <3>1. all[Len(op) + (k - 2)] = more[k - 2] /\ Len(op) + (k - 2) = k
      BY <1>1, <1>3, <2>2
    <3> QED
      BY <1>2, <2>2, <3>1
  <2> QED
    BY <1>4, <2>1, <2>2
<1>7. Mild(all) /\ 1 \in 1..Len(all) /\ all[1] = op[1]
  BY <1>1, <1>2, <1>3, <1>6 DEF Mild
<1> QED
  BY <1>1, <1>7 DEF all, op

LEMMA TakeType ==
  ASSUME WatcherTypeOK, Take
  PROVE  WatcherTypeOK'
<1> DEFINE e == Head(events)
<1>1. e \in Event /\ Tail(events) \in Seq(Event) /\ Len(Tail(events)) <= MaxEvents
  BY BoundsAssumption DEF WatcherTypeOK, Take
<1>2. events' \in Seq(Event) /\ Len(events') <= MaxEvents
  BY <1>1 DEF Take
<1>3. CASE Debounced(e)
  BY <1>1, <1>2, <1>3 DEF WatcherTypeOK, Debounced, Event
<1>4. CASE Accepted(e)
  BY <1>1, <1>2, <1>4 DEF WatcherTypeOK, Accepted, Event
<1> QED
  BY <1>3, <1>4 DEF Take

(* Opening a file, or failing to.                                          *)
LEMMA OpenType ==
  ASSUME StateOK, NEW s \in Stems, NEW i \in Inodes, NEW more, Mild(more), Open(s, i, more)
  PROVE  files' \in [Stems -> Inodes \cup {None}] /\ ChannelOK'
<1>1. files' \in [Stems -> Inodes \cup {None}]
  BY DEF Open, StateOK
<1> DEFINE es == Opening(s) \o more
<1>2. es \in Seq(Event)
  BY OpeningMild DEF Mild
<1>3. Tell(es)
  BY DEF Open
<1> HIDE DEF es
<1> QED
  BY <1>1, <1>2, <1>3, TellType DEF StateOK

LEMMA FailType ==
  ASSUME StateOK, NEW s \in Stems, OpenFails(s)
  PROVE  UNCHANGED files /\ \E es : Mild(es) /\ Tell(es)
BY MildOnes DEF OpenFails

LEMMA MildType ==
  ASSUME StateOK, UNCHANGED <<files, quiet, job, refused, inner>>, detached' \subseteq Inodes,
         NEW es, Mild(es), Tell(es)
  PROVE  StateOK'
BY TellType DEF StateOK, WatcherTypeOK, ChannelOK, Mild, inner

-----------------------------------------------------------------------------
LEMMA StateUnchanged ==
  ASSUME StateOK, UNCHANGED <<watch, files, inner>>, detached' \subseteq Inodes
  PROVE  StateOK'
BY DEF StateOK, WatcherTypeOK, watch, inner

LEMMA LoadedNamed == \A k \in DOMAIN Loaded : Loaded[k] \in Names
BY LoadedAssumption

LEMMA NameStems == \A n \in Names : n.stem \in Stems
BY NamesAssumption DEF Name

LEMMA InitInv == Init => ServerInv
<1> SUFFICES ASSUME Init PROVE ServerInv
  OBVIOUS
<1>1. WatcherTypeOK
  BY BoundsAssumption DEF Init, WatcherInit, WatcherTypeOK
<1>2. 1 \in DOMAIN Loaded /\ Loaded[1] \in Names
  BY LoadedAssumption, LoadedNamed
<1>3. current_db \in Names /\ db_instance \in Inodes
  BY <1>2 DEF Init
<1>4. files \in [Stems -> Inodes \cup {None}]
  BY DEF Init
<1>5. Idle \in Task
  BY DEF Idle, Task, Ops, Labels
<1>6. ThreadsOK
  BY <1>5 DEF Init, ThreadsOK, TaskOK, Idle, Op, At, Named, Held
<1> QED
  BY <1>1, <1>3, <1>4, <1>6 DEF Init, StateOK, ServerInv

-----------------------------------------------------------------------------
(* The steps of a thread that change neither databases nor files: what it  *)
(* becomes is a task again.                                                *)
LEMMA QuietSteps ==
  ASSUME ServerInv, NEW c \in Clients,
         \/ Arrive(c) \/ Lock(c) \/ Relock(c) \/ Look(c) \/ Query(c) \/ ImportRow(c)
         \/ InsertRow(c) \/ EndImport(c) \/ StartExport(c) \/ EndExport(c) \/ Delete(c) \/ List(c)
  PROVE  ServerInv'
<1> DEFINE Becomes(t) == /\ task' = [task EXCEPT ![c] = t]
                         /\ readers' = [readers EXCEPT ![c] = Held(t.at)]
                         /\ t \in Task /\ (t.op \in Named => t.name \in Names)
                         /\ (t.at = "write" => t.op \in Named)
                         /\ (t.at \in {"relock", "insert"} => t.left > 0)
<1>1. task \in [Clients -> Task] /\ task[c] \in Task /\ TaskOK(c)
  BY DEF ServerInv, ThreadsOK
<1>2. readers = [d \in Clients |-> Held(task[d].at)] /\ readers[c] = Held(task[c].at)
  BY DEF ServerInv, ThreadsOK
<1>3. Idle \in Task /\ Idle.at = "idle" /\ Idle.op = "idle"
  BY DEF Idle, Task, Ops, Labels
<1>4. ASSUME NEW t, Becomes(t), UNCHANGED waiting, UNCHANGED job, At(c, "write") => t.at = "write"
      PROVE  ThreadsOK'
  <2>1. c \in waiting' => t.at = "write"
    BY <1>4, ThreadsAssumption DEF ServerInv, ThreadsOK, WantsToWrite
  <2>2. t \in Task /\ waiting' \subseteq waiting /\ ThreadsOK
    BY <1>4 DEF ServerInv
  <2> QED
    BY <1>4, <2>1, <2>2, ThreadMoves
<1>5. StateOK' /\ UNCHANGED waiting /\ UNCHANGED job /\ ~At(c, "write")
  <2>1. CASE Look(c) \/ Query(c) \/ InsertRow(c) \/ EndExport(c)
    <3>1. /\ UNCHANGED <<files, quiet, job, refused, inner, waiting>> /\ detached' \subseteq Inodes
          /\ ~At(c, "write")
      BY <2>1 DEF Look, Query, InsertRow, EndExport, ServerInv, StateOK, At
    <3>2. \E es : Mild(es) /\ Tell(es)
      <4>1. Mild(<<>>)
        BY DEF Mild
      <4> QED
        BY <2>1, <4>1, WritesMild DEF Look, Query, InsertRow, EndExport
    <3> QED
      BY <3>1, <3>2, MildType DEF ServerInv
  <2>2. CASE ~(Look(c) \/ Query(c) \/ InsertRow(c) \/ EndExport(c))
    <3>1. UNCHANGED <<watch, files, inner, waiting>> /\ detached' \subseteq Inodes /\ ~At(c, "write")
      BY <2>2 DEF ServerInv, StateOK, Arrive, Lock, Relock, ImportRow,
             EndImport, StartExport, Delete, List, At
    <3> QED
      BY <3>1, StateUnchanged DEF ServerInv, watch
  <2> QED
    BY <2>1, <2>2
<1>6. ASSUME NEW t, Becomes(t) PROVE ServerInv'
  BY <1>4, <1>5, <1>6 DEF ServerInv
<1> HIDE DEF Becomes
<1>7. ASSUME Done(c), readers' = [readers EXCEPT ![c] = 0] PROVE ServerInv'
  <2>1. Becomes(Idle)
    BY <1>3, <1>7 DEF Becomes, Done, Held, Named
  <2> QED
    BY <1>6, <2>1
<1>8. CASE Arrive(c)
  <2>1. PICK q \in Requests[c], rows \in 0..MaxRows :
          /\ q.op \in Named => q.name \in Names
          /\ task' = [task EXCEPT ![c] =
               [op |-> q.op, at |-> IF q.op = "switch" THEN "write" ELSE "lock", name |-> q.name,
                left |-> IF q.op = "import" THEN rows ELSE Guards(q.op), inst |-> None]]
    BY <1>8 DEF Arrive, Named
  <2> DEFINE t == [op |-> q.op, at |-> IF q.op = "switch" THEN "write" ELSE "lock", name |-> q.name,
                   left |-> IF q.op = "import" THEN rows ELSE Guards(q.op), inst |-> None]
  <2>2. q.op \in Ops /\ q.name \in Names \cup {None} /\ rows \in Nat /\ Guards(q.op) \in Nat
    BY RequestsAssumption, BoundsAssumption DEF Guards
  <2>3. t \in Task
    BY <2>2 DEF Task, Labels
  <2>4. readers' = [readers EXCEPT ![c] = Held(t.at)]
    BY <1>2, <1>8 DEF Arrive, At, Held
  <2>5. Becomes(t)
    BY <2>1, <2>2, <2>3, <2>4 DEF Becomes, Named
  <2> QED
    BY <1>6, <2>5
<1>9. CASE Lock(c)
  <2>1. readers' = [readers EXCEPT ![c] = 1]
    <3>1. readers[c] = 0
      BY <1>2, <1>9 DEF Lock, At, Held
    <3> QED
      BY <1>9, <3>1 DEF Lock
  <2>2. Becomes([task[c] EXCEPT !.at = "locked"])
    BY <1>1, <1>9, <2>1 DEF Lock, Becomes, Task, Labels, Held, TaskOK, Op
  <2> QED
    BY <1>6, <2>2
<1>10. CASE Relock(c)
  <2>1. Becomes([task[c] EXCEPT !.at = "insert"])
    BY <1>1, <1>2, <1>10 DEF Relock, Becomes, Task, Labels, At, Held, TaskOK, Op
  <2> QED
    BY <1>6, <2>1
<1>11. CASE Look(c)
  <2>1. readers' = [readers EXCEPT ![c] = 0]
    <3>1. readers[c] = 1
      BY <1>2, <1>11 DEF Look, At, Held
    <3> QED
      BY <1>11, <3>1 DEF Look, Unlock
  <2>2. CASE task[c].left = 0
    BY <1>7, <1>11, <2>1, <2>2 DEF Look
  <2>3. CASE task[c].left # 0
    <3>1. task[c].left - 1 \in Nat
      BY <1>1, <2>3 DEF Task
    <3>2. Becomes([task[c] EXCEPT !.at = "lock", !.left = task[c].left - 1])
      BY <1>1, <1>11, <2>1, <2>3, <3>1 DEF Look, Becomes, Task, Labels, Held, TaskOK, Op
    <3> QED
      BY <1>6, <3>2
  <2> QED
    BY <2>2, <2>3
<1>12. CASE Query(c) \/ EndImport(c) \/ Delete(c)
  <2>1. readers' = [readers EXCEPT ![c] = 0] /\ Done(c)
    BY <1>2, <1>12 DEF Query, EndImport, Delete, Unlock, At, Held
  <2> QED
    BY <1>7, <2>1
<1>13. CASE ImportRow(c)
  <2>1. Becomes([task[c] EXCEPT !.at = "relock"])
    BY <1>1, <1>2, <1>13 DEF ImportRow, Becomes, Task, Labels, At, Held, TaskOK, Op
  <2> QED
    BY <1>6, <2>1
<1>14. CASE InsertRow(c)
  <2>1. CASE readers' = [readers EXCEPT ![c] = 0] /\ Done(c)
    BY <1>7, <2>1
  <2>2. CASE Unlock(c) /\ task' = [task EXCEPT ![c].at = "locked", ![c].left = @ - 1]
    <3>1. task[c].left - 1 \in Nat
      BY <1>1, <1>14 DEF InsertRow, TaskOK, Task
    <3>2. Becomes([task[c] EXCEPT !.at = "locked", !.left = task[c].left - 1])
      BY <1>1, <1>2, <1>14, <2>2, <3>1 DEF InsertRow, Becomes, Unlock, Task, Labels, At, Held, TaskOK, Op
    <3> QED
      BY <1>6, <3>2
  <2> QED
    BY <1>14, <2>1, <2>2 DEF InsertRow
<1>15. CASE StartExport(c)
  <2>1. db_instance \in Inodes
    BY DEF ServerInv, StateOK
  <2>2. readers' = [readers EXCEPT ![c] = 0]
    <3>1. readers[c] = 1
      BY <1>2, <1>15 DEF StartExport, At, Held
    <3> QED
      BY <1>15, <3>1 DEF StartExport, Unlock
  <2>3. Becomes([task[c] EXCEPT !.at = "export", !.inst = db_instance])
    BY <1>1, <1>15, <2>1, <2>2 DEF StartExport, Becomes, Task, Labels, Held, TaskOK, Op
  <2> QED
    BY <1>6, <2>3
<1>16. CASE EndExport(c)
  <2>1. readers' = [readers EXCEPT ![c] = 0]
    BY <1>2, <1>16 DEF EndExport, At, Held
  <2> QED
    BY <1>7, <1>16, <2>1 DEF EndExport
<1>17. CASE List(c)
  <2> DEFINE l == IF Listed(task[c].name) THEN "write" ELSE "lock"
  <2>1. task' = [task EXCEPT ![c].at = l, ![c].left = 1] /\ l \in {"write", "lock"}
    BY <1>17 DEF List
  <2>2. Op(c) = "switchnew" /\ readers' = [readers EXCEPT ![c] = 0]
    <3>1. readers[c] = 1
      BY <1>2, <1>17 DEF List, At, Held
    <3> QED
      BY <1>17, <3>1 DEF List, Unlock
  <2> HIDE DEF l
  <2>3. Becomes([task[c] EXCEPT !.at = l, !.left = 1])
    BY <1>1, <2>1, <2>2 DEF Becomes, Task, Labels, Held, TaskOK, Op, Named
  <2> QED
    BY <1>6, <2>3
<1> QED
  BY <1>8, <1>9, <1>10, <1>11, <1>12, <1>13, <1>14, <1>15, <1>16, <1>17

-----------------------------------------------------------------------------
(* The steps that open files or change databases.                          *)
LEMMA CreateKeeps ==
  ASSUME ServerInv, NEW c \in Clients, Create(c)
  PROVE  ServerInv'
<1>1. task \in [Clients -> Task] /\ task[c] \in Task /\ TaskOK(c) /\ Op(c) \in Named
  BY DEF ServerInv, ThreadsOK, Create, Named
<1>2. task[c].name.stem \in Stems
  BY <1>1, NameStems DEF TaskOK
<1>3. readers' = [readers EXCEPT ![c] = 0] /\ UNCHANGED <<inner, waiting, detached>>
  <2>1. readers[c] = 1
    BY DEF Create, ServerInv, ThreadsOK, At, Held
  <2> QED
    BY <2>1 DEF Create, Unlock
<1>4. c \notin waiting
  BY ThreadsAssumption DEF Create, ServerInv, ThreadsOK, WantsToWrite, At
<1>0. UNCHANGED <<quiet, job, refused>> /\ Mild(<<>>)
  BY DEF Create, Mild
<1>5. CASE (\E i \in Inodes : Open(task[c].name.stem, i, <<>>)) /\ task' = [task EXCEPT ![c].at = "write"]
  <2>1. StateOK'
    BY <1>0, <1>2, <1>3, <1>5, OpenType DEF ServerInv, StateOK, WatcherTypeOK, ChannelOK, inner
  <2> DEFINE t == [task[c] EXCEPT !.at = "write"]
  <2>2. t \in Task /\ t.op \in Named /\ t.name \in Names /\ t.at = "write" /\ Held(t.at) = 0
    BY <1>1 DEF Task, Labels, TaskOK, Op, Held
  <2>3. task' = [task EXCEPT ![c] = t]
    BY <1>1, <1>5
  <2> HIDE DEF t
  <2>4. ThreadsOK'
    BY <1>0, <1>3, <1>5, <2>2, <2>3, ThreadMoves DEF ServerInv
  <2> QED
    BY <2>1, <2>4 DEF ServerInv
<1>6. CASE Done(c) /\ OpenFails(task[c].name.stem)
  <2>1. StateOK'
    BY <1>0, <1>2, <1>3, <1>6, FailType, MildType DEF ServerInv, StateOK
  <2>2. Idle \in Task /\ Idle.at = "idle" /\ Idle.op = "idle" /\ Held(Idle.at) = 0
    BY DEF Idle, Task, Ops, Labels, Held
  <2>3. ThreadsOK'
    BY <1>0, <1>3, <1>4, <1>6, <2>2, ThreadMoves DEF ServerInv, Done, Named
  <2> QED
    BY <2>1, <2>3 DEF ServerInv
<1> QED
  BY <1>5, <1>6 DEF Create

LEMMA SwitchKeeps ==
  ASSUME ServerInv, NEW c \in Clients, Switch(c)
  PROVE  ServerInv'
<1> DEFINE n == task[c].name
<1>1. n \in Names /\ n.stem \in Stems
  BY NameStems DEF ServerInv, ThreadsOK, TaskOK, Switch
<1>2. SwitchTo(n) /\ Done(c) /\ waiting' = waiting \ {c} /\ UNCHANGED <<readers, detached>>
  BY DEF Switch
<1> HIDE DEF n
<1>3. StateOK' /\ UNCHANGED job
  <2>0. UNCHANGED <<quiet, job, refused, detached>>
    BY <1>2 DEF SwitchTo
  <2>1. CASE databases[n] # None /\ Serve(n, databases[n]) /\ UNCHANGED files
             /\ \E w \in Writes(db_instance) : Tell(w)
    <3>1. ChannelOK'
      BY <2>1, WritesMild, TellType DEF Mild, ServerInv, StateOK
    <3> QED
      BY <1>1, <2>0, <2>1, <3>1 DEF ServerInv, StateOK, WatcherTypeOK, ChannelOK, Serve
  <2>2. CASE \E i \in Inodes, w \in Writes(db_instance) : Open(n.stem, i, w) /\ Serve(n, i)
    BY <1>1, <2>0, <2>2, WritesMild, OpenType DEF ServerInv, StateOK, WatcherTypeOK, ChannelOK, Serve
  <2>3. CASE OpenFails(n.stem) /\ UNCHANGED inner
    BY <1>1, <2>0, <2>3, FailType, MildType DEF ServerInv, StateOK
  <2> QED
    BY <1>2, <2>0, <2>1, <2>2, <2>3 DEF SwitchTo
<1>4. readers' = [readers EXCEPT ![c] = 0]
  <2>1. readers[c] = 0
    BY DEF Switch, ServerInv, ThreadsOK, At, Held
  <2> QED
    BY <1>2, <2>1 DEF ServerInv, ThreadsOK
<1>5. Idle \in Task /\ Idle.at = "idle" /\ Idle.op = "idle" /\ Held(Idle.at) = 0
  BY DEF Idle, Task, Ops, Labels, Held
<1>6. ThreadsOK'
  BY <1>2, <1>3, <1>4, <1>5, ThreadMoves DEF ServerInv, Done, Named
<1> QED
  BY <1>3, <1>6 DEF ServerInv

(* A step that leaves the worker threads alone, and the watcher too or not *)
(* among the waiting.                                                      *)
LEMMA ThreadsStay ==
  ASSUME ThreadsOK, UNCHANGED <<task, readers>>, waiting' \subseteq waiting,
         \/ UNCHANGED job
         \/ job = None
         \/ "Watcher" \notin waiting'
  PROVE  ThreadsOK'
<1>1. \A w \in waiting' : WantsToWrite(w)'
  BY DEF ThreadsOK, WantsToWrite, At
<1> QED
  BY <1>1 DEF ThreadsOK, TaskOK, Op, At

LEMMA CallbackKeeps ==
  ASSUME ServerInv, Callback
  PROVE  ServerInv'
<1>1. job \in Event
  BY DEF ServerInv, StateOK, WatcherTypeOK, Callback
<1> DEFINE n == FileName(job.stem)
<1>2. n \in Names /\ n.stem \in Stems
  BY <1>1, NamesAssumption DEF Event, FileName
<1>3. Remove(n) \/ Reload(n)
  BY DEF Callback
<1>4. job' = None /\ waiting' = waiting \ {"Watcher"} /\ UNCHANGED <<quiet, readers, task, detached>>
  BY DEF Callback
<1> HIDE DEF n
<1>5. StateOK'
  <2>0. Mild(<<>>)
    BY DEF Mild
  <2>1. CASE Remove(n)
    <3>1. databases' \in [Names -> Inodes \cup {None}] /\ current_db' \in Names /\ db_instance' \in Inodes
      BY <1>2, <2>1 DEF Remove, ServerInv, StateOK
    <3>2. ChannelOK' /\ UNCHANGED files /\ refused' \subseteq refused
      BY <2>0, <2>1, WritesMild, TellType DEF Remove, Closes, Mild, ServerInv, StateOK
    <3> QED
      BY <1>4, <3>1, <3>2 DEF ServerInv, StateOK, WatcherTypeOK, ChannelOK
  <2>2. CASE NotReloaded(n)
    <3>1. ChannelOK' /\ UNCHANGED <<files, inner>> /\ refused' = refused \cup {n.stem}
      BY <1>2, <2>2, FailType, TellType DEF NotReloaded, Mild, ServerInv, StateOK
    <3> QED
      BY <1>2, <1>4, <3>1 DEF ServerInv, StateOK, WatcherTypeOK, ChannelOK, inner
  <2>3. CASE Reload(n) /\ ~NotReloaded(n)
    <3>1. PICK i \in Inodes : /\ Open(n.stem, i, <<>>) /\ databases' = [databases EXCEPT ![n] = i]
                              /\ db_instance' = IF current_db = n THEN i ELSE db_instance
      BY <2>3 DEF Reload
    <3>2. UNCHANGED current_db /\ refused' \subseteq refused
      BY <2>3 DEF Reload
    <3> QED
      BY <1>2, <1>4, <2>0, <3>1, <3>2, OpenType DEF ServerInv, StateOK, WatcherTypeOK, ChannelOK
  <2> QED
    BY <1>3, <2>1, <2>2, <2>3
<1>6. ThreadsOK'
  BY <1>4, ThreadsStay DEF ServerInv
<1> QED
  BY <1>5, <1>6 DEF ServerInv

(* The steps of the watcher, of other programs and of statements after     *)
(* their timeout.                                                          *)
LEMMA OutsideKeeps ==
  ASSUME ServerInv, Outside
  PROVE  ServerInv'
<1>1. PICK s \in Exposed :
        /\ PutFile(s) \/ MoveAway(s) \/ RemoveFile(s) \/ TouchFile(s)
        /\ UNCHANGED <<quiet, job, refused, inner, readers, waiting, task, detached>>
  BY DEF Outside
<1>2. s \in Stems
  BY ThreadsAssumption
<1>3. files' \in [Stems -> Inodes \cup {None}] /\ \E es \in Seq(Event) : Tell(es)
  BY <1>1, <1>2, MildOnes DEF Mild, PutFile, MoveAway, RemoveFile, TouchFile, ServerInv, StateOK
<1>4. StateOK'
  BY <1>1, <1>3, TellType DEF ServerInv, StateOK, WatcherTypeOK, ChannelOK, inner
<1>5. ThreadsOK'
  BY <1>1, ThreadsStay DEF ServerInv
<1> QED
  BY <1>4, <1>5 DEF ServerInv

LEMMA OthersKeep ==
  ASSUME ServerInv,
         \/ \E i \in Inodes : Detached(i)
         \/ WatcherStep \/ TimePasses \/ UNCHANGED vars
  PROVE  ServerInv'
<1>1. CASE \E i \in Inodes : Detached(i)
  <2>1. PICK i \in Inodes : Detached(i)
    BY <1>1
  <2>2. /\ UNCHANGED <<files, quiet, job, refused, inner, readers, waiting, task>>
        /\ detached' \subseteq detached /\ \E es : Mild(es) /\ Tell(es)
    BY <2>1, WritesMild DEF Detached
  <2>3. StateOK'
    BY <2>2, MildType DEF ServerInv, StateOK
  <2>4. ThreadsOK'
    BY <2>2, ThreadsStay DEF ServerInv
  <2> QED
    BY <2>3, <2>4 DEF ServerInv
<1>2. CASE WatcherStep
  <2>1. UNCHANGED <<away, refused, files, inner, readers, waiting, task, detached>> /\ Take /\ job = None
    BY <1>2 DEF WatcherStep, Take
  <2>2. StateOK'
    BY <2>1, TakeType DEF ServerInv, StateOK, inner
  <2>3. ThreadsOK'
    BY <2>1, ThreadsStay DEF ServerInv
  <2> QED
    BY <2>2, <2>3 DEF ServerInv
<1>3. CASE TimePasses
  <2>1. /\ UNCHANGED <<away, refused, files, inner, readers, waiting, task, detached, events, job, lost>>
        /\ quiet' \subseteq quiet
    BY <1>3 DEF TimePasses, Calm
  <2>2. StateOK'
    BY <2>1 DEF ServerInv, StateOK, WatcherTypeOK, inner
  <2>3. ThreadsOK'
    BY <2>1, ThreadsStay DEF ServerInv
  <2> QED
    BY <2>2, <2>3 DEF ServerInv
<1>4. CASE UNCHANGED vars
  <2>1. UNCHANGED <<watch, files, inner, detached, readers, waiting, task, job>>
    BY <1>4 DEF vars, watch, inner
  <2> QED
    BY <2>1, StateUnchanged, ThreadsStay DEF ServerInv, StateOK
<1> QED
  BY <1>1, <1>2, <1>3, <1>4

LEMMA WaitKeeps ==
  ASSUME ServerInv, NEW w \in Clients \cup {"Watcher"}, Wait(w)
  PROVE  ServerInv'
<1>1. UNCHANGED <<watch, files, inner, detached, readers, task, job>> /\ waiting' = waiting \cup {w} /\ WantsToWrite(w)
  BY DEF Wait, watch
<1>2. StateOK'
  BY <1>1, StateUnchanged DEF ServerInv, StateOK
<1>3. \A v \in waiting' : WantsToWrite(v)'
  BY <1>1 DEF ServerInv, ThreadsOK, WantsToWrite, At
<1>4. ThreadsOK'
  BY <1>1, <1>3 DEF ServerInv, ThreadsOK, TaskOK, Op, At
<1> QED
  BY <1>2, <1>4 DEF ServerInv

LEMMA StepInv == ServerInv /\ [Next]_vars => ServerInv'
<1> SUFFICES ASSUME ServerInv, [Next]_vars PROVE ServerInv'
  OBVIOUS
<1>1. CASE \E c \in Clients : Arrive(c) \/ Lock(c) \/ Relock(c) \/ Step(c)
  BY <1>1, QuietSteps, CreateKeeps, SwitchKeeps DEF Step
<1>2. CASE \E w \in Clients \cup {"Watcher"} : Wait(w)
  BY <1>2, WaitKeeps
<1> QED
  BY <1>1, <1>2, CallbackKeeps, OutsideKeeps, OthersKeep DEF Next

LEMMA SpecInv == Spec => []ServerInv
BY InitInv, StepInv, PTL DEF Spec

(* Every variable keeps its type: a thread holds two guards at most, and a *)
(* handler that looks up a database has its name from the request.         *)
THEOREM ServerTypeCorrect == Spec => []TypeOK
BY SpecInv, InvTypes, PTL

-----------------------------------------------------------------------------
(* The databases change only under the write lock.                         *)
LEMMA InnerChanges ==
  ASSUME [Next]_vars
  PROVE  UNCHANGED inner \/ Callback \/ \E c \in Clients : Switch(c)
<1>1. CASE \E d \in Clients : Arrive(d) \/ Lock(d) \/ Relock(d) \/ Step(d)
  BY <1>1 DEF Step, Arrive, Lock, Relock, Look, Query, ImportRow, InsertRow, EndImport,
       StartExport, EndExport, Delete, List, Create
<1>2. CASE \E w \in Clients \cup {"Watcher"} : Wait(w)
  BY <1>2 DEF Wait
<1>3. CASE (\E i \in Inodes : Detached(i)) \/ WatcherStep \/ TimePasses \/ Outside
  BY <1>3 DEF Detached, WatcherStep, TimePasses, Outside
<1>4. CASE UNCHANGED vars
  BY <1>4 DEF vars, inner
<1> QED
  BY <1>1, <1>2, <1>3, <1>4 DEF Next

(* They change in three ways: a database already open becomes current, an  *)
(* engine is put under a name, or a name is taken out.                     *)
Opened(n, i) ==
  /\ ~Alive(i) /\ databases' = [databases EXCEPT ![n] = i]
  /\ \/ current_db' = n /\ db_instance' = i
     \/ current_db # n /\ UNCHANGED <<current_db, db_instance>>
Chosen(n) ==
  databases[n] # None /\ current_db' = n /\ db_instance' = databases[n] /\ UNCHANGED databases

LEMMA OpenIsFresh ==
  ASSUME NEW s, NEW i, NEW more, Open(s, i, more)
  PROVE  ~Alive(i)
BY DEF Open, MayOpen, Unused

LEMMA InnerChangesTo ==
  ASSUME ServerInv, [Next]_vars
  PROVE  \/ UNCHANGED inner
         \/ \E n \in Names : Chosen(n) \/ Remove(n) \/ \E i \in Inodes : Opened(n, i)
<1>1. ASSUME NEW c \in Clients, Switch(c)
      PROVE  UNCHANGED inner \/ \E n \in Names : Chosen(n) \/ \E i \in Inodes : Opened(n, i)
  <2> DEFINE n == task[c].name
  <2>1. n \in Names /\ SwitchTo(n)
    BY <1>1 DEF ServerInv, ThreadsOK, TaskOK, Switch
  <2> HIDE DEF n
  <2>2. CASE databases[n] # None /\ Serve(n, databases[n])
    <3>1. databases' = databases
      BY <2>2 DEF Serve, ServerInv, StateOK
    <3> QED
      BY <2>1, <2>2, <3>1 DEF Serve, Chosen
  <2>3. CASE \E i \in Inodes, w \in Writes(db_instance) : Open(n.stem, i, w) /\ Serve(n, i)
    BY <2>1, <2>3, OpenIsFresh DEF Serve, Opened
  <2> QED
    BY <2>1, <2>2, <2>3 DEF SwitchTo
<1>2. CASE Callback
  <2> DEFINE n == FileName(job.stem)
  <2>1. job \in Event /\ (Remove(n) \/ Reload(n))
    BY <1>2 DEF ServerInv, StateOK, WatcherTypeOK, Callback
  <2>2. n \in Names
    BY <2>1, NamesAssumption DEF Event
  <2> HIDE DEF n
  <2>3. CASE Reload(n)
    BY <2>2, <2>3, OpenIsFresh DEF Reload, NotReloaded, Opened
  <2> QED
    BY <2>1, <2>2, <2>3
<1> QED
  BY <1>1, <1>2, InnerChanges

(* The instance the requests are served from is the one the map holds      *)
(* under the current name (AppStateInner.db_instance and databases).       *)
LEMMA StepServed == ServerInv /\ ServedIsNamed /\ [Next]_vars => ServedIsNamed'
<1> SUFFICES ASSUME ServerInv, ServedIsNamed, [Next]_vars PROVE ServedIsNamed'
  OBVIOUS
<1> USE DEF ServedIsNamed
<1>1. databases \in [Names -> Inodes \cup {None}] /\ current_db \in Names
  BY DEF ServerInv, StateOK
<1>2. CASE UNCHANGED inner
  BY <1>2 DEF inner
<1>3. ASSUME NEW n \in Names, Chosen(n) PROVE ServedIsNamed'
  BY <1>3 DEF Chosen
<1>4. ASSUME NEW n \in Names, NEW i \in Inodes, Opened(n, i) PROVE ServedIsNamed'
  BY <1>1, <1>4 DEF Opened
<1>5. ASSUME NEW n \in Names, Remove(n) PROVE ServedIsNamed'
  BY <1>1, <1>5 DEF Remove
<1> QED
  BY <1>2, <1>3, <1>4, <1>5, InnerChangesTo

LEMMA InitServed == Init => ServedIsNamed
BY DEF Init, ServedIsNamed

(* Requests are served from the engine the map holds under the current name*)
(* (ServedIsNamed: switch_db, reload_database, remove_database).           *)
THEOREM ServesWhatItNames == Spec => []ServedIsNamed
BY InitServed, StepServed, SpecInv, PTL DEF Spec

(* No engine is in the map under two names, whatever names requests and    *)
(* the watcher give a file.                                                *)
LEMMA StepOneName == ServerInv /\ OneNameEach /\ [Next]_vars => OneNameEach'
<1> SUFFICES ASSUME ServerInv, OneNameEach, [Next]_vars PROVE OneNameEach'
  OBVIOUS
<1> USE DEF OneNameEach
<1>1. databases \in [Names -> Inodes \cup {None}]
  BY DEF ServerInv, StateOK
<1>2. CASE UNCHANGED inner
  BY <1>2 DEF inner
<1>3. ASSUME NEW n \in Names, Chosen(n) PROVE OneNameEach'
  BY <1>3 DEF Chosen
<1>4. ASSUME NEW n \in Names, NEW i \in Inodes, Opened(n, i) PROVE OneNameEach'
  <2>1. \A m \in Names : databases[m] # i
    BY <1>4 DEF Opened, Alive
  <2> QED
    BY <1>1, <1>4, <2>1 DEF Opened
<1>5. ASSUME NEW n \in Names, Remove(n) PROVE OneNameEach'
  BY <1>1, <1>5 DEF Remove
<1> QED
  BY <1>2, <1>3, <1>4, <1>5, InnerChangesTo

LEMMA InitOneName == Init => OneNameEach
BY DEF Init, OneNameEach

(* No engine is in the map under two names (OneNameEach: switch_db keys the*)
(* map by the name as given).                                              *)
THEOREM FilesHaveOneName == Spec => []OneNameEach
BY InitOneName, StepOneName, SpecInv, PTL DEF Spec

-----------------------------------------------------------------------------
(* Whoever waits for the lock waits for a thread that can go on, or for an *)
(* import that wants its second guard behind a writer that waits for its   *)
(* first (import_data): AppState's lock has no other deadlock.             *)
LEMMA InvSomebodyMoves == ServerInv => SomebodyMoves
<1> SUFFICES ASSUME ServerInv, NEW c \in Clients, Blocked(c), ~ImportStuck
             PROVE  (\E d \in Clients : ~At(d, "idle") /\ ~Blocked(d)) \/ (job # None /\ Free)
  BY DEF SomebodyMoves
<1>1. CASE ~Free
  <2>1. PICK d \in Clients : readers[d] # 0
    BY <1>1 DEF Free
  <2>2. task[d].at \in {"locked", "relock", "insert"}
    BY <2>1 DEF ServerInv, ThreadsOK, Held
  <2>3. task[d].at = "relock" => CanRead
    BY DEF ImportStuck, CanRead, At
  <2>4. ~At(d, "idle") /\ ~Blocked(d)
    BY <2>2, <2>3 DEF Blocked, At
  <2> QED
    BY <2>4
<1>2. CASE Free
  <2>1. PICK w \in waiting : WantsToWrite(w)
    BY <1>2 DEF Blocked, CanRead, ServerInv, ThreadsOK
  <2>2. CASE w \in Clients
    BY <1>2, <2>1, <2>2 DEF WantsToWrite, Blocked, At
  <2>3. CASE w \notin Clients
    BY <1>2, <2>1, <2>3 DEF WantsToWrite
  <2> QED
    BY <2>2, <2>3
<1> QED
  BY <1>1, <1>2

(* Somebody can go on unless an import waits for its second guard          *)
(* (SomebodyMoves: the RwLock and import_data).                            *)
THEOREM OnlyImportsDeadlock == Spec => []SomebodyMoves
BY SpecInv, InvSomebodyMoves, PTL

(* While any thread holds a guard, no step changes the map of databases,   *)
(* the current name or the current instance (switch_db and the watcher's   *)
(* callback write under the write lock).                                   *)
LEMMA StepStable ==
  ServerInv /\ [Next]_vars => ((\E c \in Clients : readers[c] > 0 /\ readers'[c] > 0) => UNCHANGED inner)
<1> SUFFICES ASSUME ServerInv, [Next]_vars, NEW c \in Clients, readers[c] > 0
             PROVE  UNCHANGED inner
  OBVIOUS
<1>1. ~Free
  BY DEF Free
<1> QED
  BY <1>1, InnerChanges DEF Callback, Switch

(* Nothing of the databases changes under a guard (StableUnderGuard: db and*)
(* db_mut).                                                                *)
THEOREM GuardsAreStable == Spec => StableUnderGuard
<1>1. ServerInv /\ [Next]_vars =>
        [(\E c \in Clients : readers[c] > 0 /\ readers'[c] > 0) => UNCHANGED inner]_vars
  BY StepStable
<1> QED
  BY <1>1, SpecInv, PTL DEF Spec, StableUnderGuard

-----------------------------------------------------------------------------
(* How a step changes the directory, the map and the watcher, and what is  *)
(* sent when it does.                                                      *)

Says            == UNCHANGED files /\ \E es : Mild(es) /\ Tell(es)
OpensFile(s, i) ==
  /\ files' = [files EXCEPT ![s] = i] /\ (files[s] # None => files[s] = i)
  /\ \E es : /\ Mild(es) /\ Tell(es)
             /\ files[s] = None => \E k \in 1..Len(es) : es[k] = EventOf(s, "modify")
Quietly         == Says /\ UNCHANGED <<databases, job, refused>>
Created(s, i)   == OpensFile(s, i) /\ UNCHANGED <<databases, job, refused>>
Served(n, i)    == /\ OpensFile(n.stem, i) /\ databases' = [databases EXCEPT ![n] = i]
                   /\ UNCHANGED <<job, refused>>
Reloaded(s, i)  == /\ OpensFile(s, i) /\ databases' = [databases EXCEPT ![FileName(s)] = i]
                   /\ job' = None /\ refused' = refused \ {s}
Kept(s)         == /\ Says /\ UNCHANGED databases
                   /\ job' = None /\ refused' = refused \cup {s}
Removed(s)      == /\ Says /\ databases' = [databases EXCEPT ![FileName(s)] = None]
                   /\ job' = None /\ refused' = refused \ {s}
Taken           == Take /\ UNCHANGED <<files, databases, away, refused>>
Touched(s)      == /\ PutFile(s) \/ MoveAway(s) \/ RemoveFile(s) \/ TouchFile(s)
                   /\ UNCHANGED <<databases, job, refused>>
Still           == UNCHANGED <<files, databases, events, lost, away, job, refused>>

LEMMA OpenTells ==
  ASSUME NEW s \in Stems, NEW i \in Inodes, NEW more, Mild(more), Open(s, i, more)
  PROVE  OpensFile(s, i)
<1> DEFINE es == Opening(s) \o more
<1>1. files' = [files EXCEPT ![s] = i] /\ (files[s] # None => files[s] = i) /\ Tell(es)
  BY DEF Open, MayOpen
<1>2. Mild(es) /\ 1 \in 1..Len(es) /\ (files[s] = None => es[1] = EventOf(s, "modify"))
  BY OpeningMild
<1> HIDE DEF es
<1> QED
  BY <1>1, <1>2 DEF OpensFile

LEMMA FailTells ==
  ASSUME NEW s \in Stems, OpenFails(s)
  PROVE  Says
BY MildOnes DEF OpenFails, Says

FileStep ==
  \/ Still \/ Taken \/ Quietly
  \/ \E n \in Names, i \in Inodes : Served(n, i)
  \/ \E s \in Stems :
       \/ Touched(s)
       \/ \E i \in Inodes : Created(s, i)
       \/ /\ job # None /\ job.stem = s
          /\ Kept(s) \/ Removed(s) \/ (job.kind # "remove" /\ \E i \in Inodes : Reloaded(s, i))

LEMMA ThreadFileSteps ==
  ASSUME ServerInv, NEW c \in Clients, Arrive(c) \/ Lock(c) \/ Relock(c) \/ Step(c)
  PROVE  FileStep
<1>0. Mild(<<>>)
  BY DEF Mild
<1>1. CASE Create(c)
  <2>1. task[c].name.stem \in Stems /\ UNCHANGED <<databases, job, refused>>
    BY <1>1, NameStems DEF Create, ServerInv, ThreadsOK, TaskOK, Named, inner
  <2>2. CASE \E i \in Inodes : Open(task[c].name.stem, i, <<>>)
    <3>1. \E i \in Inodes : Created(task[c].name.stem, i)
      BY <1>0, <2>1, <2>2, OpenTells DEF Created
    <3> QED
      BY <2>1, <3>1 DEF FileStep
  <2>3. CASE OpenFails(task[c].name.stem)
    BY <2>1, <2>3, FailTells DEF Quietly, FileStep
  <2> QED
    BY <1>1, <2>2, <2>3 DEF Create
<1>2. CASE Switch(c)
  <2> DEFINE n == task[c].name
  <2>1. n \in Names /\ n.stem \in Stems /\ SwitchTo(n) /\ UNCHANGED <<job, refused>>
    BY <1>2, NameStems DEF ServerInv, ThreadsOK, TaskOK, Switch, SwitchTo
  <2> HIDE DEF n
  <2>2. CASE \E i \in Inodes, w \in Writes(db_instance) : Open(n.stem, i, w) /\ Serve(n, i)
    <3>1. \E i \in Inodes : Served(n, i)
      BY <2>1, <2>2, WritesMild, OpenTells DEF Served, Serve
    <3> QED
      BY <2>1, <3>1 DEF FileStep
  <2>3. CASE OpenFails(n.stem) /\ UNCHANGED inner
    BY <2>1, <2>3, FailTells DEF Quietly, FileStep, inner
  <2>4. CASE /\ databases[n] # None /\ Serve(n, databases[n])
             /\ UNCHANGED files /\ \E w \in Writes(db_instance) : Tell(w)
    <3>1. databases' = databases
      BY <2>1, <2>4 DEF Serve, ServerInv, StateOK
    <3> QED
      BY <2>1, <2>4, <3>1, WritesMild DEF Quietly, Says, FileStep
  <2> QED
    BY <2>1, <2>2, <2>3, <2>4 DEF SwitchTo
<1>3. CASE Look(c) \/ Query(c) \/ InsertRow(c) \/ EndExport(c)
  <2>1. UNCHANGED <<files, databases, job, refused>>
    BY <1>3 DEF Look, Query, InsertRow, EndExport, inner
  <2>2. \E es : Mild(es) /\ Tell(es)
    BY <1>0, <1>3, WritesMild DEF Look, Query, InsertRow, EndExport
  <2> QED
    BY <2>1, <2>2 DEF Says, Quietly, FileStep
<1>4. CASE Arrive(c) \/ Lock(c) \/ Relock(c) \/ ImportRow(c) \/ EndImport(c) \/ StartExport(c)
           \/ Delete(c) \/ List(c)
  <2>1. UNCHANGED <<watch, files, inner>>
    BY <1>4 DEF Arrive, Lock, Relock, ImportRow, EndImport, StartExport, Delete, List
  <2> QED
    BY <2>1 DEF watch, inner, Still, FileStep
<1> QED
  BY <1>1, <1>2, <1>3, <1>4 DEF Step

LEMMA FileSteps ==
  ASSUME ServerInv, [Next]_vars
  PROVE  FileStep
<1>1. CASE \E c \in Clients : Arrive(c) \/ Lock(c) \/ Relock(c) \/ Step(c)
  BY <1>1, ThreadFileSteps
<1>2. CASE (\E w \in Clients \cup {"Watcher"} : Wait(w)) \/ TimePasses \/ UNCHANGED vars
  <2>1. Still
    BY <1>2 DEF Wait, TimePasses, Calm, vars, watch, inner, Still
  <2> QED
    BY <2>1 DEF FileStep
<1>3. CASE \E i \in Inodes : Detached(i)
  BY <1>3, WritesMild DEF Detached, inner, Says, Quietly, FileStep
<1>4. CASE WatcherStep
  BY <1>4 DEF WatcherStep, Taken, inner, FileStep
<1>5. CASE Callback
  <2> DEFINE s == job.stem
             n == FileName(s)
  <2>1. job \in Event /\ job # None /\ job' = None
    BY <1>5 DEF ServerInv, StateOK, WatcherTypeOK, Callback
  <2>2. s \in Stems /\ n.stem = s /\ Mild(<<>>)
    BY <2>1 DEF Event, FileName, Mild
  <2>3. Remove(n) \/ (job.kind # "remove" /\ Reload(n))
    BY <1>5 DEF Callback
  <2> HIDE DEF n
  <2>4. CASE Remove(n)
    <3>1. Says /\ databases' = [databases EXCEPT ![n] = None] /\ refused' = refused \ {s}
      BY <2>2, <2>4, WritesMild DEF Remove, Closes, Says
    <3>2. Removed(s)
      BY <2>1, <3>1 DEF Removed, n
    <3> QED
      BY <2>1, <2>2, <3>2 DEF FileStep
  <2>5. CASE NotReloaded(n)
    <3>1. Kept(s)
      BY <2>1, <2>2, <2>5, FailTells DEF NotReloaded, Kept, inner
    <3> QED
      BY <2>1, <2>2, <3>1 DEF FileStep
  <2>6. CASE job.kind # "remove" /\ Reload(n) /\ ~NotReloaded(n)
    <3>1. PICK i \in Inodes : Open(s, i, <<>>) /\ databases' = [databases EXCEPT ![n] = i]
      BY <2>2, <2>6 DEF Reload
    <3>2. refused' = refused \ {s}
      BY <2>2, <2>6 DEF Reload
    <3>3. Reloaded(s, i)
      BY <2>1, <2>2, <3>1, <3>2, OpenTells DEF Reloaded, n
    <3> QED
      BY <2>1, <2>2, <2>6, <3>3 DEF FileStep
  <2> QED
    BY <2>3, <2>4, <2>5, <2>6
<1>6. CASE Outside
  <2>1. PICK r \in Exposed : Touched(r)
    BY <1>6 DEF Outside, Touched, inner
  <2> QED
    BY <2>1, ThreadsAssumption DEF FileStep
<1> QED
  BY <1>1, <1>2, <1>3, <1>4, <1>5, <1>6 DEF Next

-----------------------------------------------------------------------------
(* The changes of a file that is gone end with its removal, in the channel *)
(* and in the callback, unless the removal was swallowed or the file was   *)
(* notified as modified when it went or after it.                          *)
Removal(s) == EventOf(s, "remove")
Gone(s) ==
  files[s] = None /\ s \notin lost /\ s \notin away =>
    /\ \A i \in DOMAIN events : events[i].stem = s /\ Changes(events[i]) =>
         \E j \in i..Len(events) : events[j] = Removal(s)
    /\ job # None /\ job.stem = s /\ job.kind # "remove" =>
         \E j \in 1..Len(events) : events[j] = Removal(s)
GoneInv == \A s \in Stems : Gone(s)

LEMMA SendGone ==
  ASSUME StateOK, NEW s \in Stems, Gone(s), NEW es \in Seq(Event), Tell(es),
         job' = job \/ job' = None,
         \/ files'[s] # None \/ s \in away' \/ es = <<Removal(s)>>
         \/ /\ files'[s] = files[s]
            /\ \A k \in 1..Len(es) : es[k].stem = s => es[k].kind # "remove"
  PROVE  Gone(s)'
<1>1. events \in Seq(Event) /\ Len(events) \in Nat /\ DOMAIN events = 1..Len(events)
  BY DEF StateOK, WatcherTypeOK
<1>2. PICK n \in 0..Len(es) : Sent(es, n)
  BY NotifySends DEF Tell, StateOK
<1>3. /\ Len(events') = Len(events) + n /\ DOMAIN events' = 1..(Len(events) + n)
      /\ \A i \in 1..Len(events) : events'[i] = events[i]
      /\ \A i \in 1..n : events'[Len(events) + i] = es[i]
  <2>1. events' \in Seq(Event) /\ Len(events') = Len(events) + n
    BY <1>2 DEF Sent
  <2>2. DOMAIN events' = 1..Len(events')
    BY <2>1
  <2>3. /\ \A i \in 1..Len(events) : events'[i] = events[i]
        /\ \A i \in 1..n : events'[Len(events) + i] = es[i]
    BY <1>2 DEF Sent
  <2> QED
    BY <2>1, <2>2, <2>3
<1> SUFFICES ASSUME files'[s] = None, s \notin lost', s \notin away'
             PROVE  /\ \A i \in DOMAIN events' : events'[i].stem = s /\ Changes(events'[i]) =>
                         \E j \in i..Len(events') : events'[j] = Removal(s)
                    /\ job' # None /\ job'.stem = s /\ job'.kind # "remove" =>
                         \E j \in 1..Len(events') : events'[j] = Removal(s)
  BY DEF Gone, Changes, Removal, EventOf
<1>4. CASE es = <<Removal(s)>>
  <2>1. Len(es) = 1 /\ es[1] = Removal(s) /\ es[1].stem = s /\ Changes(es[1])
    BY <1>4 DEF Removal, EventOf, Changes
  <2>2. n = 1
    BY <1>2, <2>1 DEF Sent
  <2>3. events'[Len(events) + 1] = Removal(s) /\ Len(events) + 1 = Len(events')
    BY <1>1, <1>3, <2>1, <2>2
  <2>4. \A i \in DOMAIN events' : Len(events) + 1 \in i..Len(events')
    BY <1>1, <1>3, <2>2
  <2>5. Len(events) + 1 \in 1..Len(events')
    BY <1>1, <1>3, <2>2
  <2> QED
    BY <2>3, <2>4, <2>5
<1>5. CASE /\ files'[s] = files[s]
           /\ \A k \in 1..Len(es) : es[k].stem = s => es[k].kind # "remove"
  <2>1. s \notin away /\ \A k \in 1..Len(es) : es[k] # EventOf(s, "modify")
    BY DEF Tell
  <2>2. ASSUME NEW k \in 1..Len(es) PROVE ~(es[k].stem = s /\ Changes(es[k]))
    <3>1. es[k] \in Event /\ es[k] # EventOf(s, "modify")
      BY <2>1, ElementOfSeq
    <3>2. SUFFICES ASSUME es[k].stem = s, Changes(es[k]) PROVE es[k].kind = "modify"
      BY <3>1 DEF Event, EventOf
    <3> QED
      BY <1>5, <3>1, <3>2 DEF Event, Kinds, Changes
  <2>3. s \notin lost
    BY <1>2, <2>2 DEF Sent
  <2>4. ASSUME NEW i \in DOMAIN events', events'[i].stem = s, Changes(events'[i])
        PROVE  \E j \in i..Len(events') : events'[j] = Removal(s)
    <3>1. i \in 1..Len(events)
      <4>1. i \in 1..Len(events) \/ (i - Len(events) \in 1..n /\ i = Len(events) + (i - Len(events)))
        BY <1>1, <1>3, <2>4
      <4>2. CASE i - Len(events) \in 1..n /\ i = Len(events) + (i - Len(events))
        <5>1. events'[i] = es[i - Len(events)] /\ i - Len(events) \in 1..Len(es)
          BY <1>3, <4>2
        <5> QED
          BY <2>2, <2>4, <5>1
      <4> QED
        BY <4>1, <4>2
    <3>2. events'[i] = events[i]
      BY <1>3, <3>1
    <3>3. PICK j \in i..Len(events) : events[j] = Removal(s)
      BY <1>1, <1>5, <2>1, <2>3, <2>4, <3>1, <3>2 DEF Gone
    <3>4. j \in i..Len(events') /\ events'[j] = events[j]
      BY <1>1, <1>3, <3>1, <3>3
    <3> QED
      BY <3>3, <3>4
  <2>5. ASSUME job' # None, job'.stem = s, job'.kind # "remove"
        PROVE  \E j \in 1..Len(events') : events'[j] = Removal(s)
    <3>1. PICK j \in 1..Len(events) : events[j] = Removal(s)
      BY <1>5, <2>1, <2>3, <2>5 DEF Gone
    <3>2. j \in 1..Len(events') /\ events'[j] = events[j]
      BY <1>1, <1>3, <3>1
    <3> QED
      BY <3>1, <3>2
  <2> QED
    BY <2>4, <2>5
<1> QED
  BY <1>4, <1>5

LEMMA TakeGone ==
  ASSUME StateOK, NEW s \in Stems, Gone(s), Take, UNCHANGED <<files, away>>
  PROVE  Gone(s)'
<1> DEFINE e == Head(events)
<1>1. events \in Seq(Event) /\ Len(events) \in Nat /\ Len(events) >= 1 /\ DOMAIN events = 1..Len(events)
  BY DEF StateOK, WatcherTypeOK, Take
<1>2. e = events[1] /\ e \in Event
  BY <1>1
<1>3. /\ Len(events') = Len(events) - 1 /\ DOMAIN events' = 1..(Len(events) - 1)
      /\ \A i \in 1..(Len(events) - 1) : events'[i] = events[i + 1]
  BY <1>1 DEF Take
<1>4. job = None /\ (Debounced(e) \/ Accepted(e))
  BY DEF Take
<1> HIDE DEF e
<1> SUFFICES ASSUME files[s] = None, s \notin lost', s \notin away
             PROVE  /\ \A i \in DOMAIN events' : events'[i].stem = s /\ Changes(events'[i]) =>
                         \E j \in i..Len(events') : events'[j] = Removal(s)
                    /\ job' # None /\ job'.stem = s /\ job'.kind # "remove" =>
                         \E j \in 1..Len(events') : events'[j] = Removal(s)
  BY DEF Gone, Changes, Removal, EventOf
<1>5. s \notin lost
  BY <1>4 DEF Debounced, Accepted
<1>6. \A i \in 1..Len(events) : events[i].stem = s /\ Changes(events[i]) =>
        \E j \in i..Len(events) : events[j] = Removal(s)
  BY <1>1, <1>5 DEF Gone
<1>7. ASSUME NEW i \in DOMAIN events', events'[i].stem = s, Changes(events'[i])
      PROVE  \E j \in i..Len(events') : events'[j] = Removal(s)
  <2>1. i \in Nat /\ i >= 1 /\ i + 1 \in 1..Len(events) /\ events'[i] = events[i + 1]
    BY <1>1, <1>3
  <2>2. PICK j \in (i + 1)..Len(events) : events[j] = Removal(s)
    BY <1>6, <1>7, <2>1
  <2>3. j - 1 \in i..Len(events') /\ events'[j - 1] = events[j]
    BY <1>1, <1>3, <2>1, <2>2
  <2> QED
    BY <2>2, <2>3
<1>8. ASSUME job' # None, job'.stem = s, job'.kind # "remove"
      PROVE  \E j \in 1..Len(events') : events'[j] = Removal(s)
  <2>1. job' = e /\ Changes(e)
    BY <1>4, <1>8 DEF Debounced, Accepted
  <2>2. PICK j \in 1..Len(events) : events[j] = Removal(s)
    BY <1>1, <1>2, <1>6, <1>8, <2>1
  <2>3. j # 1
    BY <1>2, <1>8, <2>1, <2>2 DEF Removal, EventOf
  <2>4. j - 1 \in 1..Len(events') /\ events'[j - 1] = events[j]
    BY <1>1, <1>3, <2>2, <2>3
  <2> QED
    BY <2>2, <2>4
<1> QED
  BY <1>7, <1>8

LEMMA TouchGone ==
  ASSUME ServerInv, GoneInv, NEW r \in Stems, Touched(r), NEW s \in Stems
  PROVE  Gone(s)'
<1>1. files \in [Stems -> Inodes \cup {None}] /\ StateOK /\ Gone(s) /\ job' = job
  BY DEF ServerInv, StateOK, GoneInv, Touched
<1>2. PICK k \in {"modify", "remove"} :
        Tell(<<EventOf(r, k)>>) /\ (k = "remove" \/ files'[r] # None \/ r \in away')
  <2>1. CASE PutFile(r) \/ TouchFile(r)
    BY <1>1, <2>1, NamesAssumption DEF PutFile, TouchFile
  <2>2. CASE MoveAway(r)
    <3>1. files'[r] = None /\ Tell(<<EventOf(r, "modify")>>)
      BY <1>1, <2>2 DEF MoveAway
    <3>2. 1 \in DOMAIN <<EventOf(r, "modify")>> /\ <<EventOf(r, "modify")>>[1] = EventOf(r, "modify")
      OBVIOUS
    <3>3. r \in away'
      BY <3>1, <3>2 DEF Tell
    <3> QED
      BY <3>1, <3>3
  <2>3. CASE RemoveFile(r)
    BY <2>3 DEF RemoveFile
  <2> QED
    BY <2>1, <2>2, <2>3 DEF Touched
<1> DEFINE es == <<EventOf(r, k)>>
<1>3. es \in Seq(Event) /\ Len(es) = 1 /\ es[1].stem = r /\ Tell(es)
  BY <1>2 DEF EventOf, Event, Kinds
<1>4. s # r => files'[s] = files[s]
  BY <1>1 DEF Touched, PutFile, MoveAway, RemoveFile, TouchFile
<1>5. k = "remove" /\ s = r => es = <<Removal(s)>>
  BY DEF Removal
<1> HIDE DEF es
<1>6. s # r => \A j \in 1..Len(es) : es[j].stem # s
  BY <1>3
<1> QED
  BY <1>1, <1>2, <1>3, <1>4, <1>5, <1>6, SendGone

LEMMA StepGone == ServerInv /\ GoneInv /\ [Next]_vars => GoneInv'
<1> SUFFICES ASSUME ServerInv, GoneInv, [Next]_vars, NEW s \in Stems PROVE Gone(s)'
  BY DEF GoneInv
<1>1. StateOK /\ Gone(s) /\ files \in [Stems -> Inodes \cup {None}]
  BY DEF ServerInv, StateOK, GoneInv
<1>2. CASE Still
  BY <1>1, <1>2 DEF Still, Gone, Changes, Removal, EventOf
<1>3. CASE Taken
  BY <1>1, <1>3, TakeGone DEF Taken
<1>4. ASSUME Says, job' = job \/ job' = None PROVE Gone(s)'
  BY <1>1, <1>4, SendGone DEF Says, Mild
<1>5. ASSUME NEW r \in Stems, NEW i \in Inodes, OpensFile(r, i), job' = job \/ job' = None
      PROVE  Gone(s)'
  <2>1. files'[s] # None \/ files'[s] = files[s]
    BY <1>1, <1>5, NamesAssumption DEF OpensFile
  <2> QED
    BY <1>1, <1>5, <2>1, SendGone DEF OpensFile, Mild
<1>6. ASSUME NEW r \in Stems, Touched(r) PROVE Gone(s)'
  BY <1>6, TouchGone
<1> QED
  BY <1>2, <1>3, <1>4, <1>5, <1>6, FileSteps, NameStems
     DEF FileStep, Quietly, Served, Created, Kept, Removed, Reloaded

LEMMA InitGone == Init => GoneInv
BY DEF Init, WatcherInit, GoneInv, Gone

(* The watcher brings a file back, empty, only if it was notified as       *)
(* modified when it went or after it, or if its removal is still in the    *)
(* channel or was swallowed (reload_database of a name whose file is gone).*)
LEMMA ReloadsTheRemoved ==
  ASSUME ServerInv, GoneInv, NEW s \in Stems, Callback, files[s] = None, files'[s] # None
  PROVE  s \in lost \cup away \/ \E i \in DOMAIN events : events[i] = EventOf(s, "remove")
<1>1. job \in Event /\ job # None
  BY DEF ServerInv, StateOK, WatcherTypeOK, Callback
<1>2. job.kind # "remove" /\ Reload(FileName(job.stem))
  BY DEF Callback, Remove, Closes
<1>3. PICK i \in Inodes : Open(FileName(job.stem).stem, i, <<>>)
  BY <1>2 DEF Reload, NotReloaded, OpenFails
<1>4. job.stem = s
  BY <1>3 DEF Open, FileName, ServerInv, StateOK
<1>5. DOMAIN events = 1..Len(events)
  BY DEF ServerInv, StateOK, WatcherTypeOK
<1> QED
  BY <1>1, <1>2, <1>4, <1>5 DEF GoneInv, Gone, Removal

(* Only moved and still written files, and races with a removal, bring a   *)
(* file back (RevivalExplained: the watcher's callback and the events of   *)
(* the server's own writes).                                               *)
THEOREM RevivalsExplained == Spec => RevivalExplained
<1>1. ServerInv /\ GoneInv /\ [Next]_vars =>
        [\A s \in Stems : Callback /\ files[s] = None /\ files'[s] # None =>
           s \in lost \cup away \/ \E i \in DOMAIN events : events[i] = EventOf(s, "remove")]_vars
  BY ReloadsTheRemoved
<1> QED
  BY <1>1, InitGone, StepGone, SpecInv, PTL DEF Spec, RevivalExplained

-----------------------------------------------------------------------------
(* A change of a file stays on its way until its callback.                 *)
InChannel(s) == \E i \in DOMAIN events : events[i].stem = s /\ Changes(events[i])

LEMMA ChannelFacts ==
  ASSUME StateOK
  PROVE  events \in Seq(Event) /\ Len(events) \in Nat /\ DOMAIN events = 1..Len(events)
BY DEF StateOK, WatcherTypeOK

LEMMA SendPends ==
  ASSUME StateOK, NEW s \in Stems, NEW es \in Seq(Event), Tell(es)
  PROVE  /\ s \in lost \/ InChannel(s) => s \in lost' \/ InChannel(s)'
         /\ (\E k \in 1..Len(es) : es[k].stem = s /\ Changes(es[k])) => s \in lost' \/ InChannel(s)'
<1>1. PICK n \in 0..Len(es) : Sent(es, n)
  BY NotifySends DEF Tell, StateOK
<1>2. /\ DOMAIN events' = 1..(Len(events) + n) /\ Len(events) \in Nat
      /\ \A i \in 1..Len(events) : events'[i] = events[i]
      /\ \A i \in 1..n : events'[Len(events) + i] = es[i]
  <2>1. events' \in Seq(Event) /\ Len(events') = Len(events) + n
    BY <1>1 DEF Sent
  <2>2. DOMAIN events' = 1..Len(events') /\ Len(events) \in Nat
    BY <2>1, ChannelFacts
  <2>3. /\ \A i \in 1..Len(events) : events'[i] = events[i]
        /\ \A i \in 1..n : events'[Len(events) + i] = es[i]
    BY <1>1 DEF Sent
  <2> QED
    BY <2>1, <2>2, <2>3
<1>3. InChannel(s) => InChannel(s)'
  <2> SUFFICES ASSUME NEW i \in 1..Len(events), events[i].stem = s, Changes(events[i])
               PROVE  InChannel(s)'
    BY ChannelFacts DEF InChannel
  <2>1. i \in DOMAIN events' /\ events'[i] = events[i]
    BY <1>2
  <2> QED
    BY <2>1 DEF InChannel, Changes
<1>4. ASSUME NEW k \in 1..Len(es), es[k].stem = s, Changes(es[k])
      PROVE  s \in lost' \/ InChannel(s)'
  <2>1. CASE k \in 1..n
    <3>1. Len(events) + k \in DOMAIN events' /\ events'[Len(events) + k] = es[k]
      BY <1>2, <2>1
    <3> QED
      BY <1>4, <3>1 DEF InChannel, Changes
  <2>2. CASE k \in (n + 1)..Len(es)
    BY <1>1, <1>4, <2>2 DEF Sent
  <2> QED
    BY <2>1, <2>2
<1>5. s \in lost => s \in lost' \/ InChannel(s)'
  <2>1. CASE \E k \in 1..n : es[k].stem = s /\ Changes(es[k])
    BY <1>4, <2>1
  <2>2. CASE ~\E k \in 1..n : es[k].stem = s /\ Changes(es[k])
    BY <1>1, <2>2 DEF Sent
  <2> QED
    BY <2>1, <2>2
<1> QED
  BY <1>3, <1>4, <1>5

LEMMA TakePends ==
  ASSUME StateOK, NEW s \in Stems, Take, Pending(s)
  PROVE  Pending(s)'
<1> DEFINE e == Head(events)
<1>1. /\ events \in Seq(Event) /\ Len(events) \in Nat /\ Len(events) >= 1
      /\ DOMAIN events = 1..Len(events) /\ e = events[1]
  BY ChannelFacts DEF Take
<1>2. /\ DOMAIN events' = 1..(Len(events) - 1)
      /\ \A i \in 1..(Len(events) - 1) : events'[i] = events[i + 1]
  BY <1>1 DEF Take
<1>3. job = None /\ (Debounced(e) \/ Accepted(e))
  BY DEF Take
<1> HIDE DEF e
<1>4. CASE s \in lost
  BY <1>3, <1>4 DEF Pending, Debounced, Accepted
<1>5. ASSUME NEW i \in DOMAIN events, events[i].stem = s, Changes(events[i])
      PROVE  Pending(s)'
  <2>1. CASE i # 1
    <3>1. i - 1 \in DOMAIN events' /\ events'[i - 1] = events[i]
      BY <1>1, <1>2, <2>1
    <3> QED
      BY <1>5, <3>1 DEF Pending, Changes
  <2>2. CASE i = 1
    <3>1. e.stem = s /\ Changes(e)
      BY <1>1, <1>5, <2>2
    <3>2. CASE Accepted(e)
      <4>1. job' # None /\ job'.stem = s
        BY <1>1, <3>1, <3>2, NamesAssumption DEF Accepted
      <4> QED
        BY <4>1 DEF Pending
    <3>3. CASE Debounced(e) /\ IsLast(e)
      BY <3>1, <3>3 DEF Debounced, Pending
    <3>4. CASE Debounced(e) /\ ~IsLast(e)
      <4>1. PICK j \in 2..Len(events) : events[j].stem = s /\ Changes(events[j])
        BY <3>1, <3>4 DEF IsLast
      <4>2. j - 1 \in DOMAIN events' /\ events'[j - 1] = events[j]
        BY <1>1, <1>2, <4>1
      <4> QED
        BY <4>1, <4>2 DEF Pending, Changes
    <3> QED
      BY <1>3, <3>2, <3>3, <3>4
  <2> QED
    BY <2>1, <2>2
<1> QED
  BY <1>3, <1>4, <1>5 DEF Pending

-----------------------------------------------------------------------------
(* An entry whose name and file a step leaves alone stays explained.       *)
StaleOK(s) == LET i == databases[FileName(s)] IN
  i # None /\ i # files[s] /\ ~Pending(s) => s \in refused

LEMMA StaleRest ==
  ASSUME NEW s \in Stems, StaleOK(s), Pending(s) => Pending(s)', s \in refused => s \in refused',
         files'[s] = files[s], databases'[FileName(s)] = databases[FileName(s)]
  PROVE  StaleOK(s)'
BY DEF StaleOK

LEMMA StepStale == ServerInv /\ StaleEntryExplained /\ [Next]_vars => StaleEntryExplained'
<1> SUFFICES ASSUME ServerInv, StaleEntryExplained, [Next]_vars, NEW s \in Stems
             PROVE  StaleOK(s)'
  BY DEF StaleEntryExplained, StaleOK
<1>1. /\ FileName(s) \in Names /\ FileName(s).stem = s /\ StaleOK(s) /\ StateOK
      /\ databases \in [Names -> Inodes \cup {None}] /\ files \in [Stems -> Inodes \cup {None}]
  BY NamesAssumption DEF FileName, StaleEntryExplained, StaleOK, ServerInv, StateOK
<1>2. \A r \in Stems : r # s => FileName(r) # FileName(s)
  BY DEF FileName
(* What is sent leaves a change on its way, if the callback that ends is   *)
(* for another file.                                                       *)
<1>3. ASSUME NEW es \in Seq(Event), Tell(es), job' = job \/ (job.stem # s /\ job' = None)
      PROVE  /\ Pending(s) => Pending(s)'
             /\ (\E k \in 1..Len(es) : es[k].stem = s /\ Changes(es[k])) => Pending(s)'
  BY <1>1, <1>3, SendPends DEF Pending, InChannel
<1>4. ASSUME Says, job' = job \/ (job.stem # s /\ job' = None) PROVE Pending(s) => Pending(s)'
  BY <1>3, <1>4 DEF Says, Mild
<1>5. ASSUME NEW r \in Stems, NEW i \in Inodes, OpensFile(r, i),
             job' = job \/ (job.stem # s /\ job' = None)
      PROVE  /\ files'[s] = files[s] \/ (r = s /\ Pending(s)')
             /\ Pending(s) => Pending(s)'
  <2>1. PICK es : /\ Mild(es) /\ Tell(es)
                  /\ files[r] = None => \E k \in 1..Len(es) : es[k] = EventOf(r, "modify")
    BY <1>5 DEF OpensFile
  <2>2. Pending(s) => Pending(s)'
    BY <1>3, <1>5, <2>1 DEF Mild
  <2>3. CASE r = s /\ files[r] = None
    <3>1. PICK k \in 1..Len(es) : es[k] = EventOf(s, "modify")
      BY <2>1, <2>3
    <3>2. es[k].stem = s /\ Changes(es[k])
      BY <3>1 DEF EventOf, Changes
    <3> QED
      BY <1>3, <1>5, <2>1, <2>2, <2>3, <3>2 DEF Mild
  <2>4. CASE ~(r = s /\ files[r] = None)
    <3>1. files'[s] = files[s]
      BY <1>1, <1>5, <2>4 DEF OpensFile
    <3> QED
      BY <2>2, <3>1
  <2> QED
    BY <2>3, <2>4
<1>6. CASE Still
  <2>1. Pending(s) => Pending(s)'
    BY <1>6 DEF Still, Pending, Changes
  <2> QED
    BY <1>1, <1>6, <2>1, StaleRest DEF Still
<1>7. CASE Taken
  BY <1>1, <1>7, TakePends, StaleRest DEF Taken
<1>8. CASE Quietly
  BY <1>1, <1>4, <1>8, StaleRest DEF Quietly, Says
<1>9. ASSUME NEW n \in Names, NEW i \in Inodes, Served(n, i) PROVE StaleOK(s)'
  <2>1. n.stem \in Stems /\ OpensFile(n.stem, i) /\ UNCHANGED <<job, refused>>
    BY <1>9, NameStems DEF Served
  <2>2. (files'[s] = files[s] \/ Pending(s)') /\ (Pending(s) => Pending(s)')
    BY <1>5, <2>1
  <2>3. CASE n = FileName(s)
    <3>1. files'[s] = i /\ databases'[FileName(s)] = i
      BY <1>1, <1>9, <2>3 DEF Served, OpensFile
    <3> QED
      BY <3>1 DEF StaleOK
  <2>4. CASE n # FileName(s) /\ files'[s] = files[s]
    BY <1>1, <1>9, <2>1, <2>2, <2>4, StaleRest DEF Served
  <2>5. CASE Pending(s)'
    BY <2>5 DEF StaleOK
  <2> QED
    BY <2>2, <2>3, <2>4, <2>5
<1>10. ASSUME NEW r \in Stems, NEW i \in Inodes, Created(r, i) PROVE StaleOK(s)'
  <2>1. (files'[s] = files[s] \/ Pending(s)') /\ (Pending(s) => Pending(s)')
    BY <1>5, <1>10 DEF Created
  <2>2. CASE files'[s] = files[s]
    BY <1>1, <1>10, <2>1, <2>2, StaleRest DEF Created
  <2>3. CASE Pending(s)'
    BY <2>3 DEF StaleOK
  <2> QED
    BY <2>1, <2>2, <2>3
<1>11. ASSUME NEW r \in Stems, NEW i \in Inodes, Reloaded(r, i), job.stem = r PROVE StaleOK(s)'
  <2>1. CASE r = s
    <3>1. files'[s] = i /\ databases'[FileName(s)] = i
      BY <1>1, <1>11, <2>1 DEF Reloaded, OpensFile
    <3> QED
      BY <3>1 DEF StaleOK
  <2>2. CASE r # s
    <3>1. files'[s] = files[s] /\ (Pending(s) => Pending(s)')
      BY <1>5, <1>11, <2>2 DEF Reloaded
    <3>2. databases'[FileName(s)] = databases[FileName(s)] /\ (s \in refused => s \in refused')
      BY <1>1, <1>2, <1>11, <2>2 DEF Reloaded
    <3> QED
      BY <1>1, <3>1, <3>2, StaleRest
  <2> QED
    BY <2>1, <2>2
(* The watcher could not open the file.                                    *)
<1>12. ASSUME NEW r \in Stems, Kept(r), job.stem = r PROVE StaleOK(s)'
  <2>1. CASE r = s
    BY <1>12, <2>1 DEF Kept, StaleOK
  <2>2. CASE r # s
    <3>1. (Pending(s) => Pending(s)') /\ (s \in refused => s \in refused')
      BY <1>4, <1>12, <2>2 DEF Kept
    <3> QED
      BY <1>1, <1>12, <3>1, StaleRest DEF Kept, Says
  <2> QED
    BY <2>1, <2>2
<1>13. ASSUME NEW r \in Stems, Removed(r), job.stem = r PROVE StaleOK(s)'
  <2>1. CASE r = s
    BY <1>1, <1>13, <2>1 DEF Removed, StaleOK
  <2>2. CASE r # s
    <3>1. (Pending(s) => Pending(s)') /\ (s \in refused => s \in refused')
      BY <1>4, <1>13, <2>2 DEF Removed
    <3>2. databases'[FileName(s)] = databases[FileName(s)] /\ UNCHANGED files
      BY <1>1, <1>2, <1>13, <2>2 DEF Removed, Says
    <3> QED
      BY <1>1, <3>1, <3>2, StaleRest
  <2> QED
    BY <2>1, <2>2
<1>14. ASSUME NEW r \in Stems, Touched(r) PROVE StaleOK(s)'
  <2>1. PICK k \in {"modify", "remove"} : Tell(<<EventOf(r, k)>>)
    BY <1>14 DEF Touched, PutFile, MoveAway, RemoveFile, TouchFile
  <2> DEFINE es == <<EventOf(r, k)>>
  <2>2. /\ es \in Seq(Event) /\ 1 \in 1..Len(es) /\ es[1].stem = r /\ Changes(es[1])
        /\ Tell(es) /\ job' = job
    BY <1>14, <2>1 DEF EventOf, Event, Kinds, Changes, Touched
  <2> HIDE DEF es
  <2>3. CASE r = s
    <3>1. Pending(s)'
      BY <1>3, <2>2, <2>3
    <3> QED
      BY <3>1 DEF StaleOK
  <2>4. CASE r # s
    <3>1. files'[s] = files[s] /\ UNCHANGED <<databases, refused>>
      BY <1>1, <1>14, <2>4 DEF Touched, PutFile, MoveAway, RemoveFile, TouchFile
    <3> QED
      BY <1>1, <1>3, <2>2, <3>1, StaleRest
  <2> QED
    BY <2>3, <2>4
<1> QED
  BY <1>6, <1>7, <1>8, <1>9, <1>10, <1>11, <1>12, <1>13, <1>14, FileSteps DEF FileStep

(* The server starts with one database for a file.                         *)
LEMMA InitFiles ==
  ASSUME Init
  PROVE  /\ \A n \in Names : databases[n] # None => files[n.stem] = databases[n]
         /\ \A s \in Stems : files[s] # None =>
              \E n \in Names : n.stem = s /\ databases[n] = files[s]
<1> DEFINE Of(s) == {n \in Names : n.stem = s /\ databases[n] # None}
<1>1. \A s \in Stems : files[s] = IF Of(s) = {} THEN None ELSE databases[CHOOSE n \in Of(s) : TRUE]
  BY DEF Init
<1>2. \A m, n \in Names : databases[m] # None /\ databases[n] # None /\ m.stem = n.stem => m = n
  BY LoadedAssumption DEF Init
<1>3. ASSUME NEW s \in Stems, NEW n \in Names, n.stem = s, databases[n] # None
      PROVE  files[s] = databases[n]
  <2>1. n \in Of(s)
    BY <1>3
  <2>2. (CHOOSE m \in Of(s) : TRUE) \in Of(s)
    BY <2>1
  <2>3. (CHOOSE m \in Of(s) : TRUE) = n
    BY <1>2, <1>3, <2>2
  <2> QED
    BY <1>1, <2>1, <2>3
<1>4. ASSUME NEW s \in Stems, files[s] # None
      PROVE  \E n \in Names : n.stem = s /\ databases[n] = files[s]
  <2>1. Of(s) # {}
    BY <1>1, <1>4
  <2>2. PICK n \in Of(s) : TRUE
    BY <2>1
  <2> QED
    BY <1>3, <2>2
<1> QED
  BY <1>3, <1>4, NameStems

LEMMA InitStale == Init => StaleEntryExplained
<1> SUFFICES ASSUME Init, NEW s \in Stems, databases[FileName(s)] # None
             PROVE  databases[FileName(s)] = files[s]
  BY DEF StaleEntryExplained
<1>1. FileName(s) \in Names /\ FileName(s).stem = s
  BY NamesAssumption DEF FileName
<1> QED
  BY <1>1, InitFiles

(* A database served under its file name whose file was removed, moved     *)
(* away or replaced is so because an event of the file is on its way or    *)
(* was swallowed, or because the watcher tried the file as it is and could *)
(* not open it (StaleEntryExplained: the watcher and reload_database).     *)
THEOREM StaleEntriesExplained == Spec => []StaleEntryExplained
BY InitStale, StepStale, SpecInv, PTL DEF Spec
=============================================================================
