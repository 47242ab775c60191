---------------------------- MODULE ShellProofs ----------------------------
(***************************************************************************)
(* Theorems about Shell and the counters of Monitor, for any databases     *)
(* under any names, and any threads that record queries.                   *)
(***************************************************************************)
EXTENDS Shell, FiniteSetTheorems, TLAPS

-----------------------------------------------------------------------------
(* Writes, executors and files.                                            *)

ShellTyped ==
  /\ running \in BOOLEAN /\ map \subseteq Names /\ executor \in map \cup {"first"}
  /\ undo \in [Executors -> SUBSET Nat] /\ open \in [Executors -> BOOLEAN]
  /\ data \in [Files -> SUBSET Nat] /\ kept \in [Files -> SUBSET Nat]

(* What is stored is what was kept and what can still be undone; no write  *)
(* is both, and none can be undone by two executors.                       *)
Stored ==
  \A f \in Files : \A w :
    w \in data[f] <=> w \in kept[f] \/ \E e \in Executors : FileFor(e) = f /\ w \in undo[e]
Apart ==
  \A e, x \in Executors : FileFor(e) = FileFor(x) =>
    /\ \A w \in undo[e] : w \notin kept[FileFor(e)]
    /\ e # x => \A w \in undo[e] : w \notin undo[x]

(* Only executors that are still there have something to undo.             *)
Emptied == \A e \in Executors : e \notin Dropped \/ ~running => undo[e] = {}

FiniteData == \A f \in Files : IsFiniteSet(data[f])

ShellInv == ShellTyped /\ Stored /\ Apart /\ Emptied /\ FiniteData

LEMMA FileForType == \A e \in Executors : FileFor(e) \in Files
BY ShellAssumption DEF Executors, Files, FileFor

(* A file is finite, so that another write can be told from all it holds.  *)
LEMMA NewWriteIsNew ==
  ASSUME NEW f \in Files, IsFiniteSet(data[f])
  PROVE  NewWrite(f) \in Nat /\ NewWrite(f) \notin data[f]
<1> DEFINE n == Cardinality(data[f])
<1>1. n \in Nat
  BY FS_CardinalityType
<1>2. IsFiniteSet(0..n) /\ Cardinality(0..n) = n + 1
  BY <1>1, FS_Interval
<1>3. ~(0..n \subseteq data[f])
  <2> SUFFICES ASSUME 0..n \in SUBSET data[f] PROVE FALSE
    OBVIOUS
  <2>1. Cardinality(0..n) <= n
    BY FS_Subset
  <2> HIDE DEF n
  <2> QED
    BY <1>1, <1>2, <2>1
<1>4. NewWrite(f) \in 0..n /\ NewWrite(f) \notin data[f]
  BY <1>3 DEF NewWrite
<1> QED
  BY <1>1, <1>4

LEMMA InitShell == Init => ShellInv
<1> SUFFICES ASSUME ShellInit PROVE ShellInv
  BY DEF Init
<1>1. Primary \in Names /\ Others \subseteq Names
  BY ShellAssumption
<1>2. ShellTyped
  BY <1>1 DEF ShellInit, ShellTyped, Executors
<1>3. FiniteData
  BY FS_EmptySet DEF ShellInit, FiniteData
<1> QED
  BY <1>2, <1>3 DEF ShellInit, ShellInv, Stored, Apart, Emptied

(* The writes of an executor are undone: by ROLLBACK, or when it goes.     *)
LEMMA RollbackKeeps ==
  ASSUME ShellInv, running, NEW e \in Executors, Rollback(e), UNCHANGED kept
  PROVE  /\ Stored' /\ Apart' /\ FiniteData'
         /\ undo' = [undo EXCEPT ![e] = {}] /\ data' \in [Files -> SUBSET Nat]
         /\ undo' \in [Executors -> SUBSET Nat] /\ open' \in [Executors -> BOOLEAN]
<1> DEFINE g == FileFor(e)
<1>1. /\ ShellTyped /\ Stored /\ Apart /\ FiniteData /\ g \in Files
      /\ \A x \in Executors : FileFor(x) \in Files
  BY FileForType DEF ShellInv
<1>2. /\ data' = [data EXCEPT ![g] = @ \ undo[e]] /\ undo' = [undo EXCEPT ![e] = {}]
      /\ open' = [open EXCEPT ![e] = FALSE] /\ kept' = kept
  BY DEF Rollback
<1>3. /\ data' \in [Files -> SUBSET Nat] /\ undo' \in [Executors -> SUBSET Nat]
      /\ open' \in [Executors -> BOOLEAN]
      /\ undo'[e] = {} /\ \A x \in Executors : x # e => undo'[x] = undo[x]
      /\ data'[g] = data[g] \ undo[e] /\ \A f \in Files : f # g => data'[f] = data[f]
  BY <1>1, <1>2 DEF ShellTyped
<1> HIDE DEF g
<1>4. Apart'
  BY <1>1, <1>2, <1>3 DEF Apart, FileFor
<1>5. ASSUME NEW f \in Files, NEW w
      PROVE  w \in data'[f] <=> w \in kept[f] \/ \E x \in Executors : FileFor(x) = f /\ w \in undo'[x]
  <2>1. CASE f # g
    BY <1>1, <1>3, <2>1 DEF Stored, g
  <2>2. CASE f = g
    <3>1. w \in data'[f] <=> w \in data[g] /\ w \notin undo[e]
      BY <1>3, <2>2
    <3>2. w \in undo[e] => w \notin kept[g] /\ \A x \in Executors : FileFor(x) = g => w \notin undo'[x]
      BY <1>1, <1>3 DEF Apart, g
    <3> QED
      BY <1>1, <1>3, <2>2, <3>1, <3>2 DEF Stored, g
  <2> QED
    BY <2>1, <2>2
<1>6. Stored'
  BY <1>2, <1>5 DEF Stored, FileFor
<1>7. FiniteData'
  <2>1. \A f \in Files : data'[f] \in SUBSET data[f]
    BY <1>3
  <2> QED
    BY <1>1, <2>1, FS_Subset DEF FiniteData
<1> QED
  BY <1>2, <1>3, <1>4, <1>6, <1>7

(* A write is kept at once, or undone with the transaction.                *)
LEMMA WriteKeeps == ShellInv /\ Write => ShellInv'
<1> SUFFICES ASSUME ShellInv, Write PROVE ShellInv'
  OBVIOUS
<1> DEFINE g == FileFor(executor)
           w == NewWrite(g)
<1>1. /\ ShellTyped /\ Stored /\ Apart /\ Emptied /\ FiniteData /\ g \in Files /\ running
      /\ executor \in Executors /\ UNCHANGED <<running, executor, map, open>>
      /\ \A x \in Executors : FileFor(x) \in Files
  BY FileForType DEF ShellInv, ShellTyped, Write, Ready, Recorded, Executors
<1>2. w \in Nat /\ w \notin data[g]
  BY <1>1, NewWriteIsNew DEF FiniteData
<1>3. /\ data' = [data EXCEPT ![g] = @ \cup {w}]
      /\ \/ undo' = [undo EXCEPT ![executor] = @ \cup {w}] /\ UNCHANGED kept
         \/ kept' = [kept EXCEPT ![g] = @ \cup {w}] /\ UNCHANGED undo
  BY DEF Write
<1> HIDE DEF g, w
<1>4. /\ data' \in [Files -> SUBSET Nat] /\ data'[g] = data[g] \cup {w}
      /\ \A f \in Files : f # g => data'[f] = data[f]
  BY <1>1, <1>2, <1>3 DEF ShellTyped
<1>5. w \notin kept[g] /\ \A x \in Executors : FileFor(x) = g => w \notin undo[x]
  BY <1>1, <1>2 DEF Stored
<1>6. FiniteData'
  <2>1. IsFiniteSet(data[g] \cup {w})
    BY <1>1, FS_AddElement DEF FiniteData
  <2> QED
    BY <1>1, <1>4, <2>1 DEF FiniteData
<1>7. CASE undo' = [undo EXCEPT ![executor] = @ \cup {w}] /\ UNCHANGED kept
  <2>1. /\ undo' \in [Executors -> SUBSET Nat] /\ undo'[executor] = undo[executor] \cup {w}
        /\ \A x \in Executors : x # executor => undo'[x] = undo[x]
    BY <1>1, <1>2, <1>7 DEF ShellTyped
  <2>2. Apart'
    BY <1>1, <1>5, <1>7, <2>1 DEF Apart, FileFor, g
  <2>3. Stored'
    BY <1>1, <1>4, <1>7, <2>1 DEF Stored, FileFor, g
  <2>4. Emptied'
    BY <1>1, <2>1 DEF Emptied, Dropped
  <2> QED
    BY <1>1, <1>4, <1>6, <1>7, <2>1, <2>2, <2>3, <2>4 DEF ShellInv, ShellTyped
<1>8. CASE kept' = [kept EXCEPT ![g] = @ \cup {w}] /\ UNCHANGED undo
  <2>1. /\ kept' \in [Files -> SUBSET Nat] /\ kept'[g] = kept[g] \cup {w}
        /\ \A f \in Files : f # g => kept'[f] = kept[f]
    BY <1>1, <1>2, <1>8 DEF ShellTyped
  <2>2. Apart'
    BY <1>1, <1>5, <1>8, <2>1 DEF Apart, FileFor
  <2>3. Stored'
    BY <1>1, <1>4, <1>8, <2>1 DEF Stored, FileFor
  <2>4. Emptied'
    BY <1>1, <1>8 DEF Emptied, Dropped
  <2> QED
    BY <1>1, <1>4, <1>6, <1>8, <2>1, <2>2, <2>3, <2>4 DEF ShellInv, ShellTyped
<1> QED
  BY <1>3, <1>7, <1>8

LEMMA CommitKeeps == ShellInv /\ Commit => ShellInv'
<1> SUFFICES ASSUME ShellInv, Commit PROVE ShellInv'
  OBVIOUS
<1> DEFINE g == FileFor(executor)
<1>1. /\ ShellTyped /\ Stored /\ Apart /\ Emptied /\ FiniteData /\ g \in Files /\ running
      /\ executor \in Executors /\ UNCHANGED <<running, executor, map, data>>
      /\ \A x \in Executors : FileFor(x) \in Files
  BY FileForType DEF ShellInv, ShellTyped, Commit, Ready, Recorded, Executors
<1>2. /\ kept' = [kept EXCEPT ![g] = @ \cup undo[executor]]
      /\ undo' = [undo EXCEPT ![executor] = {}] /\ open' = [open EXCEPT ![executor] = FALSE]
  BY DEF Commit
<1>3. /\ kept' \in [Files -> SUBSET Nat] /\ undo' \in [Executors -> SUBSET Nat]
      /\ open' \in [Executors -> BOOLEAN]
      /\ kept'[g] = kept[g] \cup undo[executor] /\ \A f \in Files : f # g => kept'[f] = kept[f]
      /\ undo'[executor] = {} /\ \A x \in Executors : x # executor => undo'[x] = undo[x]
  BY <1>1, <1>2 DEF ShellTyped
<1> HIDE DEF g
<1>4. Apart'
  BY <1>1, <1>3 DEF Apart, FileFor, g
<1>5. Stored'
  BY <1>1, <1>3 DEF Stored, FileFor, g
<1>6. Emptied' /\ FiniteData'
  BY <1>1, <1>3 DEF Emptied, Dropped, FiniteData
<1> QED
  BY <1>1, <1>3, <1>4, <1>5, <1>6 DEF ShellInv, ShellTyped

(* .use drops the first executor when it leaves it, and no other.          *)
LEMMA UseKeeps == ASSUME ShellInv, NEW name \in Names, Use(name) PROVE ShellInv'
<1>1. /\ ShellTyped /\ Stored /\ Apart /\ Emptied /\ FiniteData /\ running
      /\ executor \in Executors /\ executor' = name /\ map' = map \cup {name}
      /\ UNCHANGED <<running, kept>> /\ name \in Executors /\ name # "first"
  BY ShellAssumption DEF ShellInv, ShellTyped, Use, Ready, Executors
<1>2. CASE executor = "first"
  <2>1. Rollback(executor)
    BY <1>2 DEF Use, Left
  <2>2. /\ Stored' /\ Apart' /\ FiniteData' /\ data' \in [Files -> SUBSET Nat]
        /\ undo' = [undo EXCEPT ![executor] = {}]
        /\ undo' \in [Executors -> SUBSET Nat] /\ open' \in [Executors -> BOOLEAN]
    BY <1>1, <2>1, RollbackKeeps
  <2>3. Emptied'
    BY <1>1, <1>2, <2>2 DEF Emptied, Dropped, ShellTyped
  <2> QED
    BY <1>1, <2>2, <2>3 DEF ShellInv, ShellTyped
<1>3. CASE executor # "first"
  <2>1. UNCHANGED <<data, undo, open>>
    BY <1>3 DEF Use, Left
  <2> QED
    BY <1>1, <1>3, <2>1 DEF ShellInv, ShellTyped, Stored, Apart, Emptied, FiniteData, Dropped, FileFor
<1> QED
  BY <1>2, <1>3

(* The end of the shell undoes what any executor can undo.                 *)
LEMMA ExitKeeps == ShellInv /\ Exit => ShellInv'
<1> SUFFICES ASSUME ShellInv, Exit PROVE ShellInv'
  OBVIOUS
<1>1. /\ ShellTyped /\ Stored /\ Apart /\ Emptied /\ FiniteData /\ running
      /\ running' = FALSE /\ UNCHANGED <<executor, map, kept>>
      /\ \A x \in Executors : FileFor(x) \in Files
  BY FileForType DEF ShellInv, Exit, Ready
<1>2. \A e \in Executors : undo'[e] = {}
  BY <1>1 DEF Exit, LastDropped, Emptied
<1>3. /\ undo' = [e \in Executors |-> IF e \in Dropped THEN {} ELSE undo[e]]
      /\ open' = [e \in Executors |-> open[e] /\ e \notin Dropped]
      /\ data' = [f \in Files |-> data[f] \ UNION {undo[e] : e \in {x \in Dropped : FileFor(x) = f}}]
  BY DEF Exit, LastDropped
<1>4. ShellTyped'
  BY <1>1, <1>2, <1>3 DEF ShellTyped
<1>5. ASSUME NEW f \in Files, NEW w PROVE w \in data'[f] <=> w \in kept[f]
  <2>1. w \in data'[f] <=> w \in data[f] /\ \A e \in Dropped : FileFor(e) = f => w \notin undo[e]
    BY <1>3
  <2>2. Dropped \subseteq Executors
    BY <1>1 DEF ShellTyped, Dropped, Executors
  <2>3. \A e \in Executors : w \in undo[e] => e \in Dropped
    BY <1>1 DEF Emptied
  <2>4. \A e \in Executors : FileFor(e) = f /\ w \in undo[e] => w \notin kept[f]
    BY <1>1 DEF Apart
  <2> QED
    BY <1>1, <2>1, <2>2, <2>3, <2>4 DEF Stored
<1>6. Stored'
  BY <1>1, <1>2, <1>5 DEF Stored, FileFor
<1>7. Apart' /\ Emptied'
  BY <1>2 DEF Apart, Emptied
<1>8. FiniteData'
  <2>1. \A f \in Files : data'[f] \in SUBSET data[f]
    BY <1>3
  <2> QED
    BY <1>1, <2>1, FS_Subset DEF FiniteData
<1> QED
  BY <1>4, <1>6, <1>7, <1>8 DEF ShellInv

LEMMA StepShell == ShellInv /\ [Next]_vars => ShellInv'
<1> SUFFICES ASSUME ShellInv, [Next]_vars PROVE ShellInv'
  OBVIOUS
<1> USE DEF ShellInv, ShellTyped, Stored, Apart, Emptied, FiniteData, Dropped, FileFor
<1>1. CASE UNCHANGED <<running, executor, map, undo, data, kept>> /\ open' \in [Executors -> BOOLEAN]
  BY <1>1
<1>2. CASE UNCHANGED svars
  BY <1>1, <1>2 DEF svars
<1>3. CASE Select \/ Elsewhere
  BY <1>1, <1>3 DEF Select, Recorded, Elsewhere
<1>4. CASE Begin
  BY <1>1, <1>4 DEF Begin, Recorded
<1>5. CASE RollbackStatement
  <2> USE DEF Executors
  <2>1. /\ running /\ executor \in Executors /\ Rollback(executor)
        /\ UNCHANGED <<running, executor, map, kept>>
    BY <1>5 DEF RollbackStatement, Ready, Recorded
  <2>2. /\ Stored' /\ Apart' /\ FiniteData' /\ data' \in [Files -> SUBSET Nat]
        /\ undo' = [undo EXCEPT ![executor] = {}]
        /\ undo' \in [Executors -> SUBSET Nat] /\ open' \in [Executors -> BOOLEAN]
    BY <2>1, RollbackKeeps
  <2>3. Emptied'
    BY <2>1, <2>2
  <2> QED
    BY <2>1, <2>2, <2>3
<1> QED
  BY <1>2, <1>3, <1>4, <1>5, WriteKeeps, CommitKeeps, ExitKeeps, UseKeeps
     DEF Next, Line, ShowMetrics, Counting, vars

LEMMA ShellInvariant == Spec => []ShellInv
BY InitShell, StepShell, PTL DEF Spec

(* Whatever databases the shell switches between, what is stored in a file *)
(* is what was kept and what an executor can still undo, and when it ends, *)
(* with transactions open in any of them, only what was kept.              *)
THEOREM NothingIsHalf == Spec => []NothingHalf
<1>1. ShellInv => NothingHalf
  <2> SUFFICES ASSUME ShellInv, NEW f \in Files
               PROVE  /\ data[f] = kept[f] \cup UNION {undo[e] : e \in {x \in Executors : FileFor(x) = f}}
                      /\ ~running => data[f] = kept[f]
    BY DEF NothingHalf
  <2>1. \A w : w \in data[f] <=>
               w \in kept[f] \cup UNION {undo[e] : e \in {x \in Executors : FileFor(x) = f}}
    BY DEF ShellInv, Stored
  <2>2. ~running => \A w : w \in data[f] <=> w \in kept[f]
    BY DEF ShellInv, Stored, Emptied
  <2>3. data[f] = kept[f] \cup UNION {undo[e] : e \in {x \in Executors : FileFor(x) = f}}
    BY <2>1
  <2>4. ~running => data[f] = kept[f]
    BY <2>2
  <2> QED
    BY <2>3, <2>4
<1> QED
  BY <1>1, ShellInvariant, PTL

(* The transaction of an executor ends with its own COMMIT or ROLLBACK,    *)
(* with the shell, or, that of the session's first executor, with .use.    *)
THEOREM TransactionsOutlive == Spec => TransactionOutlives
<1>1. ASSUME ShellInv, [Next]_vars, NEW e \in Executors, open[e], ~open'[e]
      PROVE  \/ executor = e /\ executor' \in {e} \cup (IF e = "first" THEN Names ELSE {})
             \/ ~running'
  <2>1. open \in [Executors -> BOOLEAN] /\ executor \in Executors
    BY <1>1 DEF ShellInv, ShellTyped, Executors
  <2>2. CASE \E n \in Names : Use(n)
    <3>1. PICK n \in Names : Use(n)
      BY <2>2
    <3>2. executor = "first" /\ Rollback(executor) /\ executor' = n
      BY <1>1, <3>1 DEF Use, Left
    <3>3. e = executor
      BY <1>1, <2>1, <3>2 DEF Rollback
    <3> QED
      BY <3>2, <3>3
  <2>3. CASE Commit \/ RollbackStatement
    BY <1>1, <2>1, <2>3 DEF Commit, RollbackStatement, Rollback, Recorded
  <2>4. CASE Exit
    BY <2>4 DEF Exit
  <2>5. CASE Begin
    BY <1>1, <2>1, <2>5 DEF Begin
  <2>6. CASE UNCHANGED open
    BY <1>1, <2>6
  <2> QED
    BY <1>1, <2>2, <2>3, <2>4, <2>5, <2>6 DEF Next, Line, ShowMetrics, Select, Write, Elsewhere,
       Counting, svars, vars
<1>2. ShellInv /\ [Next]_vars =>
        [\A e \in Executors : open[e] /\ ~open'[e] =>
           \/ executor = e /\ executor' \in {e} \cup (IF e = "first" THEN Names ELSE {})
           \/ ~running']_vars
  BY <1>1
<1> QED
  BY <1>2, ShellInvariant, PTL DEF Spec, TransactionOutlives

-----------------------------------------------------------------------------
(* The counters and the snapshots of them.                                 *)

Active == {"total", "outcome", "time", "fast", "slow"}
Points == {"idle"} \cup Loads \cup Active

(* How many threads are at a step of S.                                    *)
Count(at, S) == Cardinality({t \in Threads : at[t] \in S})
Tally(p, S) == IF p \in S THEN 1 ELSE 0

LEMMA CountType ==
  ASSUME IsFiniteSet(Threads), NEW at, NEW S
  PROVE  Count(at, S) \in Nat
<1>1. IsFiniteSet({t \in Threads : at[t] \in S})
  BY FS_Subset
<1> QED
  BY <1>1, FS_CardinalityType DEF Count

LEMMA CountMonotone ==
  ASSUME IsFiniteSet(Threads), NEW at, NEW S, NEW T, S \subseteq T
  PROVE  Count(at, S) <= Count(at, T)
<1> DEFINE U == {t \in Threads : at[t] \in T}
           V == {t \in Threads : at[t] \in S}
<1>1. IsFiniteSet(U)
  BY FS_Subset
<1>2. V \in SUBSET U
  OBVIOUS
<1> HIDE DEF U, V
<1>3. Cardinality(V) <= Cardinality(U)
  BY <1>1, <1>2, FS_Subset
<1> QED
  BY <1>3 DEF Count, U, V

(* A thread that moves is counted where it arrives.                        *)
LEMMA CountMoves ==
  ASSUME IsFiniteSet(Threads), NEW P, NEW at \in [Threads -> P], NEW t \in Threads, NEW p, NEW S
  PROVE  Count([at EXCEPT ![t] = p], S) = Count(at, S) + Tally(p, S) - Tally(at[t], S)
<1> DEFINE next == [at EXCEPT ![t] = p]
           U == {u \in Threads : at[u] \in S}
           V == {u \in Threads : next[u] \in S}
           W == {u \in Threads : u # t /\ at[u] \in S}
<1>1. next[t] = p /\ \A u \in Threads : u # t => next[u] = at[u]
  OBVIOUS
<1> HIDE DEF next
<1>2. IsFiniteSet(W) /\ t \notin W
  BY FS_Subset
<1>3. U = (IF at[t] \in S THEN W \cup {t} ELSE W) /\ V = IF p \in S THEN W \cup {t} ELSE W
  BY <1>1
<1> HIDE DEF U, V, W
<1>4. Cardinality(W) \in Nat /\ Cardinality(W \cup {t}) = Cardinality(W) + 1
  BY <1>2, FS_CardinalityType, FS_AddElement
<1>5. Cardinality(U) = Cardinality(W) + Tally(at[t], S) /\ Cardinality(V) = Cardinality(W) + Tally(p, S)
  BY <1>3, <1>4 DEF Tally
<1>6. Cardinality(V) = Cardinality(U) + Tally(p, S) - Tally(at[t], S)
  BY <1>4, <1>5 DEF Tally
<1> QED
  BY <1>6 DEF Count, U, V, next

(* The threads at each of the two additions, and those in record_query.    *)
AtTotal   == Count(pc, {"total"})
AtOutcome == Count(pc, {"outcome"})
UnderWay  == Count(pc, Active)
Pending   == AtTotal + AtOutcome

MonitorTyped ==
  /\ pc \in [Threads -> Points]
  /\ total \in Nat /\ success \in Nat /\ failed \in Nat /\ overlap \in Nat

(* Every query counted is counted as a success or a failure, but those     *)
(* between the two additions.                                              *)
Balanced == total = success + failed + AtOutcome

(* One snapshot at a time, and it has seen every call under way.           *)
Overlapping ==
  /\ \A t, u \in Loading : t = u
  /\ Loading # {} => UnderWay <= overlap

(* What the snapshot has loaded is behind by the calls still to be         *)
(* counted, and ahead by none that it does not overlap.                    *)
Torn == \A t \in Threads :
  /\ pc[t] = "load success" =>
       /\ snap = <<snap[1]>> /\ snap[1] \in Nat
       /\ 0 <= success + failed - snap[1] + overlap
       /\ success + failed - snap[1] + Pending <= overlap
  /\ pc[t] = "load failed" =>
       /\ snap[1] \in Nat /\ snap[2] \in Nat /\ snap[2] <= success
       /\ 0 <= snap[2] + failed - snap[1] + overlap
       /\ success + failed - snap[1] + Pending <= overlap

TearInv == MonitorTyped /\ Balanced /\ Overlapping /\ Torn

LEMMA RecordingCount == MonitorTyped => Cardinality(Recording) = UnderWay
<1> SUFFICES ASSUME MonitorTyped PROVE Recording = {t \in Threads : pc[t] \in Active}
  BY DEF Count, UnderWay
<1> QED
  BY DEF MonitorTyped, Points, Recording, Busy, Loads, Active

LEMMA InitTear == IsFiniteSet(Threads) /\ Init => TearInv
<1> SUFFICES ASSUME IsFiniteSet(Threads), MonitorInit PROVE TearInv
  BY DEF Init
<1>1. \A S : "idle" \notin S => {t \in Threads : pc[t] \in S} = {}
  BY DEF MonitorInit
<1>2. AtOutcome = 0
  BY <1>1, FS_EmptySet DEF Count, AtOutcome
<1>3. Loading = {}
  BY DEF MonitorInit, Loading, Loads
<1> QED
  BY <1>2, <1>3 DEF MonitorInit, TearInv, MonitorTyped, Points, Balanced, Overlapping, Torn

(* The steps of the counters, as far as a snapshot can tell them apart.    *)
Calling(t)   == /\ pc[t] = "idle" /\ pc' = [pc EXCEPT ![t] = "total"]
                /\ overlap' = IF Loading = {} THEN overlap ELSE overlap + 1
                /\ UNCHANGED <<total, success, failed, snap>>
Counted(t)   == /\ pc[t] = "total" /\ pc' = [pc EXCEPT ![t] = "outcome"] /\ total' = total + 1
                /\ UNCHANGED <<success, failed, snap, overlap>>
Judged(t)    == /\ pc[t] = "outcome" /\ pc' = [pc EXCEPT ![t] = "time"]
                /\ \/ success' = success + 1 /\ failed' = failed
                   \/ success' = success /\ failed' = failed + 1
                /\ UNCHANGED <<total, snap, overlap>>
Finishing(t) == /\ pc[t] \in {"time", "fast", "slow"}
                /\ \E p \in {"fast", "slow", "idle"} : pc' = [pc EXCEPT ![t] = p]
                /\ UNCHANGED <<total, success, failed, snap, overlap>>
Resting      == UNCHANGED <<pc, total, success, failed, snap, overlap>>

LEMMA MonitorSteps ==
  ASSUME [Next]_vars
  PROVE  \/ Resting
         \/ \E t \in Threads : \/ Calling(t) \/ Counted(t) \/ Judged(t) \/ Finishing(t)
                               \/ SnapStart(t) \/ LoadTotal(t) \/ LoadSuccess(t) \/ LoadFailed(t)
<1> USE DEF counters, Goto
<1>1. ASSUME NEW t \in Threads, NEW ok, NEW us, Record(t, ok, us) PROVE Calling(t)
  BY <1>1 DEF Record, Calling, Busy
<1>2. ASSUME NEW t \in Threads, AddTotal(t) PROVE Counted(t)
  BY <1>2 DEF AddTotal, Counted
<1>3. ASSUME NEW t \in Threads, AddOutcome(t) PROVE Judged(t)
  BY <1>3 DEF AddOutcome, Judged, Succeeded
<1>4. ASSUME NEW t \in Threads, AddTime(t) PROVE Finishing(t)
  BY <1>4 DEF AddTime, Finishing
<1>5. ASSUME NEW t \in Threads, NEW x \in Extremes, Load(t, x) \/ Swap(t, x)
      PROVE  Finishing(t) \/ Resting
  BY <1>5 DEF Load, Swap, Finishing, Resting, Extremes, After
<1>6. ASSUME UNCHANGED mvars PROVE Resting
  BY <1>6 DEF mvars, metrics, Resting
<1>7. Session \in Threads
  BY ShellAssumption
<1>8. CASE Line
  <2>1. Recorded => \E t \in Threads : Calling(t)
    BY <1>1, <1>7 DEF Recorded
  <2> QED
    BY <1>6, <1>7, <1>8, <2>1 DEF Line, ShowMetrics, Select, Write, Begin, Commit,
       RollbackStatement, Exit, Use
<1>9. CASE Elsewhere
  BY <1>1, <1>9 DEF Elsewhere
<1>10. CASE Counting
  BY <1>2, <1>3, <1>4, <1>5, <1>10 DEF Counting, Step
<1> QED
  BY <1>6, <1>8, <1>9, <1>10 DEF Next, vars

LEMMA StepTear ==
  ASSUME IsFiniteSet(Threads), TearInv, [Next]_vars
  PROVE  TearInv'
<1>1. /\ pc \in [Threads -> Points] /\ total \in Nat /\ success \in Nat /\ failed \in Nat
      /\ overlap \in Nat /\ total = success + failed + AtOutcome
      /\ \A t, u \in Loading : t = u
      /\ Loading # {} => UnderWay <= overlap
      /\ AtOutcome \in Nat /\ AtTotal \in Nat /\ UnderWay \in Nat
      /\ AtOutcome <= UnderWay /\ AtTotal <= UnderWay /\ Pending \in Nat
  BY CountType, CountMonotone
     DEF TearInv, MonitorTyped, Balanced, Overlapping, Active, AtTotal, AtOutcome, UnderWay, Pending
<1>n. /\ success \in Nat /\ failed \in Nat /\ overlap \in Nat /\ Pending \in Nat
      /\ AtTotal \in Nat /\ AtOutcome \in Nat /\ total = success + failed + AtOutcome
      /\ UnderWay \in Nat /\ AtOutcome <= UnderWay /\ AtTotal <= UnderWay
  BY <1>1
<1>p. pc \in [Threads -> Points]
  BY <1>1
<1> DEFINE Moves(t, p) == t \in Threads /\ p \in Points /\ pc' = [pc EXCEPT ![t] = p]
<1>2. ASSUME NEW t, NEW p, Moves(t, p)
      PROVE  /\ AtOutcome' = AtOutcome + Tally(p, {"outcome"}) - Tally(pc[t], {"outcome"})
             /\ AtTotal' = AtTotal + Tally(p, {"total"}) - Tally(pc[t], {"total"})
             /\ UnderWay' = UnderWay + Tally(p, Active) - Tally(pc[t], Active)
             /\ pc' \in [Threads -> Points]
             /\ pc'[t] = p /\ \A u \in Threads : u # t => pc'[u] = pc[u]
  <2>1. pc' \in [Threads -> Points] /\ pc'[t] = p /\ \A u \in Threads : u # t => pc'[u] = pc[u]
    BY <1>1, <1>2
  <2>2. ASSUME NEW S PROVE Count(pc', S) = Count(pc, S) + Tally(p, S) - Tally(pc[t], S)
    <3>1. t \in Threads /\ pc' = [pc EXCEPT ![t] = p]
      BY <1>2
    <3>2. Count([pc EXCEPT ![t] = p], S) = Count(pc, S) + Tally(p, S) - Tally(pc[t], S)
      BY <1>p, <3>1, CountMoves
    <3> QED
      BY <3>1, <3>2
  <2> QED
    BY <2>1, <2>2 DEF AtTotal, AtOutcome, UnderWay
<1> HIDE DEF Moves
(* A thread that is not in a snapshot moves: what it adds is in balance,   *)
(* but for a call that begins while the snapshot is under way.             *)
<1> DEFINE Outside(t, p, n) ==
             /\ Moves(t, p) /\ pc[t] \notin Loads /\ p \notin Loads /\ n \in Nat
             /\ snap' = snap /\ MonitorTyped'
             /\ overlap' = IF Loading = {} THEN overlap ELSE overlap + n
             /\ Tally(p, Active) <= Tally(pc[t], Active) + n
             /\ total' = success' + failed' + AtOutcome'
             /\ success <= success' /\ failed <= failed'
             /\ success' + failed' + Pending'
                  <= success + failed + Pending + n
<1>3. ASSUME NEW t, NEW p, NEW n, Outside(t, p, n) PROVE TearInv'
  <2>1. UnderWay' \in Int /\ UnderWay' <= UnderWay + n
    BY <1>1, <1>2, <1>3 DEF Tally
  <2>2. Loading' = Loading /\ \A u \in Loading : pc'[u] = pc[u]
    BY <1>1, <1>2, <1>3 DEF Loading
  <2>3. Overlapping'
    <3>1. CASE Loading = {}
      BY <2>2, <3>1 DEF Overlapping
    <3>2. CASE Loading # {}
      <4>1. UnderWay' <= overlap'
        BY <1>1, <1>3, <2>1, <3>2
      <4> QED
        BY <1>1, <2>2, <4>1 DEF Overlapping
    <3> QED
      BY <3>1, <3>2
  <2>4. ASSUME NEW u \in Threads, pc'[u] \in {"load success", "load failed"}
        PROVE  u \in Loading /\ pc[u] = pc'[u] /\ overlap' = overlap + n /\ snap' = snap
    <3>1. u \in Loading
      BY <2>2, <2>4 DEF Loading, Loads
    <3> QED
      BY <1>3, <2>2, <3>1
  <2>5. /\ success' \in Nat /\ failed' \in Nat /\ overlap' \in Nat
        /\ Pending' \in Int
    BY <1>1, <1>2, <1>3 DEF MonitorTyped, Tally, Pending
  <2>7. /\ n \in Nat /\ success <= success' /\ failed <= failed'
        /\ success' + failed' + Pending' <= success + failed + Pending + n
    BY <1>3
  <2>6. Torn'
    <3>1. ASSUME NEW u \in Threads, pc'[u] = "load success"
          PROVE  /\ snap = <<snap[1]>> /\ snap[1] \in Nat
                 /\ 0 <= success' + failed' - snap[1] + overlap'
                 /\ success' + failed' - snap[1] + Pending' <= overlap'
      <4>1. /\ snap = <<snap[1]>> /\ snap[1] \in Nat
            /\ 0 <= success + failed - snap[1] + overlap
            /\ success + failed - snap[1] + Pending <= overlap
        BY <2>4, <3>1 DEF TearInv, Torn
      <4>2. /\ 0 <= success' + failed' - snap[1] + overlap'
            /\ success' + failed' - snap[1] + Pending' <= overlap'
        <5>1. overlap' = overlap + n
          BY <2>4, <3>1
        <5> QED
          BY <1>n, <2>5, <2>7, <4>1, <5>1
      <4> QED
        BY <4>1, <4>2
    <3>2. ASSUME NEW u \in Threads, pc'[u] = "load failed"
          PROVE  /\ snap[1] \in Nat /\ snap[2] \in Nat /\ snap[2] <= success'
                 /\ 0 <= snap[2] + failed' - snap[1] + overlap'
                 /\ success' + failed' - snap[1] + Pending' <= overlap'
      <4>1. /\ snap[1] \in Nat /\ snap[2] \in Nat /\ snap[2] <= success
            /\ 0 <= snap[2] + failed - snap[1] + overlap
            /\ success + failed - snap[1] + Pending <= overlap
        BY <2>4, <3>2 DEF TearInv, Torn
      <4>2. /\ 0 <= snap[2] + failed' - snap[1] + overlap'
            /\ success' + failed' - snap[1] + Pending' <= overlap'
        <5>1. overlap' = overlap + n
          BY <2>4, <3>2
        <5>2. 0 <= snap[2] + failed' - snap[1] + overlap'
          BY <1>n, <2>5, <2>7, <4>1, <5>1
        <5>3. success' + failed' - snap[1] + Pending' <= overlap'
          <6>1. ASSUME NEW x \in Nat, success + failed - x + Pending <= overlap
                PROVE  success' + failed' - x + Pending' <= overlap'
            <7>1. success' + failed' + Pending' <= success + failed + Pending + n
              BY <2>7
            <7>2. success' + failed' - x + Pending' <= success + failed - x + Pending + n
              <8>1. ASSUME NEW k \in Int, NEW m \in Int, NEW i \in Nat, NEW j \in Int, i + j + k <= m
                    PROVE  i + j - x + k <= m - x
                BY <6>1, <8>1
              <8>2. success + failed + Pending + n \in Int /\ success + failed - x + Pending + n = (success + failed + Pending + n) - x
                BY <1>n, <2>7, <6>1
              <8> QED
                BY <2>5, <7>1, <8>1, <8>2
            <7>3. success + failed - x + Pending + n <= overlap + n
              BY <1>n, <2>7, <6>1
            <7>4. success' + failed' - x + Pending' \in Int /\ success + failed - x + Pending + n \in Int
              BY <1>n, <2>5, <2>7, <6>1
            <7> QED
              BY <1>n, <2>5, <5>1, <7>2, <7>3, <7>4
          <6> QED
            BY <4>1, <6>1
        <5> QED
          BY <5>2, <5>3
      <4>3. snap[2] <= success'
        BY <1>n, <2>5, <2>7, <4>1
      <4> QED
        BY <4>1, <4>2, <4>3
    <3>3. snap' = snap
      BY <1>3
    <3> QED
      BY <3>1, <3>2, <3>3 DEF Torn
  <2> QED
    BY <1>3, <2>3, <2>6 DEF TearInv, Balanced
<1> HIDE DEF Outside
<1>4. CASE Resting
  BY <1>4 DEF Resting, TearInv, MonitorTyped, Balanced, Overlapping, Torn, Loading, Count, AtTotal, AtOutcome, UnderWay, Pending
<1>5. ASSUME NEW t \in Threads, Calling(t) PROVE TearInv'
  <2>1. /\ pc[t] = "idle" /\ pc' = [pc EXCEPT ![t] = "total"] /\ "total" \in Points \ Loads
        /\ overlap' = IF Loading = {} THEN overlap ELSE overlap + 1
        /\ UNCHANGED <<total, success, failed, snap>> /\ "total" \in Active
    BY <1>5 DEF Calling, Points, Loads, Active
  <2>m. Moves(t, "total")
    BY <2>1 DEF Moves
  <2>2. AtOutcome' = AtOutcome /\ AtTotal' = AtTotal + 1
    BY <1>1, <1>2, <2>1, <2>m DEF Tally
  <2>3. MonitorTyped'
    BY <1>1, <1>2, <2>1, <2>m DEF MonitorTyped
  <2>4. Outside(t, "total", 1)
    BY <1>1, <2>1, <2>m, <2>2, <2>3 DEF Outside, Tally, Loads, Active, Pending
  <2> QED
    BY <1>3, <2>4
<1>6. ASSUME NEW t \in Threads, Counted(t) PROVE TearInv'
  <2>1. /\ pc[t] = "total" /\ pc' = [pc EXCEPT ![t] = "outcome"] /\ "outcome" \in Points \ Loads
        /\ total' = total + 1 /\ UNCHANGED <<success, failed, snap, overlap>>
    BY <1>6 DEF Counted, Points, Loads, Active
  <2>m. Moves(t, "outcome")
    BY <2>1 DEF Moves
  <2>2. AtOutcome' = AtOutcome + 1 /\ AtTotal' = AtTotal - 1
    BY <1>1, <1>2, <2>1, <2>m DEF Tally
  <2>3. MonitorTyped'
    BY <1>1, <1>2, <2>1, <2>m DEF MonitorTyped
  <2>4. Outside(t, "outcome", 0)
    BY <1>1, <2>1, <2>m, <2>2, <2>3 DEF Outside, Tally, Loads, Active, Pending
  <2> QED
    BY <1>3, <2>4
<1>7. ASSUME NEW t \in Threads, Judged(t) PROVE TearInv'
  <2>1. /\ pc[t] = "outcome" /\ pc' = [pc EXCEPT ![t] = "time"] /\ "time" \in Points \ Loads
        /\ \/ success' = success + 1 /\ failed' = failed
           \/ success' = success /\ failed' = failed + 1
        /\ UNCHANGED <<total, snap, overlap>>
    BY <1>7 DEF Judged, Points, Loads, Active
  <2>m. Moves(t, "time")
    BY <2>1 DEF Moves
  <2>2. AtOutcome' = AtOutcome - 1 /\ AtTotal' = AtTotal
    BY <1>1, <1>2, <2>1, <2>m DEF Tally
  <2>3. MonitorTyped'
    BY <1>1, <1>2, <2>1, <2>m DEF MonitorTyped
  <2>4. Outside(t, "time", 0)
    BY <1>1, <2>1, <2>m, <2>2, <2>3 DEF Outside, Tally, Loads, Active, Pending
  <2> QED
    BY <1>3, <2>4
<1>8. ASSUME NEW t \in Threads, Finishing(t) PROVE TearInv'
  <2>1. PICK p \in {"fast", "slow", "idle"} : pc' = [pc EXCEPT ![t] = p]
    BY <1>8 DEF Finishing
  <2>2. /\ pc[t] \in {"time", "fast", "slow"} /\ p \in Points \ Loads
        /\ UNCHANGED <<total, success, failed, snap, overlap>>
    BY <1>8 DEF Finishing, Points, Loads, Active
  <2>m. Moves(t, p)
    BY <2>1, <2>2 DEF Moves
  <2>3. AtOutcome' = AtOutcome /\ AtTotal' = AtTotal
    BY <1>1, <1>2, <2>1, <2>2, <2>m DEF Tally
  <2>4. MonitorTyped'
    BY <1>1, <1>2, <2>1, <2>2, <2>m DEF MonitorTyped
  <2>5. Tally(p, Active) <= Tally(pc[t], Active) + 0
    BY <2>2 DEF Tally, Active
  <2>7. /\ overlap + 0 = overlap /\ total' = success' + failed' + AtOutcome'
        /\ success <= success' /\ failed <= failed'
        /\ success' + failed' + Pending' <= success + failed + Pending + 0
    BY <1>n, <2>2, <2>3 DEF Pending
  <2>8. p \notin Loads /\ pc[t] \notin Loads /\ snap' = snap /\ overlap' = overlap
    BY <2>2 DEF Loads
  <2>6. Outside(t, p, 0)
    BY <2>m, <2>4, <2>5, <2>7, <2>8 DEF Outside
  <2> QED
    BY <1>3, <2>6
(* The thread of a snapshot moves: nothing is counted.                     *)
<1> DEFINE Inside(t, p) ==
             /\ t \in Threads /\ p \in Loads \cup {"idle"} /\ pc' = [pc EXCEPT ![t] = p]
             /\ pc[t] \in Loads \cup {"idle"} /\ UNCHANGED <<total, success, failed>>
             /\ overlap' \in Nat
<1>9. ASSUME NEW t, NEW p, Inside(t, p)
      PROVE  /\ MonitorTyped' /\ Balanced' /\ p \in Points
             /\ AtOutcome' = AtOutcome /\ AtTotal' = AtTotal
             /\ UnderWay' = UnderWay
             /\ pc'[t] = p /\ \A u \in Threads : u # t => pc'[u] = pc[u]
  <2>1. p \in Points /\ p \notin Active /\ pc[t] \notin Active
    BY <1>9 DEF Loads, Active, Points
  <2>m. Moves(t, p)
    BY <1>9, <2>1 DEF Moves
  <2>t. \A S \in {{"outcome"}, {"total"}, Active} : Tally(p, S) = 0 /\ Tally(pc[t], S) = 0
    BY <2>1 DEF Tally, Active
  <2>2. /\ AtOutcome' = AtOutcome /\ AtTotal' = AtTotal /\ UnderWay' = UnderWay
        /\ pc' \in [Threads -> Points] /\ pc'[t] = p /\ \A u \in Threads : u # t => pc'[u] = pc[u]
    BY <1>1, <1>2, <2>t, <2>m
  <2> QED
    BY <1>1, <1>9, <2>1, <2>2 DEF MonitorTyped, Balanced
<1> HIDE DEF Inside
<1>10. ASSUME NEW t \in Threads, SnapStart(t) PROVE TearInv'
  <2>1. /\ pc[t] = "idle" /\ Loading = {} /\ pc' = [pc EXCEPT ![t] = "load total"]
        /\ overlap' = UnderWay /\ UNCHANGED <<total, success, failed>>
    BY <1>10, RecordingCount DEF SnapStart, Busy, Goto, counters, TearInv
  <2>i. Inside(t, "load total")
    BY <1>1, <2>1 DEF Inside, Loads
  <2>2. /\ MonitorTyped' /\ Balanced' /\ UnderWay' = UnderWay
        /\ pc'[t] = "load total" /\ \A u \in Threads : u # t => pc'[u] = pc[u]
    BY <1>9, <2>i
  <2>3. Loading' = {t}
    BY <2>1, <2>2 DEF Loading, Loads
  <2>6. UnderWay' <= overlap'
    <3>1. UnderWay' = UnderWay /\ overlap' = UnderWay
      BY <2>1, <2>2
    <3> QED
      BY <1>n, <3>1
  <2>4. Overlapping'
    BY <2>3, <2>6 DEF Overlapping
  <2>5. Torn'
    BY <2>1, <2>2 DEF Torn, Loading, Loads
  <2> QED
    BY <2>2, <2>4, <2>5 DEF TearInv
(* While one snapshot is under way there is no other.                      *)
<1>11. ASSUME NEW t, NEW p, Inside(t, p), pc[t] \in Loads, p # "idle" => overlap' = overlap
       PROVE  /\ MonitorTyped' /\ Balanced' /\ Overlapping'
              /\ AtOutcome' = AtOutcome /\ AtTotal' = AtTotal /\ UnderWay <= overlap
              /\ pc'[t] = p /\ \A u \in Threads : u # t => pc'[u] \notin Loads
  <2>1. t \in Loading /\ \A u \in Threads : u # t => pc[u] \notin Loads
    BY <1>1, <1>11 DEF Loading, Inside
  <2>2. /\ MonitorTyped' /\ Balanced' /\ UnderWay' = UnderWay
        /\ AtOutcome' = AtOutcome /\ AtTotal' = AtTotal
        /\ pc'[t] = p /\ \A u \in Threads : u # t => pc'[u] = pc[u]
    BY <1>9, <1>11
  <2>3. Loading' = IF p = "idle" THEN {} ELSE {t}
    BY <1>11, <2>1, <2>2 DEF Loading, Loads, Inside
  <2>5. UnderWay <= overlap /\ \A u, v \in Loading' : u = v
    BY <1>1, <2>1, <2>3
  <2>6. Loading' # {} => UnderWay' <= overlap'
    <3>1. CASE p = "idle"
      BY <2>3, <3>1
    <3>2. CASE p # "idle"
      BY <1>11, <2>2, <2>5, <3>2
    <3> QED
      BY <3>1, <3>2
  <2>4. Overlapping'
    BY <2>5, <2>6 DEF Overlapping
  <2> QED
    BY <2>1, <2>2, <2>4, <2>5
<1>12. ASSUME NEW t \in Threads, LoadTotal(t) PROVE TearInv'
  <2>1. /\ pc[t] \in Loads /\ pc' = [pc EXCEPT ![t] = "load success"] /\ snap' = <<total>>
        /\ UNCHANGED <<total, success, failed, overlap>>
    BY <1>12 DEF LoadTotal, Goto, counters, Loads
  <2>i. Inside(t, "load success")
    BY <1>1, <2>1 DEF Inside, Loads
  <2>2. /\ MonitorTyped' /\ Balanced' /\ Overlapping' /\ UnderWay <= overlap
        /\ AtOutcome' = AtOutcome /\ AtTotal' = AtTotal
        /\ pc'[t] = "load success" /\ \A u \in Threads : u # t => pc'[u] \notin Loads
    BY <1>11, <2>1, <2>i
  <2>3. snap'[1] = total
    BY <2>1
  <2>4. /\ 0 <= success + failed - total + overlap
        /\ success + failed - total + Pending <= overlap
    <3>1. AtOutcome <= overlap /\ AtTotal <= overlap
      <4>1. UnderWay <= overlap
        BY <2>2
      <4> QED
        BY <1>n, <4>1
    <3> QED
      BY <1>n, <3>1 DEF Pending
  <2>5. Torn'
    <3>1. /\ snap' = <<snap'[1]>> /\ snap'[1] \in Nat
          /\ 0 <= success' + failed' - snap'[1] + overlap'
          /\ success' + failed' - snap'[1] + Pending' <= overlap'
      BY <1>1, <2>1, <2>2, <2>3, <2>4 DEF Pending
    <3>2. \A u \in Threads : pc'[u] # "load failed" /\ (pc'[u] = "load success" => u = t)
      BY <2>2 DEF Loads
    <3> QED
      BY <3>1, <3>2 DEF Torn
  <2> QED
    BY <2>2, <2>5 DEF TearInv
<1>13. ASSUME NEW t \in Threads, LoadSuccess(t) PROVE TearInv'
  <2>1. /\ pc[t] = "load success" /\ pc' = [pc EXCEPT ![t] = "load failed"]
        /\ snap' = Append(snap, success) /\ UNCHANGED <<total, success, failed, overlap>>
    BY <1>13 DEF LoadSuccess, Goto, counters
  <2>i. Inside(t, "load failed") /\ pc[t] \in Loads
    BY <1>1, <2>1 DEF Inside, Loads
  <2>2. /\ MonitorTyped' /\ Balanced' /\ Overlapping'
        /\ AtOutcome' = AtOutcome /\ AtTotal' = AtTotal
        /\ pc'[t] = "load failed" /\ \A u \in Threads : u # t => pc'[u] \notin Loads
    BY <1>11, <2>1, <2>i
  <2>3. /\ snap = <<snap[1]>> /\ snap[1] \in Nat
        /\ 0 <= success + failed - snap[1] + overlap
        /\ success + failed - snap[1] + Pending <= overlap
    BY <2>1 DEF TearInv, Torn
  <2>4. snap'[1] = snap[1] /\ snap'[2] = success
    <3>1. ASSUME NEW x \in Nat, NEW y \in Nat PROVE Append(<<x>>, y)[1] = x /\ Append(<<x>>, y)[2] = y
      OBVIOUS
    <3>2. snap' = Append(<<snap[1]>>, success)
      BY <2>1, <2>3
    <3> QED
      BY <1>n, <2>3, <3>1, <3>2
  <2>5. Torn'
    <3>0. /\ success' = success /\ failed' = failed /\ overlap' = overlap /\ Pending' = Pending
          /\ snap'[1] = snap[1] /\ snap'[2] = success
      BY <2>1, <2>2, <2>4 DEF Pending
    <3>1. /\ snap'[1] \in Nat /\ snap'[2] \in Nat /\ snap'[2] <= success'
          /\ 0 <= snap'[2] + failed' - snap'[1] + overlap'
          /\ success' + failed' - snap'[1] + Pending' <= overlap'
      BY <1>n, <2>3, <3>0
    <3>2. \A u \in Threads : pc'[u] # "load success" /\ (pc'[u] = "load failed" => u = t)
      BY <2>2 DEF Loads
    <3> QED
      BY <3>1, <3>2 DEF Torn
  <2> QED
    BY <2>2, <2>5 DEF TearInv
<1>14. ASSUME NEW t \in Threads, LoadFailed(t) PROVE TearInv'
  <2>1. /\ pc[t] \in Loads /\ pc' = [pc EXCEPT ![t] = "idle"] /\ overlap' = 0
        /\ UNCHANGED <<total, success, failed>>
    BY <1>14 DEF LoadFailed, Goto, counters, Loads
  <2>i. Inside(t, "idle")
    BY <2>1 DEF Inside
  <2>2. /\ MonitorTyped' /\ Balanced' /\ Overlapping'
        /\ pc'[t] = "idle" /\ \A u \in Threads : u # t => pc'[u] \notin Loads
    BY <1>11, <2>1, <2>i
  <2>3. Torn'
    BY <2>2 DEF Torn, Loads
  <2> QED
    BY <2>2, <2>3 DEF TearInv
<1> QED
  BY <1>4, <1>5, <1>6, <1>7, <1>8, <1>10, <1>12, <1>13, <1>14, MonitorSteps

(* However the additions of record_query and the loads of snapshot are     *)
(* interleaved, successes and failures of a snapshot differ from its total *)
(* by at most the calls it overlapped.                                     *)
THEOREM SnapshotsTearLittle ==
  ASSUME IsFiniteSet(Threads)
  PROVE  Spec => SnapshotTear
<1>1. ASSUME TearInv, NEW t \in Threads, pc[t] = "load failed"
      PROVE  LET gap == snap[2] + failed - snap[1] IN -overlap <= gap /\ gap <= overlap
  <2>1. /\ snap[1] \in Nat /\ snap[2] \in Nat /\ snap[2] <= success
        /\ 0 <= snap[2] + failed - snap[1] + overlap
        /\ success + failed - snap[1] + Pending <= overlap
    BY <1>1 DEF TearInv, Torn
  <2>2. Pending \in Nat
    BY CountType DEF AtTotal, AtOutcome, Pending
  <2>3. success \in Nat /\ failed \in Nat /\ overlap \in Nat
    BY <1>1 DEF TearInv, MonitorTyped
  <2>4. -overlap <= snap[2] + failed - snap[1] /\ snap[2] + failed - snap[1] <= overlap
    BY <2>1, <2>2, <2>3
  <2> QED
    BY <2>4
<1>2. TearInv =>
        [\A t \in Threads : pc[t] = "load failed" /\ pc'[t] = "idle" =>
           LET gap == snap[2] + failed - snap[1] IN -overlap <= gap /\ gap <= overlap]_vars
  BY <1>1
<1>3. Init => TearInv
  BY InitTear
<1>4. TearInv /\ [Next]_vars => TearInv'
  BY StepTear
<1> QED
  BY <1>2, <1>3, <1>4, PTL DEF Spec, SnapshotTear

-----------------------------------------------------------------------------
(* What the counters add up to.                                            *)

Uncounted == {t \in Threads : pc[t] = "total"}
Unjudged  == {t \in Threads : pc[t] \in {"total", "outcome"}}
Winners   == {t \in Unjudged : call[t].ok}
Losers    == {t \in Unjudged : ~call[t].ok}
Untimed   == {t \in Threads : pc[t] \in {"total", "outcome", "time"}}
Unspent   == UNION {{t} \X (1..call[t].us) : t \in Untimed}
Good      == {q \in Queries : q[1].ok}
Bad       == {q \in Queries : ~q[1].ok}

(* A counter and what the threads under way will add to it make what was   *)
(* recorded.                                                               *)
Agree(n, pending, recorded) ==
  /\ IsFiniteSet(pending) /\ IsFiniteSet(recorded) /\ n + Cardinality(pending) = Cardinality(recorded)

MetricTyped ==
  /\ pc \in [Threads -> Points] /\ call \in [Threads -> [ok : BOOLEAN, us : Nat]]
  /\ calls \in [Kinds -> Nat]
  /\ total \in Nat /\ success \in Nat /\ failed \in Nat /\ time \in Nat

Sums == /\ Agree(total, Uncounted, Queries) /\ Agree(time, Unspent, Micros)
        /\ Agree(success, Winners, Good) /\ Agree(failed, Losers, Bad)

(* A thread in record_query that moves on.                                 *)
OnlyMoves(t, p) == pc' = [pc EXCEPT ![t] = p] /\ UNCHANGED <<call, calls>>
Spectating(t)   == /\ pc[t] \in {"idle"} \cup Loads /\ \E p \in {"idle"} \cup Loads : OnlyMoves(t, p)
                   /\ UNCHANGED <<counters, read>>

LEMMA MetricSteps ==
  ASSUME [Next]_vars
  PROVE  \/ UNCHANGED metrics
         \/ \E t \in Threads :
              \/ \E ok \in BOOLEAN, us \in Durations[t] : Record(t, ok, us)
              \/ AddTotal(t) \/ AddOutcome(t) \/ AddTime(t)
              \/ \E x \in Extremes : Load(t, x) \/ Swap(t, x)
              \/ Spectating(t)
<1>1. UNCHANGED mvars => UNCHANGED metrics
  BY DEF mvars
<1>2. Session \in Threads /\ TRUE \in BOOLEAN
  BY ShellAssumption
<1>3. ASSUME NEW t \in Threads, SnapStart(t) \/ LoadTotal(t) \/ LoadSuccess(t) \/ LoadFailed(t)
      PROVE  Spectating(t)
  BY <1>3 DEF SnapStart, LoadTotal, LoadSuccess, LoadFailed, Spectating, OnlyMoves, Goto, Loads, Busy
<1>4. CASE Line
  <2>1. Recorded => \E us \in Durations[Session] : Record(Session, TRUE, us)
    BY DEF Recorded
  <2>2. ShowMetrics => Spectating(Session)
    BY <1>2, <1>3 DEF ShowMetrics
  <2> QED
    BY <1>1, <1>2, <1>4, <2>1, <2>2 DEF Line, Select, Write, Begin, Commit, RollbackStatement, Exit, Use
<1>5. CASE Elsewhere
  BY <1>5 DEF Elsewhere
<1>6. CASE Counting
  BY <1>3, <1>6 DEF Counting, Step
<1> QED
  BY <1>1, <1>4, <1>5, <1>6 DEF Next, vars

LEMMA Grown ==
  ASSUME NEW S, NEW T, IsFiniteSet(S), IsFiniteSet(T), S \cap T = {}
  PROVE  /\ IsFiniteSet(S \cup T) /\ Cardinality(S \cup T) = Cardinality(S) + Cardinality(T)
         /\ Cardinality(S) \in Nat /\ Cardinality(T) \in Nat
<1>1. Cardinality(S) \in Nat /\ Cardinality(T) \in Nat
  BY FS_CardinalityType
<1>2. IsFiniteSet(S \cup T) /\ Cardinality(S \cup T) = Cardinality(S) + Cardinality(T) - Cardinality({})
  BY FS_Union
<1>3. Cardinality({}) = 0
  BY FS_EmptySet
<1> QED
  BY <1>1, <1>2, <1>3

(* One more is recorded and pending, or one that was pending is counted.   *)
LEMMA AgreeRecord ==
  ASSUME NEW n \in Nat, NEW P, NEW R, Agree(n, P, R), NEW D, NEW E,
         IsFiniteSet(D), IsFiniteSet(E), Cardinality(D) = Cardinality(E), P \cap D = {}, R \cap E = {}
  PROVE  Agree(n, P \cup D, R \cup E)
<1>1. IsFiniteSet(P) /\ IsFiniteSet(R) /\ n + Cardinality(P) = Cardinality(R)
  BY DEF Agree
<1>2. /\ IsFiniteSet(P \cup D) /\ Cardinality(P \cup D) = Cardinality(P) + Cardinality(D)
      /\ Cardinality(P) \in Nat /\ Cardinality(D) \in Nat
  BY <1>1, Grown
<1>3. /\ IsFiniteSet(R \cup E) /\ Cardinality(R \cup E) = Cardinality(R) + Cardinality(E)
      /\ Cardinality(R) \in Nat
  BY <1>1, Grown
<1> QED
  BY <1>1, <1>2, <1>3 DEF Agree

LEMMA AgreeCount ==
  ASSUME NEW n \in Nat, NEW P, NEW R, NEW D, Agree(n, P \cup D, R), P \cap D = {}
  PROVE  Agree(n + Cardinality(D), P, R)
<1>1. IsFiniteSet(P \cup D) /\ IsFiniteSet(R) /\ n + Cardinality(P \cup D) = Cardinality(R)
  BY DEF Agree
<1>2. P \in SUBSET (P \cup D) /\ D \in SUBSET (P \cup D)
  OBVIOUS
<1>3. IsFiniteSet(P) /\ IsFiniteSet(D)
  BY <1>1, <1>2, FS_Subset
<1>4. /\ Cardinality(P \cup D) = Cardinality(P) + Cardinality(D)
      /\ Cardinality(P) \in Nat /\ Cardinality(D) \in Nat
  BY <1>3, Grown
<1> QED
  BY <1>1, <1>3, <1>4 DEF Agree

(* One thing, and as many as a number says, each with the same first half. *)
LEMMA OneAndMany ==
  ASSUME NEW x, NEW n \in Nat
  PROVE  /\ IsFiniteSet({x}) /\ Cardinality({x}) = 1
         /\ IsFiniteSet({x} \X (1..n)) /\ Cardinality({x} \X (1..n)) = n
<1>1. IsFiniteSet({x}) /\ Cardinality({x}) = 1
  BY FS_Singleton
<1>2. IsFiniteSet(1..n) /\ Cardinality(1..n) = n
  BY FS_Interval
<1>3. IsFiniteSet({x} \X (1..n)) /\ Cardinality({x} \X (1..n)) = Cardinality({x}) * Cardinality(1..n)
  BY <1>1, <1>2, FS_Product
<1> QED
  BY <1>1, <1>2, <1>3

LEMMA InitSums == Init => MetricTyped /\ Sums
<1> SUFFICES ASSUME MonitorInit PROVE MetricTyped /\ Sums
  BY DEF Init
<1>1. MetricTyped
  BY DEF MonitorInit, MetricTyped, Points
<1>2. Queries = {}
  BY DEF MonitorInit, Queries
<1>3. Micros = {} /\ Good = {} /\ Bad = {}
  BY <1>2 DEF Micros, Good, Bad
<1>4. Uncounted = {} /\ Unjudged = {} /\ Untimed = {}
  BY DEF MonitorInit, Uncounted, Unjudged, Untimed
<1>5. Winners = {} /\ Losers = {} /\ Unspent = {}
  BY <1>4 DEF Winners, Losers, Unspent
<1>6. Agree(0, {}, {})
  BY FS_EmptySet DEF Agree
<1> QED
  BY <1>1, <1>2, <1>3, <1>4, <1>5, <1>6 DEF MonitorInit, Sums

(* A query recorded is numbered after those of its kind.                   *)
LEMMA NewQuery ==
  ASSUME NEW k \in Kinds, calls \in [Kinds -> Nat], calls' = [calls EXCEPT ![k] = @ + 1]
  PROVE  LET q == <<k, calls[k] + 1>> IN
         q[1] = k /\ q \notin Queries /\ Queries' = Queries \cup {q}
<1> DEFINE q == <<k, calls[k] + 1>>
<1>1. ASSUME NEW x PROVE x \in Queries <=> \E c \in Kinds : \E i \in 1..calls[c] : x = <<c, i>>
  BY DEF Queries
<1>2. ASSUME NEW x PROVE x \in Queries' <=> \E c \in Kinds : \E i \in 1..calls'[c] : x = <<c, i>>
  BY DEF Queries
<1>3. /\ calls'[k] = calls[k] + 1 /\ calls[k] \in Nat
      /\ \A c \in Kinds : c # k => calls'[c] = calls[c]
  OBVIOUS
<1>4. 1..calls'[k] = (1..calls[k]) \cup {calls[k] + 1} /\ calls[k] + 1 \notin 1..calls[k]
  BY <1>3
<1>5. q \notin Queries
  BY <1>1, <1>4
<1>6. ASSUME NEW x PROVE x \in Queries' <=> x \in Queries \/ x = q
  <2>1. x \in Queries' => x \in Queries \/ x = q
    BY <1>1, <1>2, <1>3, <1>4
  <2>2. x \in Queries => x \in Queries'
    BY <1>1, <1>2, <1>3, <1>4
  <2>3. q \in Queries'
    BY <1>2, <1>4
  <2> QED
    BY <2>1, <2>2, <2>3
<1> QED
  BY <1>5, <1>6

(* record_query is called: one more query, numbered after those of its     *)
(* kind, and all of it pending.                                            *)
LEMMA RecordSums ==
  ASSUME MetricTyped, Sums, NEW t \in Threads, NEW ok \in BOOLEAN, NEW us \in Durations[t], Record(t, ok, us)
  PROVE  MetricTyped' /\ Sums'
<1> DEFINE k == [ok |-> ok, us |-> us]
           q == <<k, calls[k] + 1>>
<1>1. /\ pc \in [Threads -> Points] /\ call \in [Threads -> [ok : BOOLEAN, us : Nat]]
      /\ calls \in [Kinds -> Nat]
      /\ total \in Nat /\ success \in Nat /\ failed \in Nat /\ time \in Nat
  BY DEF MetricTyped
<1>2. /\ pc[t] = "idle" /\ pc' = [pc EXCEPT ![t] = "total"] /\ call' = [call EXCEPT ![t] = k]
      /\ calls' = [calls EXCEPT ![k] = @ + 1]
      /\ UNCHANGED <<total, success, failed, time>>
  BY DEF Record, Busy, counters
<1>3. us \in Nat /\ us \in UNION {Durations[u] : u \in Threads}
  BY DurationsAssumption
<1>4. k \in Kinds /\ k \in [ok : BOOLEAN, us : Nat] /\ k.ok = ok /\ k.us = us
  BY <1>3 DEF Kinds
<1> HIDE DEF k
<1>5. MetricTyped'
  BY <1>1, <1>2, <1>4 DEF MetricTyped, Points, Active
<1>6. /\ calls'[k] = calls[k] + 1 /\ calls[k] \in Nat
      /\ \A c \in Kinds : c # k => calls'[c] = calls[c]
      /\ pc'[t] = "total" /\ call'[t] = k
      /\ \A u \in Threads : u # t => pc'[u] = pc[u] /\ call'[u] = call[u]
  BY <1>1, <1>2, <1>4
<1>7. q[1] = k /\ q \notin Queries /\ Queries' = Queries \cup {q}
  BY <1>1, <1>2, <1>4, NewQuery
<1> HIDE DEF q
<1>8. /\ Uncounted' = Uncounted \cup {t} /\ t \notin Uncounted
      /\ Unjudged' = Unjudged \cup {t} /\ t \notin Unjudged
      /\ Untimed' = Untimed \cup {t} /\ t \notin Untimed
  BY <1>2, <1>6 DEF Uncounted, Unjudged, Untimed
<1>s. IsFiniteSet({t}) /\ IsFiniteSet({q}) /\ Cardinality({t}) = Cardinality({q})
  BY FS_Singleton
<1>9. Agree(total', Uncounted', Queries')
  <2>2. Uncounted \cap {t} = {} /\ Queries \cap {q} = {}
    BY <1>7, <1>8
  <2>3. total \in Nat /\ Agree(total, Uncounted, Queries)
    BY <1>1 DEF Sums
  <2>1. Agree(total, Uncounted \cup {t}, Queries \cup {q})
    BY <1>s, <2>2, <2>3, AgreeRecord
  <2> QED
    BY <1>2, <1>7, <1>8, <2>1
<1>10. Agree(time', Unspent', Micros')
  <2>1. ASSUME NEW x PROVE x \in Unspent <=> \E u \in Untimed : \E i \in 1..call[u].us : x = <<u, i>>
    BY DEF Unspent
  <2>2. ASSUME NEW x PROVE x \in Unspent' <=> \E u \in Untimed' : \E i \in 1..call'[u].us : x = <<u, i>>
    BY DEF Unspent
  <2>3. ASSUME NEW x PROVE x \in Micros <=> \E c \in Queries : \E i \in 1..c[1].us : x = <<c, i>>
    BY DEF Micros
  <2>4. ASSUME NEW x PROVE x \in Micros' <=> \E c \in Queries' : \E i \in 1..c[1].us : x = <<c, i>>
    BY DEF Micros
  <2> DEFINE D == {t} \X (1..us)  E == {q} \X (1..us)
  <2>5. \A u \in Untimed : u \in Threads /\ u # t /\ call'[u] = call[u]
    BY <1>6, <1>8 DEF Untimed
  <2>6. Unspent' = Unspent \cup D /\ Unspent \cap D = {}
    BY <1>4, <1>6, <1>8, <2>1, <2>2, <2>5
  <2>7. Micros' = Micros \cup E /\ Micros \cap E = {}
    BY <1>4, <1>7, <2>3, <2>4
  <2>8. IsFiniteSet(D) /\ IsFiniteSet(E) /\ Cardinality(D) = Cardinality(E)
    <3>1. IsFiniteSet(D) /\ Cardinality(D) = us
      BY <1>3, OneAndMany
    <3>2. IsFiniteSet(E) /\ Cardinality(E) = us
      BY <1>3, OneAndMany
    <3> QED
      BY <3>1, <3>2
  <2> HIDE DEF D, E
  <2>9. Agree(time, Unspent \cup D, Micros \cup E)
    BY <1>1, <2>6, <2>7, <2>8, AgreeRecord DEF Sums
  <2> QED
    BY <1>2, <2>6, <2>7, <2>9
<1>12. Agree(success', Winners', Good') /\ Agree(failed', Losers', Bad')
  <2>1. \A u \in Unjudged : u # t /\ u \in Threads /\ call'[u] = call[u]
    BY <1>6, <1>8 DEF Unjudged
  <2>2. CASE ok
    <3>1. Winners' = Winners \cup {t} /\ Winners \cap {t} = {} /\ Losers' = Losers
      BY <1>4, <1>6, <1>8, <2>1, <2>2 DEF Winners, Losers
    <3>2. Good' = Good \cup {q} /\ Good \cap {q} = {} /\ Bad' = Bad
      BY <1>4, <1>7, <2>2 DEF Good, Bad
    <3>3. Agree(success, Winners \cup {t}, Good \cup {q})
      BY <1>1, <1>s, <3>1, <3>2, AgreeRecord DEF Sums
    <3> QED
      BY <1>2, <3>1, <3>2, <3>3 DEF Sums
  <2>3. CASE ~ok
    <3>1. Losers' = Losers \cup {t} /\ Losers \cap {t} = {} /\ Winners' = Winners
      BY <1>4, <1>6, <1>8, <2>1, <2>3 DEF Winners, Losers
    <3>2. Bad' = Bad \cup {q} /\ Bad \cap {q} = {} /\ Good' = Good
      BY <1>4, <1>7, <2>3 DEF Good, Bad
    <3>3. Agree(failed, Losers \cup {t}, Bad \cup {q})
      BY <1>1, <1>s, <3>1, <3>2, AgreeRecord DEF Sums
    <3> QED
      BY <1>2, <3>1, <3>2, <3>3 DEF Sums
  <2> QED
    BY <2>2, <2>3
<1> QED
  BY <1>5, <1>9, <1>10, <1>12 DEF Sums

(* The three additions: what was pending of a counter is in it.            *)
LEMMA AddTotalSums ==
  ASSUME MetricTyped, Sums, NEW t \in Threads, AddTotal(t)
  PROVE  MetricTyped' /\ Sums'
<1>1. /\ pc \in [Threads -> Points] /\ total \in Nat
      /\ pc[t] = "total" /\ total' = total + 1 /\ pc' = [pc EXCEPT ![t] = "outcome"]
      /\ UNCHANGED <<success, failed, time, call, calls>>
  BY DEF MetricTyped, AddTotal, Goto
<1>2. MetricTyped'
  BY <1>1 DEF MetricTyped, Points, Active
<1>3. /\ Uncounted = Uncounted' \cup {t} /\ Uncounted' \cap {t} = {}
      /\ Unjudged' = Unjudged /\ Untimed' = Untimed
  BY <1>1 DEF Uncounted, Unjudged, Untimed
<1>4. Queries' = Queries
  BY <1>1 DEF Queries
<1>5. Winners' = Winners /\ Losers' = Losers /\ Unspent' = Unspent /\ Micros' = Micros /\ Good' = Good /\ Bad' = Bad
  BY <1>1, <1>3, <1>4 DEF Winners, Losers, Unspent, Micros, Good, Bad
<1>6. Cardinality({t}) = 1
  BY FS_Singleton
<1>7. Agree(total + 1, Uncounted', Queries)
  <2>1. Agree(total, Uncounted' \cup {t}, Queries)
    BY <1>3 DEF Sums
  <2>2. Agree(total + Cardinality({t}), Uncounted', Queries)
    BY <1>1, <1>3, <2>1, AgreeCount
  <2> QED
    BY <1>6, <2>2
<1> QED
  BY <1>1, <1>2, <1>4, <1>5, <1>7 DEF Sums

LEMMA AddOutcomeSums ==
  ASSUME MetricTyped, Sums, NEW t \in Threads, AddOutcome(t)
  PROVE  MetricTyped' /\ Sums'
<1>1. /\ pc \in [Threads -> Points] /\ success \in Nat /\ failed \in Nat
      /\ pc[t] = "outcome" /\ pc' = [pc EXCEPT ![t] = "time"]
      /\ success' = (IF call[t].ok THEN success + 1 ELSE success)
      /\ failed' = (IF call[t].ok THEN failed ELSE failed + 1)
      /\ UNCHANGED <<total, time, call, calls>>
  BY DEF MetricTyped, AddOutcome, Goto, Succeeded
<1>2. MetricTyped'
  BY <1>1 DEF MetricTyped, Points, Active
<1>3. /\ Unjudged = Unjudged' \cup {t} /\ t \notin Unjudged'
      /\ Uncounted' = Uncounted /\ Untimed' = Untimed
  BY <1>1 DEF Uncounted, Unjudged, Untimed
<1>4. Queries' = Queries
  BY <1>1 DEF Queries
<1>5. Unspent' = Unspent /\ Micros' = Micros /\ Good' = Good /\ Bad' = Bad
  BY <1>1, <1>3, <1>4 DEF Unspent, Micros, Good, Bad
<1>6. Cardinality({t}) = 1
  BY FS_Singleton
<1>7. Agree(success', Winners', Good) /\ Agree(failed', Losers', Bad)
  <2>1. CASE call[t].ok
    <3>1. Winners = Winners' \cup {t} /\ Winners' \cap {t} = {} /\ Losers' = Losers
      BY <1>1, <1>3, <2>1 DEF Winners, Losers
    <3>2. Agree(success, Winners' \cup {t}, Good) /\ Agree(failed, Losers, Bad)
      BY <3>1 DEF Sums
    <3>3. Agree(success + Cardinality({t}), Winners', Good)
      BY <1>1, <3>1, <3>2, AgreeCount
    <3>4. success' = success + Cardinality({t}) /\ failed' = failed
      BY <1>1, <1>6, <2>1
    <3> QED
      BY <3>1, <3>2, <3>3, <3>4
  <2>2. CASE ~call[t].ok
    <3>1. Losers = Losers' \cup {t} /\ Losers' \cap {t} = {} /\ Winners' = Winners
      BY <1>1, <1>3, <2>2 DEF Winners, Losers
    <3>2. Agree(failed, Losers' \cup {t}, Bad) /\ Agree(success, Winners, Good)
      BY <3>1 DEF Sums
    <3>3. Agree(failed + Cardinality({t}), Losers', Bad)
      BY <1>1, <3>1, <3>2, AgreeCount
    <3>4. failed' = failed + Cardinality({t}) /\ success' = success
      BY <1>1, <1>6, <2>2
    <3> QED
      BY <3>1, <3>2, <3>3, <3>4
  <2> QED
    BY <2>1, <2>2
<1> QED
  BY <1>1, <1>2, <1>3, <1>4, <1>5, <1>7 DEF Sums

LEMMA AddTimeSums ==
  ASSUME MetricTyped, Sums, NEW t \in Threads, AddTime(t)
  PROVE  MetricTyped' /\ Sums'
<1>1. /\ pc \in [Threads -> Points] /\ time \in Nat /\ call[t].us \in Nat
      /\ pc[t] = "time" /\ pc' = [pc EXCEPT ![t] = "fast"] /\ time' = time + call[t].us
      /\ UNCHANGED <<total, success, failed, call, calls>>
  BY DEF MetricTyped, AddTime, Goto
<1>2. MetricTyped'
  BY <1>1 DEF MetricTyped, Points, Active
<1>3. /\ Untimed = Untimed' \cup {t} /\ t \notin Untimed'
      /\ Uncounted' = Uncounted /\ Unjudged' = Unjudged
  BY <1>1 DEF Uncounted, Unjudged, Untimed
<1>4. Queries' = Queries
  BY <1>1 DEF Queries
<1>5. Winners' = Winners /\ Losers' = Losers /\ Micros' = Micros /\ Good' = Good /\ Bad' = Bad
  BY <1>1, <1>3, <1>4 DEF Winners, Losers, Micros, Good, Bad
<1>6. Agree(time', Unspent', Micros)
  <2> DEFINE D == {t} \X (1..call[t].us)
  <2>1. ASSUME NEW x PROVE x \in Unspent <=> \E u \in Untimed : \E i \in 1..call[u].us : x = <<u, i>>
    BY DEF Unspent
  <2>2. ASSUME NEW x PROVE x \in Unspent' <=> \E u \in Untimed' : \E i \in 1..call[u].us : x = <<u, i>>
    BY <1>1 DEF Unspent
  <2>3. Unspent = Unspent' \cup D /\ Unspent' \cap D = {}
    BY <1>3, <2>1, <2>2
  <2>4. Cardinality(D) = call[t].us
    BY <1>1, OneAndMany
  <2> HIDE DEF D
  <2>5. Agree(time, Unspent' \cup D, Micros)
    BY <2>3 DEF Sums
  <2>6. Agree(time + Cardinality(D), Unspent', Micros)
    BY <1>1, <2>3, <2>5, AgreeCount
  <2> QED
    BY <1>1, <2>4, <2>6
<1> QED
  BY <1>1, <1>2, <1>3, <1>4, <1>5, <1>6 DEF Sums

(* No other step adds anything, or changes what is pending.                *)
LEMMA QuietSums ==
  ASSUME MetricTyped, Sums, UNCHANGED <<total, success, failed, time, call, calls>>,
         \/ UNCHANGED pc
         \/ \E t \in Threads : \E p \in Points \ {"total", "outcome", "time"} :
              pc[t] \notin {"total", "outcome", "time"} /\ pc' = [pc EXCEPT ![t] = p]
  PROVE  MetricTyped' /\ Sums'
<1>1. pc \in [Threads -> Points]
  BY DEF MetricTyped
<1>2. /\ pc' \in [Threads -> Points]
      /\ \A u \in Threads : \A p \in {"total", "outcome", "time"} : pc'[u] = p <=> pc[u] = p
  BY <1>1
<1>3. MetricTyped'
  BY <1>2 DEF MetricTyped
<1>4. Uncounted' = Uncounted /\ Unjudged' = Unjudged /\ Untimed' = Untimed
  BY <1>2 DEF Uncounted, Unjudged, Untimed
<1>5. Queries' = Queries
  BY DEF Queries
<1>6. Winners' = Winners /\ Losers' = Losers /\ Unspent' = Unspent /\ Micros' = Micros /\ Good' = Good /\ Bad' = Bad
  BY <1>4, <1>5 DEF Winners, Losers, Unspent, Micros, Good, Bad
<1> QED
  BY <1>3, <1>4, <1>5, <1>6 DEF Sums

LEMMA StepSums == MetricTyped /\ Sums /\ [Next]_vars => MetricTyped' /\ Sums'
<1> SUFFICES ASSUME MetricTyped, Sums, [Next]_vars PROVE MetricTyped' /\ Sums'
  OBVIOUS
<1>1. CASE UNCHANGED metrics
  BY <1>1, QuietSums DEF metrics, counters
<1>2. ASSUME NEW t \in Threads, Spectating(t) PROVE MetricTyped' /\ Sums'
  <2>1. PICK p \in {"idle"} \cup Loads : OnlyMoves(t, p)
    BY <1>2 DEF Spectating
  <2>2. p \in Points \ {"total", "outcome", "time"} /\ pc[t] \notin {"total", "outcome", "time"}
    BY <1>2 DEF Spectating, Points, Loads
  <2> QED
    BY <1>2, <2>1, <2>2, QuietSums DEF Spectating, OnlyMoves, counters
<1>3. ASSUME NEW t \in Threads, NEW x \in Extremes, Load(t, x) \/ Swap(t, x) PROVE MetricTyped' /\ Sums'
  <2>1. /\ UNCHANGED pc \/ pc' = [pc EXCEPT ![t] = After(x)]
        /\ pc[t] = x /\ UNCHANGED <<total, success, failed, time, call, calls>>
    BY <1>3 DEF Load, Swap, Goto, counters
  <2>2. After(x) \in Points \ {"total", "outcome", "time"} /\ x \notin {"total", "outcome", "time"}
    BY DEF After, Points, Active, Extremes
  <2> QED
    BY <2>1, <2>2, QuietSums
<1> QED
  BY <1>1, <1>2, <1>3, MetricSteps, RecordSums, AddTotalSums, AddOutcomeSums, AddTimeSums

-----------------------------------------------------------------------------
(* The extremes.                                                           *)

Took == {q[1].us : q \in Queries}

(* A thread has a value in hand only inside a loop, and would improve on it*)
InHand ==
  /\ extreme \in [Extremes -> Nat] /\ read \in [Threads -> Int]
  /\ \A t \in Threads : /\ pc[t] \in Active => call[t].us \in Took
                        /\ pc[t] \notin Extremes => read[t] = -1
                        /\ \A x \in Extremes :
                             pc[t] = x /\ read[t] # -1 => Improves(x, call[t].us, read[t])

(* Who is slower than the slowest, or faster than the fastest, has its loop*)
(* still to finish.                                                        *)
SlowRight ==
  /\ extreme["slow"] = 0 \/ extreme["slow"] \in Took
  /\ \A u \in Took : u <= extreme["slow"] \/ \E t \in Threads : pc[t] \in Active /\ call[t].us = u
FastRight ==
  0 \notin Took =>
    /\ extreme["fast"] = 0 \/ extreme["fast"] \in Took
    /\ \A u \in Took : \/ extreme["fast"] # 0 /\ extreme["fast"] <= u
                       \/ \E t \in Threads : pc[t] \in Active \ {"slow"} /\ call[t].us = u

ExtremeInv == InHand /\ SlowRight /\ FastRight

LEMMA InitExtremes == Init => ExtremeInv
<1> SUFFICES ASSUME MonitorInit PROVE ExtremeInv
  BY DEF Init
<1>1. Queries = {}
  BY DEF MonitorInit, Queries
<1>2. Took = {}
  BY <1>1 DEF Took
<1>3. InHand
  BY DEF MonitorInit, InHand, Active
<1> QED
  BY <1>2, <1>3 DEF ExtremeInv, SlowRight, FastRight, MonitorInit, Extremes

(* A step that records nothing new and leaves the extremes keeps them right*)
(* if the thread that moves is not done with them, or agrees with them.    *)
LEMMA MoveExtremes ==
  ASSUME MetricTyped, ExtremeInv, UNCHANGED <<call, calls, extreme>>, NEW t \in Threads, NEW p \in Points,
         pc' = [pc EXCEPT ![t] = p], pc[t] \in Active <=> p \in Active \/ pc[t] = "slow", InHand',
         pc[t] = "slow" /\ p # "slow" => call[t].us <= extreme["slow"],
         pc[t] = "fast" /\ p # "fast" => extreme["fast"] # 0 /\ extreme["fast"] <= call[t].us,
         pc[t] \in {"total", "outcome", "time"} => p # "slow"
  PROVE  ExtremeInv'
<1>1. Queries' = Queries
  BY DEF Queries
<1>2. Took' = Took
  BY <1>1 DEF Took
<1>3. /\ pc \in [Threads -> Points] /\ pc'[t] = p /\ \A u \in Threads : u # t => pc'[u] = pc[u]
  BY DEF MetricTyped
<1>4. SlowRight'
  BY <1>2, <1>3 DEF ExtremeInv, SlowRight, Active
<1>5. FastRight'
  BY <1>2, <1>3 DEF ExtremeInv, FastRight, Active
<1> QED
  BY <1>4, <1>5 DEF ExtremeInv

LEMMA RecordExtremes ==
  ASSUME MetricTyped, ExtremeInv, NEW t \in Threads, NEW ok \in BOOLEAN, NEW us \in Durations[t], Record(t, ok, us)
  PROVE  ExtremeInv'
<1> DEFINE k == [ok |-> ok, us |-> us]
<1>1. /\ pc \in [Threads -> Points] /\ call \in [Threads -> [ok : BOOLEAN, us : Nat]]
      /\ calls \in [Kinds -> Nat]
  BY DEF MetricTyped
<1>2. /\ pc[t] = "idle" /\ pc' = [pc EXCEPT ![t] = "total"] /\ call' = [call EXCEPT ![t] = k]
      /\ calls' = [calls EXCEPT ![k] = @ + 1] /\ UNCHANGED <<extreme, read>>
  BY DEF Record, Busy, counters
<1>3. us \in Nat /\ us \in UNION {Durations[u] : u \in Threads}
  BY DurationsAssumption
<1>4. k \in Kinds /\ k.us = us
  BY <1>3 DEF Kinds
<1> HIDE DEF k
<1>5. PICK q : q[1] = k /\ Queries' = Queries \cup {q}
  BY <1>1, <1>2, <1>4, NewQuery
<1>6. Took' = Took \cup {us}
  BY <1>4, <1>5 DEF Took
<1>7. /\ pc'[t] = "total" /\ call'[t].us = us
      /\ \A u \in Threads : u # t => pc'[u] = pc[u] /\ call'[u] = call[u]
  BY <1>1, <1>2, <1>4
<1>8. InHand'
  BY <1>2, <1>6, <1>7 DEF ExtremeInv, InHand, Active, Extremes
<1>9. SlowRight'
  BY <1>2, <1>6, <1>7 DEF ExtremeInv, SlowRight, Active
<1>10. FastRight'
  BY <1>2, <1>6, <1>7 DEF ExtremeInv, FastRight, Active
<1> QED
  BY <1>8, <1>9, <1>10 DEF ExtremeInv

(* A load that finds nothing to improve ends the loop.                     *)
LEMMA LoadExtremes ==
  ASSUME MetricTyped, ExtremeInv, NEW t \in Threads, NEW x \in Extremes, Load(t, x)
  PROVE  ExtremeInv'
<1>1. /\ pc \in [Threads -> Points] /\ pc[t] = x /\ read[t] = -1 /\ UNCHANGED <<call, calls, extreme>>
      /\ read \in [Threads -> Int] /\ extreme \in [Extremes -> Nat] /\ call[t].us \in Nat
  BY DEF MetricTyped, ExtremeInv, InHand, Load, counters
<1>2. Queries' = Queries
  BY <1>1 DEF Queries
<1>3. Took' = Took
  BY <1>2 DEF Took
<1>4. CASE Improves(x, call[t].us, extreme[x])
  <2>1. read' = [read EXCEPT ![t] = extreme[x]] /\ pc' = pc
    BY <1>4 DEF Load
  <2>2. InHand'
    BY <1>1, <1>3, <1>4, <2>1 DEF ExtremeInv, InHand, Improves
  <2> QED
    BY <1>1, <1>3, <2>1, <2>2 DEF ExtremeInv, SlowRight, FastRight
<1>5. CASE ~Improves(x, call[t].us, extreme[x])
  <2>1. read' = read /\ pc' = [pc EXCEPT ![t] = After(x)]
    BY <1>5 DEF Load, Goto
  <2>2. After(x) \in Points /\ After(x) # x /\ ((x = "fast" /\ After(x) = "slow") \/ (x = "slow" /\ After(x) = "idle"))
    BY DEF After, Points, Active, Extremes
  <2>3. InHand'
    BY <1>1, <1>3, <2>1, <2>2 DEF ExtremeInv, InHand, Active, Extremes
  <2>4. /\ x = "slow" => call[t].us <= extreme["slow"]
        /\ x = "fast" => extreme["fast"] # 0 /\ extreme["fast"] <= call[t].us
    BY <1>1, <1>5 DEF Improves
  <2> QED
    BY <1>1, <2>1, <2>2, <2>3, <2>4, MoveExtremes DEF Active
<1> QED
  BY <1>4, <1>5

(* A swap that finds the value it read improves on it for everybody.       *)
LEMMA SwapExtremes ==
  ASSUME MetricTyped, ExtremeInv, NEW t \in Threads, NEW x \in Extremes, Swap(t, x)
  PROVE  ExtremeInv'
<1>1. /\ pc \in [Threads -> Points] /\ pc[t] = x /\ read[t] # -1 /\ UNCHANGED <<call, calls>>
      /\ read' = [read EXCEPT ![t] = -1]
      /\ read \in [Threads -> Int] /\ extreme \in [Extremes -> Nat] /\ call[t].us \in Nat
      /\ Improves(x, call[t].us, read[t]) /\ call[t].us \in Took /\ x \in Active
  BY DEF MetricTyped, ExtremeInv, InHand, Swap, Extremes, Active
<1>2. Queries' = Queries
  BY <1>1 DEF Queries
<1>3. Took' = Took /\ Took \subseteq Nat
  <2>1. \A q \in Queries : q[1].us \in Nat
    BY DurationsAssumption DEF Queries, Kinds
  <2> QED
    BY <1>2, <2>1 DEF Took
<1>4. CASE ~(extreme[x] = read[t])
  <2>1. extreme' = extreme /\ pc' = pc
    BY <1>4 DEF Swap, UnchangedSince
  <2>2. InHand'
    BY <1>1, <1>3, <2>1 DEF ExtremeInv, InHand
  <2> QED
    BY <1>1, <1>3, <2>1, <2>2 DEF ExtremeInv, SlowRight, FastRight
<1>5. CASE extreme[x] = read[t]
  <2>1. extreme' = [extreme EXCEPT ![x] = call[t].us] /\ pc' = [pc EXCEPT ![t] = After(x)]
    BY <1>5 DEF Swap, Goto, UnchangedSince
  <2>2. After(x) \in Points /\ After(x) # x /\ ((x = "fast" /\ After(x) = "slow") \/ (x = "slow" /\ After(x) = "idle"))
    BY DEF After, Points, Active, Extremes
  <2>3. /\ pc'[t] = After(x) /\ \A u \in Threads : u # t => pc'[u] = pc[u] /\ read'[u] = read[u]
        /\ extreme'[x] = call[t].us /\ \A y \in Extremes : y # x => extreme'[y] = extreme[y]
        /\ read'[t] = -1 /\ read' \in [Threads -> Int] /\ extreme' \in [Extremes -> Nat]
    BY <1>1, <2>1
  <2>4. InHand'
    BY <1>1, <1>3, <2>2, <2>3 DEF ExtremeInv, InHand, Active, Extremes
  <2>5. CASE x = "slow"
    <3>1. extreme["slow"] < call[t].us /\ extreme'["slow"] = call[t].us /\ extreme["slow"] \in Nat
      BY <1>1, <1>5, <2>3, <2>5 DEF Improves, Extremes
    <3>2. extreme'["fast"] = extreme["fast"] /\ pc[t] = "slow" /\ pc'[t] = "idle"
      BY <1>1, <2>2, <2>3, <2>5 DEF Extremes
    <3>3. SlowRight'
      BY <1>1, <1>3, <2>3, <3>1, <3>2 DEF ExtremeInv, SlowRight
    <3>4. FastRight'
      BY <1>1, <1>3, <2>3, <3>2 DEF ExtremeInv, FastRight
    <3> QED
      BY <2>4, <3>3, <3>4 DEF ExtremeInv
  <2>6. CASE x = "fast"
    <3>1. /\ extreme["fast"] = 0 \/ call[t].us < extreme["fast"]
          /\ extreme'["fast"] = call[t].us /\ extreme["fast"] \in Nat
      BY <1>1, <1>5, <2>3, <2>6 DEF Improves, Extremes
    <3>2. extreme'["slow"] = extreme["slow"] /\ pc[t] = "fast" /\ pc'[t] = "slow"
      BY <1>1, <2>2, <2>3, <2>6 DEF Extremes
    <3>3. SlowRight'
      BY <1>1, <1>3, <2>3, <3>2 DEF ExtremeInv, SlowRight, Active
    <3>4. FastRight'
      <4> SUFFICES ASSUME 0 \notin Took
                   PROVE  \A u \in Took : \/ call[t].us # 0 /\ call[t].us <= u
                                         \/ \E v \in Threads : pc'[v] \in Active \ {"slow"} /\ call[v].us = u
        BY <1>1, <1>3, <3>1 DEF FastRight
      <4>1. call[t].us # 0
        BY <1>1
      <4> TAKE u \in Took
      <4>2. CASE extreme["fast"] # 0 /\ extreme["fast"] <= u
        <5>1. u \in Nat
          BY <1>3
        <5> QED
          BY <1>1, <3>1, <4>1, <4>2, <5>1
      <4>3. ASSUME NEW v \in Threads, pc[v] \in Active \ {"slow"}, call[v].us = u
            PROVE  \/ call[t].us # 0 /\ call[t].us <= u
                   \/ \E w \in Threads : pc'[w] \in Active \ {"slow"} /\ call[w].us = u
        <5>1. CASE v = t
          BY <1>1, <4>1, <4>3, <5>1
        <5>2. CASE v # t
          BY <2>3, <4>3, <5>2
        <5> QED
          BY <5>1, <5>2
      <4> QED
        BY <4>2, <4>3 DEF ExtremeInv, FastRight
    <3> QED
      BY <2>4, <3>3, <3>4 DEF ExtremeInv
  <2> QED
    BY <2>5, <2>6 DEF Extremes
<1> QED
  BY <1>4, <1>5

LEMMA StepExtremes == MetricTyped /\ ExtremeInv /\ [Next]_vars => ExtremeInv'
<1> SUFFICES ASSUME MetricTyped, ExtremeInv, [Next]_vars PROVE ExtremeInv'
  OBVIOUS
<1>1. CASE UNCHANGED metrics
  <2>1. Queries' = Queries /\ UNCHANGED <<extreme, read, pc, call>>
    BY <1>1 DEF metrics, counters, Queries
  <2>2. Took' = Took
    BY <2>1 DEF Took
  <2> QED
    BY <2>1, <2>2 DEF ExtremeInv, InHand, SlowRight, FastRight
(* The steps that leave the extremes and what is read of them.             *)
<1>2. ASSUME NEW t \in Threads, NEW p \in Points, UNCHANGED <<call, calls, extreme, read>>,
             pc' = [pc EXCEPT ![t] = p], pc[t] \notin Extremes, pc[t] \in Active <=> p \in Active, p # "slow"
      PROVE  ExtremeInv'
  <2>1. pc \in [Threads -> Points] /\ pc'[t] = p /\ \A u \in Threads : u # t => pc'[u] = pc[u]
    BY <1>2 DEF MetricTyped
  <2>2. Queries' = Queries
    BY <1>2 DEF Queries
  <2>3. Took' = Took
    BY <2>2 DEF Took
  <2>4. InHand'
    BY <1>2, <2>1, <2>3 DEF ExtremeInv, InHand
  <2> QED
    BY <1>2, <2>4, MoveExtremes DEF Extremes
<1>3. ASSUME NEW t \in Threads, AddTotal(t) \/ AddOutcome(t) \/ AddTime(t) PROVE ExtremeInv'
  <2>1. PICK p \in {"outcome", "time", "fast"} : pc' = [pc EXCEPT ![t] = p]
    BY <1>3 DEF AddTotal, AddOutcome, AddTime, Goto
  <2>2. pc[t] \in {"total", "outcome", "time"} /\ UNCHANGED <<call, calls, extreme, read>>
    BY <1>3 DEF AddTotal, AddOutcome, AddTime
  <2> QED
    BY <1>2, <2>1, <2>2 DEF Points, Active, Extremes
<1>4. ASSUME NEW t \in Threads, Spectating(t) PROVE ExtremeInv'
  <2>1. PICK p \in {"idle"} \cup Loads : OnlyMoves(t, p)
    BY <1>4 DEF Spectating
  <2>2. pc[t] \in {"idle"} \cup Loads /\ UNCHANGED <<call, calls, extreme, read>> /\ pc' = [pc EXCEPT ![t] = p]
    BY <1>4, <2>1 DEF Spectating, OnlyMoves, counters
  <2> QED
    BY <1>2, <2>1, <2>2 DEF Points, Active, Extremes, Loads
<1> QED
  BY <1>1, <1>3, <1>4, MetricSteps, RecordExtremes, LoadExtremes, SwapExtremes

(* Between calls the counters are what the queries recorded make them and  *)
(* the extremes are theirs, whichever threads record what at once - unless *)
(* a query took no microsecond (record_query, update_extremes).            *)
THEOREM CountersAgree == Spec => []MetricsAgree
<1>1. ASSUME MetricTyped, Sums, ExtremeInv, Recording = {} PROVE MetricsAgree
  <2>1. \A t \in Threads : pc[t] \notin Active
    BY <1>1 DEF Recording, Busy, Loads, Active
  <2>2. Uncounted = {} /\ Unjudged = {} /\ Untimed = {}
    BY <2>1 DEF Uncounted, Unjudged, Untimed, Active
  <2>3. Winners = {} /\ Losers = {} /\ Unspent = {}
    BY <2>2 DEF Winners, Losers, Unspent
  <2>4. /\ total = Cardinality(Queries) /\ time = Cardinality(Micros)
        /\ success = Cardinality(Good) /\ failed = Cardinality(Bad)
    <3>1. ASSUME NEW n \in Nat, NEW R, Agree(n, {}, R) PROVE n = Cardinality(R)
      BY <3>1, FS_EmptySet DEF Agree
    <3> QED
      BY <1>1, <2>2, <2>3, <3>1 DEF Sums, MetricTyped
  <2>5. Took \subseteq Nat /\ extreme["slow"] \in Nat /\ extreme["fast"] \in Nat
    <3>1. \A q \in Queries : q[1].us \in Nat
      BY DurationsAssumption DEF Queries, Kinds
    <3> QED
      BY <1>1, <3>1 DEF Took, ExtremeInv, InHand, Extremes
  <2>6. ASSUME Took # {} PROVE extreme["slow"] = Max(Took)
    <3>1. \A u \in Took : u <= extreme["slow"]
      BY <1>1, <2>1 DEF ExtremeInv, SlowRight
    <3>2. extreme["slow"] \in Took
      <4>1. PICK u \in Took : u <= extreme["slow"]
        BY <2>6, <3>1
      <4>2. extreme["slow"] = 0 => u = extreme["slow"]
        BY <2>5, <4>1
      <4>3. extreme["slow"] = 0 \/ extreme["slow"] \in Took
        BY <1>1 DEF ExtremeInv, SlowRight
      <4> QED
        BY <4>1, <4>2, <4>3
    <3> DEFINE m == Max(Took)
    <3>3. m \in Took /\ \A u \in Took : m >= u
      BY <2>5, <3>1, <3>2 DEF Max
    <3> HIDE DEF m
    <3>4. extreme["slow"] = m
      BY <2>5, <3>1, <3>2, <3>3
    <3> QED
      BY <3>4 DEF m
  <2>7. ASSUME Took # {}, 0 \notin Took PROVE extreme["fast"] = Min(Took)
    <3>1. \A u \in Took : extreme["fast"] # 0 /\ extreme["fast"] <= u
      BY <1>1, <2>1, <2>7 DEF ExtremeInv, FastRight
    <3>2. extreme["fast"] \in Took
      BY <1>1, <2>7, <3>1 DEF ExtremeInv, FastRight
    <3> DEFINE m == Min(Took)
    <3>3. m \in Took /\ \A u \in Took : m <= u
      BY <2>5, <3>1, <3>2 DEF Min
    <3> HIDE DEF m
    <3>4. extreme["fast"] = m
      BY <2>5, <3>1, <3>2, <3>3
    <3> QED
      BY <3>4 DEF m
  <2> QED
    BY <2>4, <2>6, <2>7 DEF MetricsAgree, Good, Bad, Took
<1>2. MetricTyped /\ Sums /\ ExtremeInv => MetricsAgree
  BY <1>1 DEF MetricsAgree
<1> QED
  BY <1>2, InitSums, InitExtremes, StepSums, StepExtremes, PTL DEF Spec
=============================================================================
