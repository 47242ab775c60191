------------------------------ MODULE Monitor ------------------------------
(***************************************************************************)
(* The query counters of Metrics (src/src/monitor.rs): threads record      *)
(* queries and take snapshots, each a sequence of operations on single     *)
(* atomics, in the order of the code.  The counters left out (statements,  *)
(* connections, rows, events) are single additions like these; the         *)
(* histogram and the event bus are not used by the program.                *)
(***************************************************************************)
EXTENDS Integers, Sequences, FiniteSetsExt

CONSTANTS
  Threads,    \* threads that record queries
  Durations,  \* thread -> microseconds its queries may take
  MaxCalls    \* bound: calls of record_query

ASSUME DurationsAssumption == \A t \in Threads : Durations[t] \subseteq Nat
ASSUME MaxCallsAssumption == MaxCalls \in Nat

VARIABLES
  total, success, failed, time, extreme,  \* the counters; extreme["fast"], extreme["slow"]
  call,       \* thread -> the query it records
  pc,         \* thread -> what record_query or snapshot does next, or "idle"
  read,       \* thread -> what its loop loaded, or -1
  calls,      \* history: success and duration -> how many such queries were recorded
  snap,       \* <<total, success>> as far as a snapshot under way has loaded them
  overlap     \* history: how many calls it overlaps

counters == <<total, success, failed, time, extreme>>
metrics == <<counters, call, pc, read, calls>>
mvars == <<metrics, snap, overlap>>

Extremes == {"fast", "slow"}
Busy(t) == pc[t] # "idle"
Loads == {"load total", "load success", "load failed"}
Recording == {t \in Threads : Busy(t) /\ pc[t] \notin Loads}
Loading == {t \in Threads : pc[t] \in Loads}

Kinds == [ok : BOOLEAN, us : UNION {Durations[t] : t \in Threads}]

MonitorInit ==
  /\ total = 0 /\ success = 0 /\ failed = 0 /\ time = 0 /\ extreme = [x \in Extremes |-> 0]
  /\ call = [t \in Threads |-> [ok |-> TRUE, us |-> 0]] /\ pc = [t \in Threads |-> "idle"]
  /\ read = [t \in Threads |-> -1]
  /\ calls = [k \in Kinds |-> 0] /\ snap = <<>> /\ overlap = 0

(* The queries recorded, each by its kind and its number among those of it,*)
(* and the microseconds they took.                                         *)
Queries == UNION {{k} \X (1..calls[k]) : k \in Kinds}
Micros  == UNION {{q} \X (1..q[1].us) : q \in Queries}

(* A thread calls record_query.                                            *)
Record(t, ok, us) ==
  /\ ~Busy(t) /\ Cardinality(Queries) < MaxCalls
  /\ call' = [call EXCEPT ![t] = [ok |-> ok, us |-> us]]
  /\ pc' = [pc EXCEPT ![t] = "total"]
  /\ calls' = [calls EXCEPT ![[ok |-> ok, us |-> us]] = @ + 1]
  /\ overlap' = IF Loading = {} THEN overlap ELSE overlap + 1
  /\ UNCHANGED <<counters, read, snap>>

Goto(t, step) == pc' = [pc EXCEPT ![t] = step]

AddTotal(t) == /\ pc[t] = "total" /\ total' = total + 1 /\ Goto(t, "outcome")
               /\ UNCHANGED <<success, failed, time, extreme, call, read, calls, snap, overlap>>

(* Variant: what fails is also counted as a success.                       *)
SucceededAlways(c) == TRUE
Succeeded(c) == c.ok
AddOutcome(t) == /\ pc[t] = "outcome" /\ Goto(t, "time")
                 /\ success' = IF Succeeded(call[t]) THEN success + 1 ELSE success
                 /\ failed' = IF call[t].ok THEN failed ELSE failed + 1
                 /\ UNCHANGED <<total, time, extreme, call, read, calls, snap, overlap>>
AddTime(t) == /\ pc[t] = "time" /\ time' = time + call[t].us /\ Goto(t, "fast")
              /\ UNCHANGED <<total, success, failed, extreme, call, read, calls, snap, overlap>>

(* update_extremes: each loop loads, and swaps if the value is still there.*)
(* Zero is the fastest time that was never set.                            *)
Improves(x, us, cur) == IF x = "fast" THEN cur = 0 \/ us < cur ELSE us > cur
After(x) == IF x = "fast" THEN "slow" ELSE "idle"

Load(t, x) ==
  /\ pc[t] = x /\ read[t] = -1
  /\ IF Improves(x, call[t].us, extreme[x])
     THEN read' = [read EXCEPT ![t] = extreme[x]] /\ UNCHANGED pc
     ELSE UNCHANGED read /\ Goto(t, After(x))
  /\ UNCHANGED <<counters, call, calls, snap, overlap>>

(* Variant: the swap does not compare.                                     *)
UnchangedBlind(t, x) == TRUE
UnchangedSince(t, x) == extreme[x] = read[t]
Swap(t, x) ==
  /\ pc[t] = x /\ read[t] # -1 /\ read' = [read EXCEPT ![t] = -1]
  /\ IF UnchangedSince(t, x) THEN extreme' = [extreme EXCEPT ![x] = call[t].us] /\ Goto(t, After(x))
     ELSE UNCHANGED <<extreme, pc>>
  /\ UNCHANGED <<total, success, failed, time, call, calls, snap, overlap>>

(* snapshot: one load after another, by one thread at a time here.         *)
SnapStart(t) ==
  /\ ~Busy(t) /\ Loading = {} /\ Goto(t, "load total") /\ overlap' = Cardinality(Recording)
  /\ UNCHANGED <<counters, call, read, calls, snap>>
LoadTotal(t) == /\ pc[t] = "load total" /\ snap' = <<total>> /\ Goto(t, "load success")
                /\ UNCHANGED <<counters, call, read, calls, overlap>>
LoadSuccess(t) == /\ pc[t] = "load success" /\ snap' = Append(snap, success) /\ Goto(t, "load failed")
                  /\ UNCHANGED <<counters, call, read, calls, overlap>>
LoadFailed(t) == /\ pc[t] = "load failed" /\ snap' = <<>> /\ overlap' = 0 /\ Goto(t, "idle")
                 /\ UNCHANGED <<counters, call, read, calls>>

Step(t) == \/ AddTotal(t) \/ AddOutcome(t) \/ AddTime(t) \/ \E x \in Extremes : Load(t, x) \/ Swap(t, x)
           \/ LoadTotal(t) \/ LoadSuccess(t) \/ LoadFailed(t)
=============================================================================
