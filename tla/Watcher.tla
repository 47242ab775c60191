------------------------------ MODULE Watcher ------------------------------
(***************************************************************************)
(* The file watcher (src/src/watcher.rs): the notify library puts an event *)
(* into a channel for what happens to a file of the database directory; a  *)
(* thread takes them one by one, drops those of a path it has taken an     *)
(* event of less than 2 seconds ago, and calls back for the others.        *)
(***************************************************************************)
EXTENDS Integers, Sequences

CONSTANTS
  Stems,      \* database files, by their name without ".db"
  None,       \* nothing
  MaxEvents   \* bound: events the kernel and the channel hold

(* EventKind as the thread and its callback tell them apart: "modify" is   *)
(* Modify or Create, "access" every kind but these and Remove.             *)
Kinds == {"modify", "remove", "access"}
Event == [stem : Stems, kind : Kinds]

VARIABLES
  events,   \* the channel
  quiet,    \* debounce_map: paths taken less than 2 seconds ago
  job,      \* the event the callback is being made for, or None
  lost      \* auxiliary: paths whose last change reached no callback

WatcherInit == events = <<>> /\ quiet = {} /\ job = None /\ lost = {}

Changes(e) == e.kind # "access"

(* Events are sent in their order; those the kernel's queue has no room    *)
(* for are gone.                                                           *)
Changed(es, ks) == {es[k].stem : k \in {j \in ks : Changes(es[j])}}
Notify(es) == \E n \in 0..Len(es) :
  /\ n = Len(es) \/ Len(events) + n = MaxEvents
  /\ Len(events) + n <= MaxEvents
  /\ events' = events \o SubSeq(es, 1, n)
  /\ lost' = (lost \ Changed(es, 1..n)) \cup Changed(es, (n + 1)..Len(es))

(* The thread takes an event.  The debounce map is written before the kind *)
(* is looked at, so that an event that leads to no callback also silences  *)
(* the path.                                                               *)
IsLast(e) == \A i \in 2..Len(events) : events[i].stem # e.stem \/ ~Changes(events[i])
Debounced(e) == /\ e.stem \in quiet
                /\ lost' = IF Changes(e) /\ IsLast(e) THEN lost \cup {e.stem} ELSE lost
                /\ UNCHANGED <<quiet, job>>
Accepted(e)  == /\ e.stem \notin quiet
                /\ quiet' = quiet \cup {e.stem}
                /\ job' = IF Changes(e) THEN e ELSE None
                /\ UNCHANGED lost

Take == /\ job = None /\ events # <<>>
        /\ Debounced(Head(events)) \/ Accepted(Head(events))
        /\ events' = Tail(events)

(* 2 seconds pass.                                                         *)
Calm(s) == s \in quiet /\ quiet' = quiet \ {s} /\ UNCHANGED <<events, job, lost>>

WatcherTypeOK ==
  /\ events \in Seq(Event) /\ Len(events) <= MaxEvents
  /\ quiet \subseteq Stems /\ lost \subseteq Stems /\ job \in Event \cup {None}
=============================================================================
