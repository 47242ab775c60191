---------------------------- MODULE Transaction -----------------------------
(***************************************************************************)
(* What the README of RustMinidb promises of BEGIN, COMMIT and ROLLBACK:   *)
(* the writes of a transaction take effect together or not at all. A       *)
(* transaction may be left by an abort at any moment: ROLLBACK, the drop   *)
(* of the connection and the end of the process are all one Abort.         *)
(***************************************************************************)
CONSTANT Tables        \* the contents a table can have

VARIABLES committed,   \* what is left if every open transaction is abandoned
          working,     \* what statements read and write
          open,        \* a transaction is open
          outcome      \* how the last transaction ended

Init ==
  /\ committed \in Tables
  /\ working = committed
  /\ open = FALSE /\ outcome = "none"

(* A row is written; without a transaction it is committed at once.        *)
Write ==
  /\ working' \in Tables
  /\ committed' = IF open THEN committed ELSE working'
  /\ UNCHANGED <<open, outcome>>

Begin ==
  /\ ~open /\ open' = TRUE /\ outcome' = "none"
  /\ UNCHANGED <<committed, working>>

Commit ==
  /\ open /\ open' = FALSE /\ outcome' = "committed"
  /\ committed' = working
  /\ UNCHANGED working

Abort ==
  /\ open /\ open' = FALSE /\ outcome' = "aborted"
  /\ working' = committed
  /\ UNCHANGED committed

Next == Write \/ Begin \/ Commit \/ Abort

Spec == Init /\ [][Next]_<<committed, working, open, outcome>>
=============================================================================
