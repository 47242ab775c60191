------------------------------- MODULE MCShell -------------------------------
(* Two files, one of them known by a second name, and one thread of the    *)
(* program beside the shell's.                                             *)
EXTENDS Shell
MCFileOf == [a |-> "fa", alias |-> "fa", b |-> "fb"]
MCDurations == [shell |-> {1, 2}, other |-> {0, 1}]
=============================================================================
