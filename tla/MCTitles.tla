------------------------------ MODULE MCTitles ------------------------------
(* Two threads that share the tables.                                         *)
EXTENDS Titles, TLC

Symmetric == Permutations(Threads)
=============================================================================
