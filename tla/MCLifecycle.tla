---------------------------- MODULE MCLifecycle ----------------------------
(* Two users, one port, and names enough for a client, one being built, one   *)
(* a user still holds and one that was lost.                                  *)
EXTENDS Lifecycle, TLC

CONSTANTS u1, u2

Symmetric == Permutations(Users) \cup Permutations(Ports) \cup Permutations(Clients)
=============================================================================
