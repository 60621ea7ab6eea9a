----------------------------- MODULE MCSockets ------------------------------
(* Sockets for TLC: the numbers the system gives out are alike. *)
EXTENDS Sockets, TLC

Alike == Permutations(Handles)
=============================================================================
