------------------------------ MODULE MCWorker ------------------------------
(* Worker for TLC: callers are interchangeable, and a process that
   has crashed takes no step, so all its states are one. *)
EXTENDS Worker, TLC

Symmetry == Permutations(Callers)

View == IF crashed THEN <<crashed>> ELSE vars
=============================================================================
