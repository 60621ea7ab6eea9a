---------------------------- MODULE MCNetClient -----------------------------
(* NetClient for TLC: the constants come from the .cfg. *)
EXTENDS NetClient
=============================================================================
