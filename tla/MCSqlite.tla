------------------------------ MODULE MCSqlite ------------------------------
(* Sqlite for TLC: the constants come from the .cfg. *)
EXTENDS Sqlite
=============================================================================
