----------------------------- MODULE MCConsole ------------------------------
(* The console, for TLC. *)
EXTENDS Console
=============================================================================
