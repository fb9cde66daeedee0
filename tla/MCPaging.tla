------------------------------ MODULE MCPaging ------------------------------
(* The page tables, for TLC. *)
EXTENDS Paging
=============================================================================
