---------------------------- MODULE MCBlockChain ----------------------------
(* The list of free blocks, for TLC. *)
EXTENDS BlockChain
=============================================================================
