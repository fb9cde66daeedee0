--------------------------- MODULE MCUserProgram ---------------------------
(***************************************************************************)
(* Pages of 32 bytes, ints of 13 bits and longs of 16; a screen of 7 by 3  *)
(* pixels of 4 bytes, which takes two pages and five eighths of a third.   *)
(***************************************************************************)
EXTENDS UserProgram
=============================================================================
