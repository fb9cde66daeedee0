-------------------------------- MODULE MCPMM --------------------------------
(* The page manager on its own, for TLC. *)
EXTENDS PMM
==============================================================================
