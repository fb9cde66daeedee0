------------------------------ MODULE MCMachine ------------------------------
(* Interrupts and system calls, for TLC. *)
EXTENDS Machine

\* The firmware masks nothing, or the clock and the mouse.
Masks == {{}, {0, 12}}
==============================================================================
