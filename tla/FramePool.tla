------------------------------ MODULE FramePool ------------------------------
(***************************************************************************)
(* What the physical page manager promises: a pool of page frames that     *)
(* serves every request with the lowest free frame at or above the base of *)
(* the request, never takes a frame back, and answers NULL only when no    *)
(* frame at or above the base is left.                                     *)
(***************************************************************************)
EXTENDS Naturals, FiniteSetsExt

CONSTANTS
  Frames,   \* the page frames the manager sees, as page numbers
  Bases,    \* the lower bounds that callers ask with
  NULL      \* the answer to a request that cannot be served

VARIABLES
  free,     \* the frames that were never handed out
  last      \* the answer to the last request

Init ==
  /\ free = Frames
  /\ last = NULL

Allocate(base) ==
  LET candidates == {f \in free : f >= base}
  IN  IF candidates = {}
      THEN last' = NULL /\ UNCHANGED free
      ELSE /\ last' \in candidates
           /\ \A f \in candidates : last' <= f
           /\ free' = free \ {last'}

Next == \E base \in Bases : Allocate(base)

Spec == Init /\ [][Next]_<<free, last>>
==============================================================================
