---------------------------- MODULE AddressSpace ----------------------------
(***************************************************************************)
(* What the virtual memory manager promises about the pages of the heap: a *)
(* request is served with the lowest run of free pages that is long        *)
(* enough, it fails only when there is no such run, and a span that is     *)
(* freed can be served again.  A span is a first page and a length.        *)
(***************************************************************************)
EXTENDS Naturals

CONSTANTS
  Heap,     \* the pages that can be served
  Sizes,    \* the lengths that are asked for
  NULL      \* the answer to a request that cannot be served

VARIABLES
  free,     \* the free pages
  held,     \* the spans that were served and not freed
  ret       \* the answer to the last request, NULL also after a free

Pages(s) == s.start .. s.start + s.pages - 1

\* A request for n pages can be served at p.
Fits(p, n) == p \in Heap /\ p .. p + n - 1 \subseteq free

Init ==
  /\ free = Heap
  /\ held = {}
  /\ ret = NULL

Serve(n) ==
  \/ /\ \E p \in Heap : Fits(p, n)
     /\ ret' \in Heap
     /\ Fits(ret', n)
     /\ \A p \in Heap : Fits(p, n) => ret' <= p
     /\ held' = held \cup {[start |-> ret', pages |-> n]}
     /\ free' = free \ (ret' .. ret' + n - 1)
  \/ /\ ~ \E p \in Heap : Fits(p, n)
     /\ ret' = NULL
     /\ UNCHANGED <<free, held>>

Free(s) ==
  /\ held' = held \ {s}
  /\ free' = free \cup Pages(s)
  /\ ret' = NULL

Next == (\E n \in Sizes : Serve(n)) \/ (\E s \in held : Free(s))

Spec == Init /\ [][Next]_<<free, held, ret>>
=============================================================================
