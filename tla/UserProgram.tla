---------------------------- MODULE UserProgram ----------------------------
(***************************************************************************)
(* The user program as a whole: UserHeap gives it the buffers that Screen  *)
(* draws with.  dvd_bounce maps the frame buffer, allocates original,      *)
(* fills it, allocates backbuffer and goes on with its loop.  Other        *)
(* sequences of calls are explored as well; the picture stands still then. *)
(***************************************************************************)
EXTENDS UserHeap, Screen

PixelSize == PAGE_SIZE \div PagePixels
FB_SIZE == Total * PixelSize

\* The kernel has freed nothing when it enters ring 3: no page between two
\* that are left is in use.
ASSUME UserProgramAssumption ==
  /\ PAGE_SIZE % PagePixels = 0 /\ FB_SIZE \in Sizes \cap Lengths /\ MaxCalls > 2
  /\ \A p, q \in Heap : p .. q \subseteq Heap

\* The n calls so far are those of dvd_bounce, and were served.
Served(served, c) == {b \in served : b.call = c /\ b.size = FB_SIZE}
HasBuffers(n) ==
  calls = n /\ Served(buffers, 0) # {} /\ \A c \in 1 .. n - 1 : Served(blocks, c) # {}

Running == HasBuffers(2) \/ (HasBuffers(3) /\ pc # "shoot")

\* Any call, before dvd_bounce has begun to copy.
AnyCall ==
  /\ pc = "shoot" /\ i = 0 /\ logs = 0
  /\ UserHeapNext
  /\ UNCHANGED picture

\* The second malloc of dvd_bounce comes after original was filled.  The kernel
\* logs the pages that it maps for it.
MallocBackbuffer ==
  /\ HasBuffers(2) /\ pc = "draw"
  /\ calls' = calls + 1
  /\ malloc(FB_SIZE)
  /\ Log

Paint ==
  /\ Running
  /\ pc = "shoot" \/ calls = 3
  /\ dvd_bounce
  /\ UNCHANGED vars

\* The bound on texts leaves one for that system call.
HandlerLogs ==
  /\ Running
  /\ logs + 1 < MaxLogs \/ calls = 3
  /\ Log
  /\ UNCHANGED vars

UserInit == UserHeapInit /\ ScreenInit

UserNext == AnyCall \/ MallocBackbuffer \/ Paint \/ HandlerLogs

\* Handlers return and system calls are answered, so the program goes on.
UserSpec ==
  /\ UserInit /\ [][UserNext]_<<vars, picture>>
  /\ WF_<<vars, picture>>(MallocBackbuffer \/ Paint)

------------------------------------------------------------------------------
(* Properties *)

\* The buffers of dvd_bounce lie as Screen takes them to lie: original begins
\* with the page behind the last whole page of the frame buffer, so what the
\* copies write beyond that page is the beginning of original and nothing else,
\* and backbuffer is out of their reach.
BuffersPlaced ==
  Running =>
    \A f \in Served(buffers, 0) : \A o \in Served(blocks, 1) :
      /\ o.at = f.at + Whole * PixelSize /\ Mapped(o)
      /\ \A b \in Served(blocks, 2) : Mapped(b) /\ Apart(b, f) /\ Apart(b, o)
=============================================================================
