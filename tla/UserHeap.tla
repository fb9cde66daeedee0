------------------------------ MODULE UserHeap ------------------------------
(***************************************************************************)
(* malloc and mmap of the user program on top of the kernel's system       *)
(* calls: musl's lite_malloc.c (the program never calls free, so the       *)
(* linker takes no other malloc), and brk, mmap and handle_syscall of      *)
(* syscalls.c.  The virtual memory manager below them is AddressSpace,     *)
(* which BlockChain implements.                                            *)
(*                                                                         *)
(* Addresses and sizes are longs, Longs many of them; the answers of       *)
(* handle_syscall are ints, Ints many.                                     *)
(***************************************************************************)
EXTENDS Integers

CONSTANTS
  PAGE_SIZE,
  Longs, Ints,    \* one more than the largest unsigned long, unsigned int
  Heap,           \* the pages that the kernel has left for ring 3
  StackAt,        \* the address of a local variable of the user program
  Sizes, Lengths, \* what the program asks malloc and mmap for
  NULL,           \* the answer of vmm_mmap when it has no room
  MaxCalls        \* bound on the calls

VARIABLES
  brk, cur, end, mmap_step,  \* the statics of __simple_malloc
  free, held, answer,        \* the kernel: free pages, spans served, last answer
  refused,  \* vmm_mmap has answered NULL
  blocks,   \* the blocks malloc returned: number of the call, address, size
  buffers,  \* the frame buffers mmap returned: the same
  calls     \* the number of calls so far

statics == <<brk, cur, end, mmap_step>>
kernel == <<free, held, answer, refused>>
vars == <<statics, kernel, blocks, buffers, calls>>

ALIGN == 16
Aligns == {1, 2, 4, 8, 16}

\* PAGE_SIZE << (mmap_step / 2) is AreaPages[mmap_step + 1] pages.
AreaPages == <<1, 1, 2, 2, 4, 4, 8, 8, 16, 16, 32, 32, 64>>

ASSUME UserHeapAssumption ==
  /\ {PAGE_SIZE, Longs, Ints, StackAt, MaxCalls} \subseteq Nat \ {0}
  /\ PAGE_SIZE % ALIGN = 0 /\ Ints % PAGE_SIZE = 0 /\ Longs % Ints = 0 /\ Ints < Longs
  /\ Heap \subseteq Nat /\ Heap # {} /\ NULL \notin Heap
  /\ \A p \in Heap : p >= 64 /\ p * PAGE_SIZE > StackAt /\ 2 * (p + 1) * PAGE_SIZE < Ints
  /\ Sizes \subseteq 0 .. Ints
  /\ Lengths \subseteq PAGE_SIZE .. Ints

------------------------------------------------------------------------------
(* syscalls.c *)

AnyPages == 0 .. Ints \div PAGE_SIZE

Kernel == INSTANCE AddressSpace WITH Sizes <- AnyPages, ret <- answer

\* What the caller finds in rax after handle_syscall returned an int: the
\* upper half of the register is zero or the sign, as the compiler likes.
Returned(int) == IF int < Ints \div 2 THEN {int} ELSE {int, int + (Longs - Ints)}

\* brk always fails.
SysBrk == Returned(Ints - 1)

\* A fault: one page too few.
PagesForFewer(length) == length \div PAGE_SIZE - 1

\* mmap serves whole pages.  A request for exactly the last free pages is
\* left to KernelHeap, where vmm_mmap frees a block of its own list.  The answer
\* -1 to an address or a file that is not allowed does not occur: the program
\* passes no address, and -1 or what open returned as file.
PagesFor(length) == length \div PAGE_SIZE

SysMmap(length) ==
  /\ Kernel!Serve(PagesFor(length))
  /\ free' # {}
  /\ refused' = (refused \/ answer' = NULL)

\* Addresses are below half of Ints: handle_syscall returns them whole.
Address(page) == IF page = NULL THEN 0 ELSE page * PAGE_SIZE

------------------------------------------------------------------------------
(* lite_malloc.c *)

Sub(x, y) == (x - y) % Longs
RoundUp(x, to) == (x + ((-x) % to)) % Longs

AlignFor(n) ==
  CHOOSE a \in Aligns : /\ a >= n \/ a = ALIGN
                        /\ \A b \in Aligns : b < a => b < n

\* The interval from old to new meets the stack; libc.auxv is 0.
traverses_stack_p(old, new) == new > 0 /\ old < StackAt

\* A fault: the answer of brk is not compared with the break asked for.
BrkMovesUnchecked(b, to, req, r) ==
  b = to /\ req < Longs - 1 - b /\ ~traverses_stack_p(b, b + req)

\* The break b is the end of the current area, and r is what brk answers.
BrkMoves(b, to, req, r) ==
  /\ b = to
  /\ req < Longs - 1 - b
  /\ ~traverses_stack_p(b, b + req)
  /\ r = b + req

\* An area for later requests too, when a span of n alone would waste more
\* than an eighth and more than what is left of the current area.
NewArea(n, left) ==
  /\ RoundUp(n, PAGE_SIZE) - n > RoundUp(n, PAGE_SIZE) \div 8
  /\ Sub(AreaPages[mmap_step + 1] * PAGE_SIZE, n) > left

Least(n, left) ==
  NewArea(n, left) /\ RoundUp(n, PAGE_SIZE) < AreaPages[mmap_step + 1] * PAGE_SIZE

\* A fault: the length asked of mmap is not rounded up.
AreaSizeExact(n, left) ==
  IF Least(n, left) THEN AreaPages[mmap_step + 1] * PAGE_SIZE ELSE n

AreaSize(n, left) ==
  IF Least(n, left) THEN AreaPages[mmap_step + 1] * PAGE_SIZE ELSE RoundUp(n, PAGE_SIZE)

Record(p, n) ==
  blocks' = IF p = 0 THEN blocks ELSE blocks \cup {[call |-> calls, at |-> p, size |-> n]}

\* There is room in the current area from at on.
Bump(n, at) ==
  /\ n <= Sub(end, at)
  /\ cur' = at + n
  /\ Record(at, n)
  /\ UNCHANGED <<brk, end, mmap_step, kernel>>

\* There is none, and the kernel moved the break.
GrowBreak(n, from, to) ==
  /\ brk' = to /\ end' = to
  /\ cur' = from + n
  /\ Record(from, n)
  /\ UNCHANGED <<mmap_step, kernel>>

\* A fault: a new area is opened without taking the block out of it.
GrowMapKeeps(n, b, from, to) ==
  /\ brk' = b
  /\ SysMmap(AreaSize(n, Sub(to, from)))
  /\ mmap_step' = IF Least(n, Sub(to, from)) /\ mmap_step < 12 THEN mmap_step + 1 ELSE mmap_step
  /\ IF NewArea(n, Sub(to, from))
     THEN cur' = Address(answer') /\ end' = Address(answer') + AreaSize(n, Sub(to, from))
     ELSE cur' = from /\ end' = to
  /\ Record(Address(answer'), n)

\* There is none, and the pages come from mmap.
GrowMap(n, b, from, to) ==
  /\ brk' = b
  /\ SysMmap(AreaSize(n, Sub(to, from)))
  /\ mmap_step' = IF Least(n, Sub(to, from)) /\ mmap_step < 12 THEN mmap_step + 1 ELSE mmap_step
  /\ IF NewArea(n, Sub(to, from))
     THEN cur' = Address(answer') + n /\ end' = Address(answer') + AreaSize(n, Sub(to, from))
     ELSE cur' = from /\ end' = to
  /\ Record(Address(answer'), n)

\* req is what is missing; b is the break, read anew as long as cur is 0.
Grow(n, at, req, b) ==
  /\ n > Sub(end, at)
  /\ \E r \in SysBrk, from \in {IF at = 0 THEN b ELSE at}, to \in {IF at = 0 THEN b ELSE end} :
       IF BrkMoves(b, to, req, r)
       THEN GrowBreak(n, from, to + req) ELSE GrowMap(n, b, from, to)

simple_malloc(n, at) ==
  \/ Bump(n, at)
  \/ \E r \in SysBrk : Grow(n, at, RoundUp(Sub(n, Sub(end, at)), PAGE_SIZE),
                            IF at = 0 THEN RoundUp(r, PAGE_SIZE) ELSE brk)

malloc(n) ==
  /\ IF n = 0 THEN simple_malloc(1, cur) ELSE simple_malloc(n, RoundUp(cur, AlignFor(n)))
  /\ UNCHANGED buffers

------------------------------------------------------------------------------

\* open and mmap of /dev/mem: the caller takes the buffer to have length bytes.
mmap(length) ==
  /\ SysMmap(length)
  /\ buffers' = IF answer' = NULL THEN buffers
                ELSE buffers \cup {[call |-> calls, at |-> Address(answer'), size |-> length]}
  /\ UNCHANGED <<statics, blocks>>

UserHeapInit ==
  /\ brk = 0 /\ cur = 0 /\ end = 0 /\ mmap_step = 0
  /\ Kernel!Init
  /\ refused = FALSE
  /\ blocks = {} /\ buffers = {} /\ calls = 0

UserHeapNext ==
  /\ calls < MaxCalls
  /\ calls' = calls + 1
  /\ \/ \E n \in Sizes : malloc(n)
     \/ \E l \in Lengths : mmap(l)

UserHeapSpec == UserHeapInit /\ [][UserHeapNext]_vars

------------------------------------------------------------------------------
(* Properties *)

Apart(b, c) == b.at + b.size <= c.at \/ c.at + c.size <= b.at

\* b lies in the span s of the kernel.
Inside(b, s) ==
  s.start * PAGE_SIZE <= b.at /\ b.at + b.size <= (s.start + s.pages) * PAGE_SIZE

Mapped(b) == \E s \in held : Inside(b, s)

Block == [call : 0 .. MaxCalls, at : Nat \ {0}, size : Nat]

\* The statics are words, the current area [cur, end) is not inside out and
\* its end is aligned to pages: so rounding cur up never passes end, and the
\* unsigned end - cur of __simple_malloc never wraps round.
UserHeapTypeOK ==
  /\ {brk, cur, end} \subseteq 0 .. Longs - 1 /\ mmap_step \in 0 .. 12
  /\ cur <= end /\ end % PAGE_SIZE = 0
  /\ blocks \subseteq Block /\ buffers \subseteq Block

\* Two blocks of malloc in mapped memory never share a byte, whatever areas
\* lite_malloc opened, left half used or came back to between the two calls.
BlocksApart ==
  \A b, c \in blocks : Mapped(b) /\ Mapped(c) /\ b.call # c.call => Apart(b, c)

\* A block of malloc is aligned for its size and mapped, and is no part of
\* the pages of a frame buffer.  The exception comes after a request that the
\* kernel refused: vmm_mmap answers NULL then, which is not MAP_FAILED, and
\* lite_malloc takes pages from 0 on for its new area.  Blocks there are below
\* every page of the heap.
BlocksUsable ==
  \A b \in blocks :
    /\ b.at % AlignFor(b.size) = 0
    /\ \/ Mapped(b)
       \/ refused /\ \A p \in Heap : b.at + b.size <= p * PAGE_SIZE
    /\ \A f \in buffers : Apart(b, [f EXCEPT !.size = PagesFor(f.size) * PAGE_SIZE])

\* The frame buffer mmap returns may be shorter than asked for, because its
\* pages are rounded down: what is missing is less than one page, and every
\* block that the caller reaches with the rest of it was returned later.
OverrunConfined ==
  \A f \in buffers : \A b \in blocks :
    ~Apart(b, f) => /\ b.call > f.call
                    /\ f.at + f.size - b.at < PAGE_SIZE
=============================================================================
