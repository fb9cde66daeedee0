--------------------------------- MODULE PMM ---------------------------------
(***************************************************************************)
(* The physical page manager, src/src/kernel/src/memory/PMM.c.             *)
(*                                                                         *)
(* A bitmap of PAGES words of WordBits bits holds one bit per page frame;  *)
(* a set bit is a free frame, and the HIGHEST bit of word 0 is the first   *)
(* frame after the kernel image.  Frames are never given back.  Addresses  *)
(* are page numbers: every address in this file is a multiple of           *)
(* PAGE_SIZE.  A word is the set of its one bits.                          *)
(***************************************************************************)
EXTENDS Integers, FiniteSetsExt

CONSTANTS
  WordBits,       \* bits in a bitmap word (64)
  PAGES,          \* words in the bitmap (128 * 4)
  ReservedStart,  \* page number of _FIRST_FREE_PAGE_, set by the linker
  MEM_START,      \* page number of the first data frame (0x200)
  AddressPages    \* pages in the address space; uintptr_t wraps around at it

ASSUME PMMAssumption ==
  /\ WordBits \in Nat \ {0}
  /\ PAGES \in Nat \ {0}
  /\ ReservedStart \in Nat \ {0}
  /\ MEM_START \in Nat
  /\ ReservedStart <= MEM_START
  /\ AddressPages \in Nat \ {0}
  /\ MEM_START < AddressPages
  /\ ReservedStart + WordBits * PAGES <= AddressPages

VARIABLES
  bitmap,   \* the bitmap: word -> the set of its one bits
  last,     \* history: what the last call returned
  tables,   \* history: frames returned by pmm_allocate_page_table
  pages     \* history: frames returned by pmm_allocate_page

pmmVars == <<bitmap, last, tables, pages>>

NULL == 0

Words == 0 .. PAGES - 1

Bits == 0 .. WordBits - 1

\* Mutants of FrameOf: one frame too far; bits counted from the wrong end.
FrameOfOffByOne(i, b) == ReservedStart + WordBits * i + (WordBits - b)
FrameOfLowBitFirst(i, b) == ReservedStart + WordBits * i + b

\* The frame that bit b of word i stands for.
FrameOf(i, b) == ReservedStart + WordBits * i + (WordBits - 1 - b)

\* The frames whose bit is set in the bitmap bm.
FreeFrames(bm) == {FrameOf(x[1], x[2]) : x \in {y \in Words \X Bits : y[2] \in bm[y[1]]}}

\* Mutant of StartWord: the division rounds up.
StartWordUp(start) == (((start - ReservedStart) % AddressPages) + WordBits - 1) \div WordBits

\* The word a search that begins at frame start looks at first: an unsigned
\* subtraction, then a division that rounds down to a whole word.
StartWord(start) == ((start - ReservedStart) % AddressPages) \div WordBits

\* The words allocate_page_from finds nonzero.
NonZeroFrom(bm, start) == {i \in Words : i >= StartWord(start) /\ bm[i] # {}}

\* Mutant of ClearBit: only the last bit of a word is ever cleared.
ClearLastBitOnly(bm, i, first_set) == IF first_set # 0 THEN bm ELSE [bm EXCEPT ![i] = {}]

\* The frame is taken: its bit is masked out, or the word zeroed for bit 0.
ClearBit(bm, i, first_set) ==
  IF first_set # 0 THEN [bm EXCEPT ![i] = @ \ {first_set}] ELSE [bm EXCEPT ![i] = {}]

\* allocate_page_from: the first nonzero word, and the highest bit set in it.
allocate_page_from(bm, start) ==
  IF NonZeroFrom(bm, start) = {}
  THEN [bitmap |-> bm, page |-> NULL]
  ELSE LET i         == Min(NonZeroFrom(bm, start))
           first_set == Max(bm[i])
       IN  [bitmap |-> ClearBit(bm, i, first_set), page |-> FrameOf(i, first_set)]

------------------------------------------------------------------------------
(* The state machine of the manager on its own. *)

\* pmm_init, a constructor that runs before kmain.
PMMInit ==
  /\ bitmap = [i \in Words |-> Bits]
  /\ last = NULL
  /\ tables = {}
  /\ pages = {}

pmm_allocate_page_table ==
  LET r == allocate_page_from(bitmap, ReservedStart)
  IN  /\ bitmap' = r.bitmap
      /\ last' = r.page
      /\ tables' = tables \cup ({r.page} \ {NULL})
      /\ UNCHANGED pages

pmm_allocate_page ==
  LET r == allocate_page_from(bitmap, MEM_START)
  IN  /\ bitmap' = r.bitmap
      /\ last' = r.page
      /\ pages' = pages \cup ({r.page} \ {NULL})
      /\ UNCHANGED tables

PMMNext == pmm_allocate_page_table \/ pmm_allocate_page

PMMSpec == PMMInit /\ [][PMMNext]_pmmVars

------------------------------------------------------------------------------
(* Properties. *)

AllFrames == ReservedStart .. ReservedStart + WordBits * PAGES - 1

\* Type invariant.
PMMTypeOK ==
  /\ bitmap \in [Words -> SUBSET Bits]
  /\ last \in AllFrames \cup {NULL}
  /\ tables \subseteq AllFrames
  /\ pages \subseteq AllFrames

\* The bitmap and the frames handed out by both entry points partition the
\* memory the manager sees: the two callers never share a frame, no frame is
\* lost, and none that was handed out is still marked free.
FramePartition ==
  /\ tables \cap pages = {}
  /\ FreeFrames(bitmap) \cap (tables \cup pages) = {}
  /\ FreeFrames(bitmap) \cup tables \cup pages = AllFrames

\* No call of allocate_page_from returns a frame that an earlier call of either
\* entry point has returned.
NoDoubleAllocation == [][last' # NULL => last' \notin tables \cup pages]_pmmVars

\* Where the frames begin that a caller asking from s on may get: less than a
\* word of frames before s, counted from the first frame.
BaseOf(s) == s - ((s - ReservedStart) % WordBits)

\* The bitmap search implements the frame pool: allocate_page_from serves the
\* lowest free frame from that base on, although it looks at whole words and at
\* the bits of a word from the highest down, and fails only when no frame from
\* there on is left.
Pool == INSTANCE FramePool WITH
          Frames <- AllFrames,
          Bases  <- {BaseOf(ReservedStart), BaseOf(MEM_START)},
          NULL   <- NULL,
          free   <- FreeFrames(bitmap),
          last   <- last
ImplementsPool == Pool!Spec
==============================================================================
