------------------------------- MODULE PMMProof -------------------------------
(***************************************************************************)
(* Proofs about the physical page manager, for every size of the bitmap    *)
(* and every place of the kernel image.                                    *)
(***************************************************************************)
EXTENDS PMM, WellFoundedInduction, TLAPS

(***************************************************************************)
(* Facts about numbers.                                                    *)
(***************************************************************************)

\* A nonempty set of naturals has a least element, and Min returns it.
LEMMA MinOfNaturals ==
  ASSUME NEW S \in SUBSET Nat, S # {}
  PROVE  /\ Min(S) \in S
         /\ \A y \in S : Min(S) <= y
<1> DEFINE R == OpToRel(<, Nat)
<1>1. IsWellFoundedOn(R, Nat)
  BY NatLessThanWellFounded, Zenon
<1>2. \A a, b \in Nat : a < b => <<a, b>> \in R
  BY DEF OpToRel
<1> HIDE DEF R
<1>3. PICK x \in S : \A y \in S : ~(<<y, x>> \in R)
  BY <1>1, WFMin, Zenon
<1>4. \A y \in S : ~(y < x)
  BY <1>2, <1>3, Zenon
<1>5. \A y \in S : x <= y
  BY <1>4
<1> QED
  BY <1>5, Zenon DEF Min

\* A nonempty set of naturals with an upper bound has a greatest element, and
\* Max returns it.
LEMMA MaxOfBounded ==
  ASSUME NEW n \in Nat, NEW S \in SUBSET (0 .. n), S # {}
  PROVE  /\ Max(S) \in S
         /\ \A y \in S : Max(S) >= y
<1> DEFINE T == {n - x : x \in S}
<1>1. T \in SUBSET Nat /\ T # {}
  <2>1. \A x \in S : n - x \in Nat
    OBVIOUS
  <2>2. PICK x \in S : TRUE
    BY Zenon
  <2>3. n - x \in T
    BY <2>2
  <2> QED
    BY <2>1, <2>3
<1>2. /\ Min(T) \in T
      /\ \A y \in T : Min(T) <= y
  BY <1>1, MinOfNaturals, Zenon
<1>3. PICK x \in S : Min(T) = n - x
  BY <1>2, Zenon
<1>4. \A y \in S : x >= y
  BY <1>2, <1>3
<1> QED
  BY <1>4, Zenon DEF Max

\* Multiplication by a natural is monotonic, one whole word at a time.
LEMMA WholeWords ==
  ASSUME NEW w \in Nat \ {0}, NEW i \in Nat, NEW j \in Nat, i < j
  PROVE  w * i + w <= w * j
<1>1. PICK k \in Nat : j = i + 1 + k
  <2>1. j - i - 1 \in Nat /\ j = i + 1 + (j - i - 1)
    OBVIOUS
  <2> QED BY <2>1
<1>2. w * j = w * i + w + w * k
  BY <1>1
<1>3. w * k \in Nat
  OBVIOUS
<1>4. w * i \in Nat
  OBVIOUS
<1> QED
  BY <1>2, <1>3, <1>4

\* Every natural is a whole number of words and a rest.
LEMMA DivideByWord ==
  ASSUME NEW w \in Nat \ {0}, NEW x \in Nat
  PROVE  /\ x \div w \in Nat
         /\ x % w \in 0 .. w - 1
         /\ x = w * (x \div w) + (x % w)
OBVIOUS

(***************************************************************************)
(* The numbering of frames.                                                *)
(***************************************************************************)

\* Frames are numbered in the order of the words and, in a word, from the
\* highest bit down; different bits are different frames.
LEMMA FrameOrder ==
  ASSUME NEW i \in Words, NEW b \in Bits, NEW j \in Words, NEW c \in Bits
  PROVE  /\ FrameOf(i, b) \in AllFrames
         /\ i < j => FrameOf(i, b) < FrameOf(j, c)
         /\ b > c => FrameOf(i, b) < FrameOf(i, c)
         /\ FrameOf(i, b) = FrameOf(j, c) => i = j /\ b = c
<1> USE PMMAssumption DEF Words, Bits
<1>1. WordBits * i \in Nat /\ WordBits * j \in Nat /\ WordBits * PAGES \in Nat
  OBVIOUS
<1>2. WordBits * i + WordBits <= WordBits * PAGES
  BY WholeWords
<1>3. i < j => WordBits * i + WordBits <= WordBits * j
  BY WholeWords
<1>4. j < i => WordBits * j + WordBits <= WordBits * i
  BY WholeWords
<1> HIDE PMMAssumption
<1>5. WordBits \in Nat /\ ReservedStart \in Nat /\ PAGES \in Nat
  BY PMMAssumption
<1> QED
  BY <1>1, <1>2, <1>3, <1>4, <1>5 DEF FrameOf, AllFrames

\* Every frame the manager sees has a bit.
LEMMA FrameHasBit ==
  ASSUME NEW f \in AllFrames
  PROVE  \E i \in Words, b \in Bits : f = FrameOf(i, b)
<1> DEFINE x == f - ReservedStart
           i == x \div WordBits
           b == WordBits - 1 - (x % WordBits)
<1>1. x \in Nat /\ x < WordBits * PAGES
  BY PMMAssumption DEF AllFrames
<1>2. /\ i \in Nat
      /\ x % WordBits \in 0 .. WordBits - 1
      /\ x = WordBits * i + (x % WordBits)
  BY <1>1, PMMAssumption, DivideByWord, Zenon
<1>3. i \in Words
  <2>1. SUFFICES ASSUME ~(i < PAGES) PROVE FALSE
    BY <1>2, PMMAssumption DEF Words
  <2>2. WordBits * PAGES <= WordBits * i
    <3>1. CASE PAGES = i
      BY <3>1, PMMAssumption
    <3>2. CASE PAGES < i
      <4>1. WordBits * PAGES + WordBits <= WordBits * i
        BY <1>2, <3>2, PMMAssumption, WholeWords, Zenon
      <4>2. WordBits * PAGES \in Nat /\ WordBits * i \in Nat /\ WordBits \in Nat
        BY <1>2, PMMAssumption
      <4> QED
        BY <4>1, <4>2
    <3> QED
      BY <2>1, <1>2, <3>1, <3>2, PMMAssumption
  <2>3. WordBits * PAGES \in Nat /\ WordBits * i \in Nat
    BY <1>2, PMMAssumption
  <2> QED
    BY <1>1, <1>2, <2>2, <2>3
<1>4. b \in Bits /\ f = FrameOf(i, b)
  <2>1. WordBits * i \in Nat /\ f \in Nat /\ ReservedStart \in Nat /\ WordBits \in Nat
    BY <1>2, PMMAssumption DEF AllFrames
  <2> QED
    BY <1>2, <2>1 DEF Bits, FrameOf
<1> QED
  BY <1>3, <1>4

\* What it means for a frame to be free in a bitmap.
LEMMA FreeFrameHasBit ==
  ASSUME NEW bm \in [Words -> SUBSET Bits], NEW f
  PROVE  f \in FreeFrames(bm) <=> \E i \in Words : \E b \in bm[i] : f = FrameOf(i, b)
<1>1. ASSUME f \in FreeFrames(bm)
      PROVE  \E i \in Words : \E b \in bm[i] : f = FrameOf(i, b)
  BY <1>1 DEF FreeFrames
<1>2. ASSUME NEW i \in Words, NEW b \in bm[i], f = FrameOf(i, b)
      PROVE  f \in FreeFrames(bm)
  <2>1. <<i, b>> \in {y \in Words \X Bits : y[2] \in bm[y[1]]}
    OBVIOUS
  <2> QED
    BY <1>2, <2>1 DEF FreeFrames
<1> QED
  BY <1>1, <1>2

(***************************************************************************)
(* One call of allocate_page_from.                                         *)
(***************************************************************************)

\* The searches begin at a word, also when the subtraction wraps around.
LEMMA StartWordType ==
  ASSUME NEW start \in Nat
  PROVE  StartWord(start) \in Nat
<1>1. (start - ReservedStart) % AddressPages \in Nat
  BY PMMAssumption
<1> QED
  BY <1>1, PMMAssumption, DivideByWord DEF StartWord

\* The first frame of that word is less than a word before the frame asked for.
LEMMA StartWordBase ==
  ASSUME NEW start \in Nat, ReservedStart <= start, start < AddressPages
  PROVE  ReservedStart + WordBits * StartWord(start) = BaseOf(start)
<1> DEFINE x == start - ReservedStart
<1>1. x \in Nat /\ x < AddressPages /\ start = ReservedStart + x /\ AddressPages \in Nat \ {0} /\ ReservedStart \in Nat
  BY PMMAssumption
<1>2. x % AddressPages = x
  BY <1>1
<1>3. StartWord(start) = x \div WordBits
  BY <1>2 DEF StartWord
<1>4. BaseOf(start) = start - (x % WordBits)
  BY DEF BaseOf
<1> HIDE DEF x
<1>5. /\ x \div WordBits \in Nat /\ x % WordBits \in 0 .. WordBits - 1 /\ WordBits \in Nat
      /\ x = WordBits * (x \div WordBits) + (x % WordBits)
  BY <1>1, PMMAssumption, DivideByWord, Zenon
<1>6. WordBits * (x \div WordBits) \in Nat
  BY <1>5
<1> QED
  BY <1>1, <1>3, <1>4, <1>5, <1>6

\* Clearing a bit takes exactly its frame from the free ones.
LEMMA ClearBitFrees ==
  ASSUME NEW bm \in [Words -> SUBSET Bits], NEW i \in Words, NEW b \in bm[i],
         \A c \in bm[i] : b >= c
  PROVE  /\ ClearBit(bm, i, b) \in [Words -> SUBSET Bits]
         /\ FreeFrames(ClearBit(bm, i, b)) = FreeFrames(bm) \ {FrameOf(i, b)}
<1> DEFINE bm2 == [bm EXCEPT ![i] = @ \ {b}]
<1>1. ClearBit(bm, i, b) = bm2
  <2>1. ASSUME b = 0 PROVE bm[i] \ {b} = {}
    BY <2>1, PMMAssumption DEF Bits
  <2> QED
    BY <2>1, Zenon DEF ClearBit
<1>2. bm2 \in [Words -> SUBSET Bits]
  OBVIOUS
<1> HIDE DEF bm2
<1>3. /\ bm2[i] = bm[i] \ {b}
      /\ \A j \in Words : j # i => bm2[j] = bm[j]
  BY DEF bm2
<1>4. ASSUME NEW f
      PROVE  f \in FreeFrames(bm2) <=> f \in FreeFrames(bm) /\ f # FrameOf(i, b)
  <2>1. f \in FreeFrames(bm) <=> \E j \in Words : \E c \in bm[j] : f = FrameOf(j, c)
    BY FreeFrameHasBit
  <2>2. f \in FreeFrames(bm2) <=> \E j \in Words : \E c \in bm2[j] : f = FrameOf(j, c)
    BY <1>2, FreeFrameHasBit
  <2>3. \A j \in Words : \A c \in bm[j] : FrameOf(j, c) = FrameOf(i, b) => j = i /\ c = b
    BY FrameOrder
  <2>4. \A j \in Words : \A c : c \in bm2[j] <=> (c \in bm[j] /\ ~(j = i /\ c = b))
    BY <1>3
  <2> QED
    BY <2>1, <2>2, <2>3, <2>4
<1> QED
  BY <1>1, <1>2, <1>4

\* The contract of allocate_page_from: NULL and no change when no word from the
\* first one on has a bit left; else the lowest free frame from that word on,
\* which is no longer free.
LEMMA AllocateContract ==
  ASSUME NEW bm \in [Words -> SUBSET Bits], NEW start \in Nat,
         NEW r, r = allocate_page_from(bm, start),
         NEW cand, cand = {f \in FreeFrames(bm) : f >= ReservedStart + WordBits * StartWord(start)}
  PROVE  \/ /\ cand = {}
            /\ r.page = NULL
            /\ r.bitmap = bm
         \/ /\ r.page \in cand
            /\ \A f \in cand : r.page <= f
            /\ r.bitmap \in [Words -> SUBSET Bits]
            /\ FreeFrames(r.bitmap) = FreeFrames(bm) \ {r.page}
<1> DEFINE k == StartWord(start)
           nz == NonZeroFrom(bm, start)
<1>1. k \in Nat
  BY StartWordType
<1>2. ASSUME NEW i \in Words, NEW b \in Bits
      PROVE  FrameOf(i, b) >= ReservedStart + WordBits * k <=> i >= k
  <2> HIDE DEF k
  <2>1. WordBits * i \in Nat /\ WordBits * k \in Nat /\ WordBits \in Nat /\ ReservedStart \in Nat
    BY <1>1, PMMAssumption DEF Words
  <2>2. i < k => WordBits * i + WordBits <= WordBits * k
    BY <1>1, PMMAssumption, WholeWords DEF Words
  <2>3. k < i => WordBits * k + WordBits <= WordBits * i
    BY <1>1, PMMAssumption, WholeWords DEF Words
  <2>4. k = i => WordBits * k = WordBits * i
    OBVIOUS
  <2>5. i \in Nat /\ b \in Nat /\ b <= WordBits - 1
    BY PMMAssumption DEF Words, Bits
  <2> QED
    BY <1>1, <2>1, <2>2, <2>3, <2>4, <2>5 DEF FrameOf
<1>3. \A f : f \in cand <=> \E i \in Words : i >= k /\ \E b \in bm[i] : f = FrameOf(i, b)
  BY <1>2, FreeFrameHasBit
<1>4. CASE nz = {}
  <2>1. cand = {}
    BY <1>3, <1>4 DEF NonZeroFrom
  <2> QED
    BY <1>4, <2>1 DEF allocate_page_from
<1>5. CASE nz # {}
  <2> DEFINE i == Min(nz)
             b == Max(bm[i])
  <2>1. nz \in SUBSET Nat
    BY PMMAssumption DEF NonZeroFrom, Words
  <2>2. i \in nz /\ \A j \in nz : i <= j
    BY <1>5, <2>1, MinOfNaturals
  <2>3. i \in Words /\ i >= k /\ bm[i] # {}
    BY <2>2, Zenon DEF NonZeroFrom
  <2>4. b \in bm[i] /\ \A c \in bm[i] : b >= c
    <3>1. WordBits - 1 \in Nat /\ bm[i] \in SUBSET (0 .. WordBits - 1)
      BY <2>3, PMMAssumption DEF Bits
    <3> QED
      BY <2>3, <3>1, MaxOfBounded, Zenon
  <2>5. r = [bitmap |-> ClearBit(bm, i, b), page |-> FrameOf(i, b)]
    BY <1>5 DEF allocate_page_from
  <2> HIDE DEF i, b
  <2>6. r.page \in cand
    BY <1>3, <2>3, <2>4, <2>5
  <2>7. ASSUME NEW f \in cand PROVE r.page <= f
    <3>1. PICK j \in Words : j >= k /\ \E c \in bm[j] : f = FrameOf(j, c)
      BY <1>3
    <3>2. PICK c \in bm[j] : f = FrameOf(j, c)
      BY <3>1
    <3>3. b \in Bits /\ c \in Bits
      BY <2>3, <2>4
    <3>4. i <= j
      BY <2>2, <3>1, <3>2 DEF NonZeroFrom
    <3>5. /\ FrameOf(i, b) \in Nat /\ FrameOf(j, c) \in Nat
          /\ i < j => FrameOf(i, b) < FrameOf(j, c)
          /\ b > c => FrameOf(i, b) < FrameOf(i, c)
      BY <2>3, <3>3, FrameOrder, PMMAssumption DEF AllFrames
    <3>6. i = j => b >= c
      BY <2>4, <3>2
    <3>7. i = j /\ b = c => FrameOf(i, b) = FrameOf(j, c)
      OBVIOUS
    <3> QED
      <4>1. i \in Nat /\ j \in Nat /\ b \in Nat /\ c \in Nat
        BY <2>3, <3>3, PMMAssumption DEF Words, Bits
      <4>2. r.page = FrameOf(i, b)
        BY <2>5
      <4>3. CASE i < j
        BY <3>2, <3>5, <4>2, <4>3
      <4>4. CASE i = j /\ b > c
        BY <3>2, <3>5, <4>2, <4>4
      <4>5. CASE i = j /\ b = c
        BY <3>2, <3>5, <3>7, <4>2, <4>5
      <4>6. i < j \/ (i = j /\ b > c) \/ (i = j /\ b = c)
        BY <3>4, <3>6, <4>1
      <4> QED
        BY <4>3, <4>4, <4>5, <4>6, Zenon
  <2>8. /\ r.bitmap \in [Words -> SUBSET Bits]
        /\ FreeFrames(r.bitmap) = FreeFrames(bm) \ {r.page}
    BY <2>3, <2>4, <2>5, ClearBitFrees
  <2> QED
    BY <2>6, <2>7, <2>8
<1> QED
  BY <1>4, <1>5

(***************************************************************************)
(* The state machine.                                                      *)
(***************************************************************************)

\* The inductive invariant: the type invariant needs the partition's bitmap to
\* be a bitmap, and the partition needs to know that what a call returns was
\* free, which is the contract above.
PMMInv == PMMTypeOK /\ FramePartition

\* pmm_init leaves every frame free.
LEMMA PMMInitInv == PMMInit => PMMInv
<1> SUFFICES ASSUME PMMInit PROVE PMMInv
  OBVIOUS
<1>1. PMMTypeOK
  BY DEF PMMInit, PMMTypeOK
<1>2. FreeFrames(bitmap) = AllFrames
  <2>1. bitmap \in [Words -> SUBSET Bits] /\ \A i \in Words : bitmap[i] = Bits
    BY DEF PMMInit
  <2>2. \A f : f \in FreeFrames(bitmap) <=> \E i \in Words : \E b \in bitmap[i] : f = FrameOf(i, b)
    BY <2>1, FreeFrameHasBit
  <2>3. \A f \in AllFrames : f \in FreeFrames(bitmap)
    BY <2>1, <2>2, FrameHasBit
  <2>4. \A f \in FreeFrames(bitmap) : f \in AllFrames
    BY <2>1, <2>2, FrameOrder
  <2> QED
    BY <2>3, <2>4
<1> QED
  BY <1>1, <1>2 DEF PMMInit, PMMInv, FramePartition

\* What both entry points do to the frames: a call either finds nothing and
\* changes nothing, or moves the lowest candidate from the free frames to the
\* frames of its caller.
LEMMA AllocateStep ==
  ASSUME PMMInv, NEW start \in Nat,
         bitmap' = allocate_page_from(bitmap, start).bitmap,
         last' = allocate_page_from(bitmap, start).page,
         NEW cand, cand = {f \in FreeFrames(bitmap) : f >= ReservedStart + WordBits * StartWord(start)}
  PROVE  /\ bitmap' \in [Words -> SUBSET Bits]
         /\ \/ /\ cand = {}
               /\ last' = NULL
               /\ bitmap' = bitmap
            \/ /\ last' \in cand
               /\ last' \in AllFrames
               /\ last' # NULL
               /\ \A f \in cand : last' <= f
               /\ FreeFrames(bitmap') = FreeFrames(bitmap) \ {last'}
<1> DEFINE r == allocate_page_from(bitmap, start)
<1>1. bitmap \in [Words -> SUBSET Bits]
  BY DEF PMMInv, PMMTypeOK
<1>2. FreeFrames(bitmap) \subseteq AllFrames
  BY DEF PMMInv, FramePartition
<1>3. NULL \notin AllFrames
  BY PMMAssumption DEF NULL, AllFrames
<1>4. \/ cand = {} /\ r.page = NULL /\ r.bitmap = bitmap
      \/ /\ r.page \in cand
         /\ \A f \in cand : r.page <= f
         /\ r.bitmap \in [Words -> SUBSET Bits]
         /\ FreeFrames(r.bitmap) = FreeFrames(bitmap) \ {r.page}
  BY <1>1, AllocateContract
<1> HIDE DEF r
<1>5. bitmap' = r.bitmap /\ last' = r.page
  BY DEF r
<1> QED
  BY <1>1, <1>2, <1>3, <1>4, <1>5

\* Every call preserves the invariant and returns a frame nobody was given.
LEMMA PMMNextInv ==
  ASSUME PMMInv, [PMMNext]_pmmVars
  PROVE  /\ PMMInv'
         /\ [last' # NULL => last' \notin tables \cup pages]_pmmVars
<1>0. ReservedStart \in Nat /\ MEM_START \in Nat
  BY PMMAssumption
<1>1. CASE pmm_allocate_page_table
  <2>1. /\ bitmap' = allocate_page_from(bitmap, ReservedStart).bitmap
        /\ last' = allocate_page_from(bitmap, ReservedStart).page
        /\ tables' = tables \cup ({last'} \ {NULL})
        /\ pages' = pages
    BY <1>1 DEF pmm_allocate_page_table
  <2>2. /\ bitmap' \in [Words -> SUBSET Bits]
        /\ \/ last' = NULL /\ bitmap' = bitmap
           \/ /\ last' \in FreeFrames(bitmap)
              /\ last' \in AllFrames
              /\ last' # NULL
              /\ FreeFrames(bitmap') = FreeFrames(bitmap) \ {last'}
    BY <1>0, <2>1, AllocateStep, ZenonT(30)
  <2> QED
    BY <2>1, <2>2 DEF PMMInv, PMMTypeOK, FramePartition
<1>2. CASE pmm_allocate_page
  <2>1. /\ bitmap' = allocate_page_from(bitmap, MEM_START).bitmap
        /\ last' = allocate_page_from(bitmap, MEM_START).page
        /\ pages' = pages \cup ({last'} \ {NULL})
        /\ tables' = tables
    BY <1>2 DEF pmm_allocate_page
  <2>2. /\ bitmap' \in [Words -> SUBSET Bits]
        /\ \/ last' = NULL /\ bitmap' = bitmap
           \/ /\ last' \in FreeFrames(bitmap)
              /\ last' \in AllFrames
              /\ last' # NULL
              /\ FreeFrames(bitmap') = FreeFrames(bitmap) \ {last'}
    BY <1>0, <2>1, AllocateStep, ZenonT(30)
  <2> QED
    BY <2>1, <2>2 DEF PMMInv, PMMTypeOK, FramePartition
<1>3. CASE UNCHANGED pmmVars
  BY <1>3 DEF pmmVars, PMMInv, PMMTypeOK, FramePartition
<1> QED
  BY <1>1, <1>2, <1>3 DEF PMMNext

\* The bitmap words and the answers of the manager keep their types.
THEOREM PMMTypeCorrect == PMMSpec => []PMMTypeOK
<1>1. PMMInv /\ [PMMNext]_pmmVars => PMMInv'
  BY PMMNextInv
<1>2. PMMInv => PMMTypeOK
  BY DEF PMMInv
<1> QED
  BY PMMInitInv, <1>1, <1>2, PTL DEF PMMSpec

\* Free frames, page-table frames and data frames partition the memory.
THEOREM PMMPartition == PMMSpec => []FramePartition
<1>1. PMMInv /\ [PMMNext]_pmmVars => PMMInv'
  BY PMMNextInv
<1>2. PMMInv => FramePartition
  BY DEF PMMInv
<1> QED
  BY PMMInitInv, <1>1, <1>2, PTL DEF PMMSpec

\* allocate_page_from never returns a frame twice, whichever entry point asks.
THEOREM PMMNeverTwice == PMMSpec => NoDoubleAllocation
<1>1. PMMInv /\ [PMMNext]_pmmVars => PMMInv'
  BY PMMNextInv
<1>2. PMMInv /\ [PMMNext]_pmmVars => [last' # NULL => last' \notin tables \cup pages]_pmmVars
  BY PMMNextInv
<1> QED
  BY PMMInitInv, <1>1, <1>2, PTL DEF PMMSpec, NoDoubleAllocation

\* The bitmap search implements the abstract pool of frames.
THEOREM PMMImplementsPool == PMMSpec => ImplementsPool
<1>1. PMMInit => Pool!Init
  BY PMMInitInv DEF PMMInit, PMMInv, FramePartition, Pool!Init
<1>2. PMMInv /\ [PMMNext]_pmmVars => [Pool!Next]_<<FreeFrames(bitmap), last>>
  <2> SUFFICES ASSUME PMMInv, [PMMNext]_pmmVars
               PROVE  [Pool!Next]_<<FreeFrames(bitmap), last>>
    OBVIOUS
  <2> DEFINE Asks(start) ==
               /\ bitmap' = allocate_page_from(bitmap, start).bitmap
               /\ last' = allocate_page_from(bitmap, start).page
  <2>1. ASSUME NEW start \in Nat, Asks(start)
        PROVE  Pool!Allocate(ReservedStart + WordBits * StartWord(start))
    <3> DEFINE cand == {f \in FreeFrames(bitmap) : f >= ReservedStart + WordBits * StartWord(start)}
    <3>1. \/ cand = {} /\ last' = NULL /\ bitmap' = bitmap
          \/ /\ last' \in cand
             /\ \A f \in cand : last' <= f
             /\ FreeFrames(bitmap') = FreeFrames(bitmap) \ {last'}
      BY <2>1, AllocateStep, Zenon
    <3>2. CASE cand = {} /\ last' = NULL /\ bitmap' = bitmap
      BY <3>2 DEF Pool!Allocate
    <3>3. CASE /\ last' \in cand
               /\ \A f \in cand : last' <= f
               /\ FreeFrames(bitmap') = FreeFrames(bitmap) \ {last'}
      <4>1. cand # {}
        BY <3>3
      <4> HIDE DEF cand
      <4>2. Pool!Allocate(ReservedStart + WordBits * StartWord(start)) <=>
              IF cand = {} THEN last' = NULL /\ UNCHANGED FreeFrames(bitmap)
              ELSE /\ last' \in cand
                   /\ \A f \in cand : last' <= f
                   /\ FreeFrames(bitmap') = FreeFrames(bitmap) \ {last'}
        BY DEF Pool!Allocate, cand
      <4> QED
        BY <3>3, <4>1, <4>2
    <3> QED
      BY <3>1, <3>2, <3>3
  <2>2. CASE pmm_allocate_page_table
    <3>1. Asks(ReservedStart)
      BY <2>2 DEF pmm_allocate_page_table
    <3>2. ReservedStart + WordBits * StartWord(ReservedStart) = BaseOf(ReservedStart)
      BY PMMAssumption, StartWordBase
    <3>3. Pool!Allocate(BaseOf(ReservedStart))
      BY <2>1, <3>1, <3>2, PMMAssumption
    <3> QED
      BY <3>3 DEF Pool!Next
  <2>3. CASE pmm_allocate_page
    <3>1. Asks(MEM_START)
      BY <2>3 DEF pmm_allocate_page
    <3>2. ReservedStart + WordBits * StartWord(MEM_START) = BaseOf(MEM_START)
      BY PMMAssumption, StartWordBase
    <3>3. Pool!Allocate(BaseOf(MEM_START))
      BY <2>1, <3>1, <3>2, PMMAssumption
    <3> QED
      BY <3>3 DEF Pool!Next
  <2>4. CASE UNCHANGED pmmVars
    BY <2>4 DEF pmmVars
  <2>5. pmm_allocate_page_table \/ pmm_allocate_page \/ UNCHANGED pmmVars
    BY Zenon DEF PMMNext
  <2> HIDE DEF Asks
  <2> QED
    BY <2>2, <2>3, <2>4, <2>5, Zenon
<1>3. PMMInv /\ [PMMNext]_pmmVars => PMMInv'
  BY PMMNextInv
<1> QED
  BY PMMInitInv, <1>1, <1>2, <1>3, PTL DEF PMMSpec, ImplementsPool, Pool!Spec

===============================================================================
