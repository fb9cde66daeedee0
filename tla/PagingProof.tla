---------------------------- MODULE PagingProof -----------------------------
(***************************************************************************)
(* Proofs about Paging, for tables of any size, any sections of the image, *)
(* any heap and any sequence of mappings, accesses and frees.              *)
(***************************************************************************)
EXTENDS PagingMapProof, FiniteSetTheorems, WellFoundedInduction

------------------------------------------------------------------------------
(* The pool has the frames that vmm_map_memory takes *)

\* A nonempty set of naturals has a least element, which Min returns.
LEMMA MinIs ==
  ASSUME NEW S \in SUBSET Nat, S # {}
  PROVE  Min(S) \in S /\ \A y \in S : Min(S) <= y
<1> DEFINE R == OpToRel(<, Nat)
<1>1. IsWellFoundedOn(R, Nat)
  BY NatLessThanWellFounded, Zenon
<1>2. \A a, b \in Nat : a < b => <<a, b>> \in R
  BY DEF OpToRel
<1> HIDE DEF R
<1>3. PICK x \in S : \A y \in S : ~(<<y, x>> \in R)
  BY <1>1, WFMin, Zenon
<1>4. \A y \in S : ~(y < x)
  BY <1>2, <1>3, Zenon
<1>5. \A y \in S : x <= y
  BY <1>4
<1> QED
  BY <1>5, Zenon DEF Min

\* pmm_find_free: the lowest free frame from base on, if there is one.
LEMMA LowestIs ==
  ASSUME NEW frames \in SUBSET Nat, NEW base \in Nat, NEW g \in frames, g >= base
  PROVE  /\ Lowest(frames, base) \in frames /\ Lowest(frames, base) >= base
         /\ Lowest(frames, base) <= g
<1> DEFINE S == {f \in frames : f >= base}
<1>1. S \in SUBSET Nat /\ g \in S
  BY Zenon
<1>2. Lowest(frames, base) = Min(S)
  BY <1>1 DEF Lowest
<1>3. Min(S) \in S /\ \A y \in S : Min(S) <= y
  BY <1>1, MinIs
<1> QED
  BY <1>1, <1>2, <1>3

\* Each number of an interval is the value of a member of S: there are as many.
LEMMA Pigeons ==
  ASSUME NEW a \in Nat, NEW b \in Nat, NEW S, IsFiniteSet(S), NEW g,
         \A f \in a .. b : \E s \in S : g[s] = f
  PROVE  b - a + 1 <= Cardinality(S)
<1> DEFINE h == [f \in a .. b |-> CHOOSE s \in S : g[s] = f]
<1>1. \A f \in a .. b : h[f] \in S /\ g[h[f]] = f
  OBVIOUS
<1>2. h \in Injection(a .. b, S)
  BY <1>1 DEF Injection, IsInjective
<1>3. Cardinality(a .. b) <= Cardinality(S) /\ Cardinality(S) \in Nat
  <2> HIDE DEF h
  <2> QED BY <1>2, FS_Injection, FS_CardinalityType
<1>4. Cardinality(a .. b) = IF a > b THEN 0 ELSE b - a + 1
  BY FS_Interval
<1> QED
  BY <1>3, <1>4

\* As long as a page of the heap has no table there is a frame for one, below
\* the frames for data.
LEMMA TableRoom ==
  ASSUME Tree, Frames, NEW i \in 1 .. ENTRIES - 1, i \in HeapIndices, ~table[PDT][i].present
  PROVE  /\ Lowest(free, TableBase) \in free
         /\ Lowest(free, TableBase) \in FIRST_FREE_PAGE .. DataBase - 1
         /\ Lowest(free, TableBase) \notin DOMAIN table
<1> DEFINE q == MAX_HEAP_SIZE \div ENTRIES
           g == [j \in 0 .. ENTRIES - 1 |-> table[PDT][j].frame]
<1>1. q \in Nat /\ FIRST_FREE_PAGE \in Nat /\ DataBase \in Nat /\ FIRST_FREE_PAGE + q + 1 <= DataBase
  BY Sizing
<1>2. IsFiniteSet(HeapIndices) /\ Cardinality(HeapIndices) = q + 1
  <2>1. q + 1 \in Int /\ ~(1 > q + 1) /\ q + 1 - 1 + 1 = q + 1
    BY <1>1
  <2> QED BY <2>1, FS_Interval DEF HeapIndices
<1>3. IsFiniteSet(HeapIndices \ {i}) /\ Cardinality(HeapIndices \ {i}) = q
  <2>1. /\ IsFiniteSet(HeapIndices \ {i})
        /\ Cardinality(HeapIndices \ {i}) =
             IF i \in HeapIndices THEN Cardinality(HeapIndices) - 1 ELSE Cardinality(HeapIndices)
    BY <1>2, FS_RemoveElement
  <2>2. q + 1 - 1 = q
    BY <1>1
  <2>3. Cardinality(HeapIndices \ {i}) = Cardinality(HeapIndices) - 1
    BY <2>1, Zenon
  <2> HIDE DEF q
  <2> QED BY <1>1, <1>2, <2>1, <2>3
<1>4. \E f \in FIRST_FREE_PAGE .. DataBase - 1 : f \in free
  <2> SUFFICES ASSUME \A f \in FIRST_FREE_PAGE .. DataBase - 1 : f \notin free PROVE FALSE
    OBVIOUS
  <2>1. ASSUME NEW f \in FIRST_FREE_PAGE .. DataBase - 1 PROVE \E j \in HeapIndices \ {i} : g[j] = f
    <3>1. f \in DOMAIN table
      BY DEF Frames
    <3>2. f \notin BootFrames
      BY <1>1, BootTablesApart
    <3>3. PICK j \in 1 .. ENTRIES - 1 : table[PDT][j].present /\ table[PDT][j].frame = f
      BY <3>1, <3>2, Zenon DEF Tree, IsTree
    <3>4. j \in HeapIndices /\ j # i
      BY <3>3 DEF Tree, IsTree
    <3>5. g[j] = f
      BY <3>3, Sizing
    <3> QED BY <3>4, <3>5, Zenon
  <2>2. DataBase - 1 \in Nat /\ DataBase - 1 - FIRST_FREE_PAGE + 1 > q
    BY <1>1
  <2> HIDE DEF g, q
  <2>3. DataBase - 1 - FIRST_FREE_PAGE + 1 <= Cardinality(HeapIndices \ {i})
    BY <1>1, <1>3, <2>1, <2>2, Pigeons, Zenon
  <2> QED BY <1>1, <1>3, <2>2, <2>3
<1>5. PICK f \in FIRST_FREE_PAGE .. DataBase - 1 : f \in free
  BY <1>4, Zenon
<1>6. free \in SUBSET Nat /\ f >= FIRST_FREE_PAGE
  BY <1>1, <1>5, Sizing DEF Frames
<1>7. /\ Lowest(free, TableBase) \in free /\ Lowest(free, TableBase) >= FIRST_FREE_PAGE
      /\ Lowest(free, TableBase) <= f
  BY <1>1, <1>5, <1>6, LowestIs, Zenon DEF TableBase
<1>8. Lowest(free, TableBase) \in FIRST_FREE_PAGE .. DataBase - 1
  <2>1. Lowest(free, TableBase) \in Nat
    BY <1>6, <1>7, Zenon
  <2>2. f \in Nat /\ f <= DataBase - 1
    BY <1>1, <1>5
  <2> QED BY <1>1, <1>7, <2>1, <2>2
<1> QED
  BY <1>7, <1>8 DEF Frames

\* As long as a page of the heap is not mapped there is a frame for it.
LEMMA DataRoom ==
  ASSUME Frames, NEW v \in Heap, ~Mapped(v), NEW pool \in SUBSET Nat,
         \A f \in Nat : f >= DataBase => (f \in pool <=> f \in free)
  PROVE  /\ Lowest(pool, DataBase) \in pool /\ Lowest(pool, DataBase) \in free
         /\ Lowest(pool, DataBase) \in DataBase .. LastFrame
<1> DEFINE g == [w \in Heap |-> Leaf(w).frame]
<1>1. /\ MAX_HEAP_SIZE \in Nat /\ MAX_HEAP_SIZE >= 1 /\ ENTRIES \in Nat /\ DataBase \in Nat /\ LastFrame \in Nat
      /\ MAX_HEAP_SIZE <= LastFrame - DataBase + 1
  BY Sizing
<1>2. IsFiniteSet(Heap) /\ Cardinality(Heap) = MAX_HEAP_SIZE
  <2>1. PICK a \in Int, b \in Int : a = ENTRIES /\ b = ENTRIES + MAX_HEAP_SIZE - 1
    BY <1>1
  <2>2. Heap = a .. b
    BY <2>1 DEF Heap, HEAP_START
  <2>3. IsFiniteSet(a .. b) /\ Cardinality(a .. b) = IF a > b THEN 0 ELSE b - a + 1
    BY FS_Interval
  <2>4. ~(a > b) /\ b - a + 1 = MAX_HEAP_SIZE
    BY <1>1, <2>1
  <2> QED BY <2>2, <2>3, <2>4
<1>3. IsFiniteSet(Heap \ {v}) /\ Cardinality(Heap \ {v}) = MAX_HEAP_SIZE - 1
  BY <1>2, FS_RemoveElement
<1>4. \E f \in DataBase .. LastFrame : f \in free
  <2> SUFFICES ASSUME \A f \in DataBase .. LastFrame : f \notin free PROVE FALSE
    OBVIOUS
  <2>1. ASSUME NEW f \in DataBase .. LastFrame PROVE \E w \in Heap \ {v} : g[w] = f
    <3>1. PICK w \in Heap : Mapped(w) /\ Leaf(w).frame = f
      BY DEF Frames
    <3> QED BY <3>1
  <2> HIDE DEF g
  <2>2. LastFrame - DataBase + 1 <= Cardinality(Heap \ {v})
    BY <1>1, <1>3, <2>1, Pigeons, Zenon
  <2> QED BY <1>1, <1>3, <2>2
<1>5. PICK f \in DataBase .. LastFrame : f \in free
  BY <1>4
<1>6. f \in pool /\ f >= DataBase
  BY <1>1, <1>5
<1>7. Lowest(pool, DataBase) \in pool /\ Lowest(pool, DataBase) >= DataBase /\ Lowest(pool, DataBase) <= f
  BY <1>1, <1>6, LowestIs, Zenon
<1>8. Lowest(pool, DataBase) \in Nat
  BY <1>7, Zenon
<1>9. f \in Nat /\ f <= LastFrame
  BY <1>1, <1>5
<1>10. Lowest(pool, DataBase) \in DataBase .. LastFrame
  BY <1>1, <1>7, <1>8, <1>9
<1> QED
  BY <1>7, <1>8, <1>10, Zenon

\* The frames that vmm_map_memory chooses.
LEMMA Chosen ==
  ASSUME Tree, Frames, Spans, NEW v \in Heap
  PROVE  FramesChosen(v)
<1> DEFINE i == v \div ENTRIES
           k == v % ENTRIES
<1>1. i \in 0 .. ENTRIES - 1 /\ k \in 0 .. ENTRIES - 1 /\ i \in HeapIndices /\ i \in 1 .. ENTRIES - 1
  BY Indices, Sizing
<1>2. Directory(v).present => TableOf(v) \in DOMAIN table \ BootFrames /\ TableOf(v) = Directory(v).frame
  BY <1>1, Zenon DEF Tree, IsTree, TableOf, Directory
<1>3. ~Directory(v).present => /\ TableOf(v) \in free /\ TableOf(v) \notin DOMAIN table
                               /\ TableOf(v) \in FIRST_FREE_PAGE .. DataBase - 1
  BY <1>1, TableRoom DEF TableOf, Directory
<1>3a. TableOf(v) \in FIRST_FREE_PAGE .. DataBase - 1 /\ TableOf(v) \notin BootFrames
  BY <1>2, <1>3, Zenon DEF Tree, IsTree
<1>4. CASE Mapped(v)
  <2>1. Directory(v).frame \in DOMAIN table
    BY <1>2, <1>4 DEF Mapped
  <2>2. Leaf(v) \in Entries
    <3>1. table[Directory(v).frame] \in [0 .. ENTRIES - 1 -> Entries]
      BY <2>1 DEF Tree, IsTree
    <3> QED BY <1>1, <3>1, Zenon DEF Leaf
  <2>3. FrameOf(v) = Leaf(v).frame /\ Leaf(v).frame \in Nat
    BY <1>4, <2>2, Zenon DEF FrameOf, Entries
  <2> QED BY <1>2, <1>3, <1>3a, <1>4, <2>3, SMTT(15) DEF FramesChosen
<1>5. CASE ~Mapped(v) /\ job.physical # NULL
  <2>1. FrameOf(v) = job.physical /\ Device(job.physical) /\ job.physical \in Nat
    BY <1>5 DEF FrameOf, Spans
  <2> QED BY <1>2, <1>3, <1>3a, <1>5, <2>1, SMTT(15) DEF FramesChosen
<1>6. CASE ~Mapped(v) /\ job.physical = NULL
  <2>1. FrameOf(v) = Lowest(free, DataBase)
    BY <1>6 DEF FrameOf
  <2>2. free \in SUBSET Nat
    BY Sizing DEF Frames
  <2>3. Lowest(free, DataBase) \in free /\ Lowest(free, DataBase) \in DataBase .. LastFrame
    BY <1>6, <2>2, DataRoom, Zenon
  <2> QED BY <1>2, <1>3, <1>3a, <1>6, <2>1, <2>2, <2>3, SMTT(15) DEF FramesChosen
<1> QED
  BY <1>4, <1>5, <1>6

\* So vmm_map_memory maps the next page of its call.
LEMMA MapsChosen ==
  ASSUME PagingInv, vmm_map_memory
  PROVE  \E v : MapsPage(v)
<1>1. PICK v : v = job.virtual
  OBVIOUS
<1>2. Tree /\ Frames /\ Spans
  BY DEF PagingInv
<1>3. v \in Heap
  BY <1>1, <1>2 DEF Spans, Pending, vmm_map_memory
<1>4. FramesChosen(v)
  BY <1>2, <1>3, Chosen, Zenon
<1> QED
  BY <1>1, <1>4, Zenon DEF MapsPage

------------------------------------------------------------------------------
(* Invariance *)

\* Every step keeps the invariant.
LEMMA StepInv == PagingInv /\ [Next]_vars => PagingInv'
<1> SUFFICES ASSUME PagingInv, [Next]_vars PROVE PagingInv'
  OBVIOUS
<1>1. CASE vmm_map_memory
  BY <1>1, MapsChosen, MappingKeeps, Zenon
<1>2. CASE vmm_set_page_permissions
  BY <1>2, PermissionsKeep, Zenon
<1>3. CASE \/ MapBase \/ MapFrameBuffer
           \/ \E pages \in Sizes : liballoc_alloc(pages)
           \/ \E physical \in {NULL, FrameBuffer}, pages \in Sizes : mmap(physical, pages)
  BY <1>3, CallsKeep, Zenon
<1>4. CASE \E s \in held : liballoc_free(s)
  BY <1>4, FreeingKeeps
<1>5. CASE (\E v \in Watched : Access(v)) \/ (\E v \in DOMAIN tlb : Evict(v))
  BY <1>5, ProcessorKeeps
<1>6. CASE UNCHANGED vars
  <2>0. Tree /\ Frames /\ Identity /\ Flags /\ Spans /\ Remembered
    BY DEF PagingInv
  <2>1. /\ free' = free /\ table' = table /\ tlb' = tlb /\ phase' = phase /\ job' = job
        /\ hfree' = hfree /\ held' = held /\ users' = users /\ grown' = grown
    BY <1>6 DEF vars
  <2>2. Tree' /\ Frames' /\ Identity'
    BY <2>0, <2>1, SameTables, SameFrames, SameIdentity, Zenon
  <2>3. Flags' /\ Spans'
    BY <2>0, <2>1, SameFlags, SameSpans, Zenon
  <2>4. Remembered'
    <3>1. (\A v : Mapped(v)' <=> Mapped(v)) /\ (\A v : Leaf(v)' = Leaf(v)) /\ UserPages' = UserPages
      BY <2>1, SameTables, SameUsers, Zenon
    <3> QED BY <2>0, <2>1, <3>1 DEF Remembered, OSPages
  <2> QED BY <2>2, <2>3, <2>4, Zenon DEF PagingInv
<1> QED
  BY <1>1, <1>2, <1>3, <1>4, <1>5, <1>6 DEF Next

\* So it holds all the time.
LEMMA Invariance == Spec => []PagingInv
BY InitInv, StepInv, PTL DEF Spec

\* Every step keeps what is said of the rights in the TLB.
LEMMA StepRights == PagingInv /\ TlbRights /\ [Next]_vars => TlbRights'
<1> SUFFICES ASSUME PagingInv, TlbRights, [Next]_vars PROVE TlbRights'
  OBVIOUS
<1>1. CASE vmm_map_memory
  BY <1>1, MapsChosen, MappingRights, Zenon
<1>2. CASE vmm_set_page_permissions
  BY <1>2, PermissionsRights, Zenon
<1>3. CASE \/ MapBase \/ MapFrameBuffer
           \/ \E pages \in Sizes : liballoc_alloc(pages)
           \/ \E physical \in {NULL, FrameBuffer}, pages \in Sizes : mmap(physical, pages)
  BY <1>3, CallsRights, Zenon
<1>4. CASE \E s \in held : liballoc_free(s)
  BY <1>4, FreeingRights, Zenon
<1>5. CASE (\E v \in Watched : Access(v)) \/ (\E v \in DOMAIN tlb : Evict(v))
  BY <1>5, ProcessorRights, Zenon
<1>6. CASE UNCHANGED vars
  <2>1. /\ table' = table /\ tlb' = tlb /\ phase' = phase /\ job' = job /\ hfree' = hfree
        /\ users' = users /\ grown' = grown /\ recycled' = recycled
    BY <1>6 DEF vars
  <2>2. (\A v : Mapped(v)' <=> Mapped(v)) /\ UserPages' = UserPages /\ Pending' = Pending
    BY <2>1, SameTables, SameUsers, SameJob, Zenon
  <2> QED BY <2>1, <2>2, Zenon DEF TlbRights
<1> QED
  BY <1>1, <1>2, <1>3, <1>4, <1>5, <1>6 DEF Next

\* So that holds all the time too.
LEMMA RightsInvariance == Spec => []TlbRights
<1>1. Init => TlbRights
  BY InitInv, InitRights
<1> QED
  BY <1>1, Invariance, StepRights, PTL DEF Spec

------------------------------------------------------------------------------
(* Theorems *)

\* The variables keep their types, and the pages that are still to be mapped are
\* pages of the heap.
THEOREM PagingTypeCorrect == Spec => []PagingTypeOK
<1>1. PagingInv /\ TlbRights => PagingTypeOK
  BY DEF PagingInv, Tree, IsTree, Frames, Spans, Remembered, TlbRights, PagingTypeOK
<1> QED
  BY <1>1, Invariance, RightsInvariance, PTL

\* However much is mapped, the kernel reaches every page table where it looks
\* for it, a table has one place in the tree, and no frame is a table and free.
THEOREM PagingTablesReachable == Spec => []TablesReachable
<1>1. ASSUME PagingInv PROVE TablesReachable
  <2>0. Tree /\ Frames /\ Identity
    BY <1>1 DEF PagingInv
  <2>1. ASSUME NEW v \in Low PROVE Walk(v).present /\ Walk(v).frame = v
    <3>1. Mapped(v) /\ Leaf(v).frame = v
      BY <2>0, LowPage, Zenon
    <3> QED BY <2>0, <3>1, WalkIs, Zenon
  <2>2. DOMAIN table \subseteq Low
    <3>1. \A t \in BootFrames \cup (FIRST_FREE_PAGE .. DataBase - 1) : t \in Low
      BY BootTablesApart, Sizing DEF Low
    <3> QED BY <2>0, <3>1 DEF Tree, IsTree
  <2>3. ASSUME NEW t \in DOMAIN table PROVE Walk(t).write
    <3>1. t \notin ReadOnly
      <4>1. CASE t \in BootFrames
        BY <4>1, BootTablesApart, OneSection, Zenon DEF ReadOnly, OSPages
      <4>2. CASE t \in FIRST_FREE_PAGE .. DataBase - 1
        <5>1. \A i \in DOMAIN Sections : Sections[i] \subseteq BOOT_START .. FIRST_FREE_PAGE - 1
          BY PagingAssumption
        <5>2. t \notin BOOT_START .. FIRST_FREE_PAGE - 1
          BY <4>2, Sizing, BootTablesApart
        <5>3. /\ 2 \in DOMAIN Sections /\ 3 \in DOMAIN Sections /\ 6 \in DOMAIN Sections /\ 7 \in DOMAIN Sections
              /\ Sections[2] = KERNEL_TEXT /\ Sections[3] = KERNEL_RODATA
              /\ Sections[6] = OS_TEXT /\ Sections[7] = OS_RODATA
          BY DEF Sections
        <5> QED BY <5>1, <5>2, <5>3, Zenon DEF ReadOnly
      <4> QED BY <2>0, <4>1, <4>2, Zenon DEF Tree, IsTree
    <3>2. t \in Low
      BY <2>2
    <3>3. Mapped(t) /\ Leaf(t).write
      BY <2>0, <3>1, <3>2, LowPage, Zenon
    <3> QED BY <2>0, <3>2, <3>3, WalkIs, Zenon
  <2>4. DOMAIN table \cap free = {}
    <3>1. \A t \in DOMAIN table : t \notin free
      <4>1. ASSUME NEW t \in BootFrames PROVE t \notin free
        <5>1. t \in Nat /\ t < FIRST_FREE_PAGE /\ FIRST_FREE_PAGE \in Nat /\ LastFrame \in Nat
          BY BootTablesApart, Sizing
        <5>2. t \notin FIRST_FREE_PAGE .. LastFrame
          BY <5>1
        <5> QED BY <2>0, <5>2, Zenon DEF Frames
      <4> QED BY <2>0, <4>1 DEF Tree, IsTree, Frames
    <3> QED BY <3>1, Zenon
  <2>5. ASSUME NEW t \in DOMAIN table \ {PML4T, PDPT, PDT, PT}
        PROVE  Cardinality({i \in 0 .. ENTRIES - 1 : table[PDT][i].present /\ table[PDT][i].frame = t}) = 1
    <3>1. PICK j \in 1 .. ENTRIES - 1 : table[PDT][j].present /\ table[PDT][j].frame = t
      BY <2>0, Zenon DEF Tree, IsTree, BootFrames
    <3>2. ASSUME NEW i \in 0 .. ENTRIES - 1, table[PDT][i].present, table[PDT][i].frame = t PROVE i = j
      <4>1. i # 0
        BY <2>0, <3>2, Zenon DEF Tree, IsTree, Points
      <4>2. i \in 1 .. ENTRIES - 1
        BY <4>1, Sizing
      <4> QED BY <2>0, <3>1, <3>2, <4>2, Zenon DEF Tree, IsTree
    <3>3. j \in 0 .. ENTRIES - 1
      BY Sizing
    <3>4. {i \in 0 .. ENTRIES - 1 : table[PDT][i].present /\ table[PDT][i].frame = t} = {j}
      BY <3>1, <3>2, <3>3, SMTT(15)
    <3> QED BY <3>4, FS_Singleton, Zenon
  <2> QED BY <2>1, <2>2, <2>3, <2>4, <2>5 DEF TablesReachable
<1> QED
  BY <1>1, Invariance, PTL

\* No two heap pages ever share a frame of RAM, and none has a frame of the
\* pool, of a page table or of the image.
THEOREM PagingFramesExclusive == Spec => []FramesExclusive
<1>1. ASSUME PagingInv PROVE FramesExclusive
  <2>0. Tree /\ Frames
    BY <1>1 DEF PagingInv
  <2>1. \A v \in Heap : (Walk(v).present <=> Mapped(v)) /\ (Mapped(v) => Walk(v).frame = Leaf(v).frame)
    BY <2>0, WalkIs, Zenon
  <2>2. ASSUME NEW v \in Heap, Mapped(v), ~Device(Leaf(v).frame)
        PROVE  /\ Leaf(v).frame \in FIRST_FREE_PAGE .. LastFrame
               /\ Leaf(v).frame \notin free \cup DOMAIN table
    <3>1. Leaf(v).frame \in (DataBase .. LastFrame) \ free
      BY <2>0, <2>2, Zenon DEF Frames
    <3>2. \A f \in DataBase .. LastFrame :
            f \in FIRST_FREE_PAGE .. LastFrame /\ f \notin FIRST_FREE_PAGE .. DataBase - 1 /\ ~(f < FIRST_FREE_PAGE)
      BY Sizing
    <3>3. Leaf(v).frame \notin DOMAIN table
      BY <2>0, <3>1, <3>2, BootTablesApart, Zenon DEF Tree, IsTree
    <3> QED BY <3>1, <3>2, <3>3, Zenon
  <2>3. \A v, w \in Heap : Mapped(v) /\ Mapped(w) /\ ~Device(Leaf(v).frame) /\ Leaf(v).frame = Leaf(w).frame
                             => v = w
    BY <2>0 DEF Frames
  <2> QED BY <2>1, <2>2, <2>3 DEF FramesExclusive
<1> QED
  BY <1>1, Invariance, PTL

\* Every page of every span that a caller holds is mapped, once its call returned.
THEOREM PagingSpansMapped == Spec => []SpansMapped
<1>1. ASSUME PagingInv PROVE SpansMapped
  <2>1. ASSUME NEW s \in held, NEW v \in Space!Pages(s) \ Pending PROVE Walk(v).present
    <3>1. Mapped(v) /\ v \in Heap /\ Tree
      BY <1>1, SMTT(15) DEF PagingInv, Spans
    <3> QED BY <3>1, WalkIs, Zenon
  <2> QED BY <2>1 DEF SpansMapped
<1> QED
  BY <1>1, Invariance, PTL

\* Ring 3 never reaches more than its own sections and spans, through the tables
\* or through what the TLB kept.
THEOREM PagingUserConfined == Spec => []UserConfined
<1>1. ASSUME PagingInv PROVE UserConfined
  <2>0. Tree /\ Identity /\ Flags /\ Remembered
    BY <1>1 DEF PagingInv
  <2>1. ASSUME NEW v \in Low \cup Heap, Walk(v).user PROVE v \in OSPages \cup UserPages
    <3>1. Mapped(v) /\ Leaf(v).user
      BY <2>0, <2>1, WalkIs, Zenon
    <3>2. CASE v \in Low
      BY <2>0, <3>1, <3>2, LowPage, Zenon
    <3>3. CASE v \in Heap
      BY <2>0, <3>1, <3>3 DEF Flags
    <3> QED BY <3>2, <3>3
  <2> QED BY <2>0, <2>1 DEF UserConfined, Remembered
<1> QED
  BY <1>1, Invariance, PTL

\* As long as the kernel maps nothing for itself, the OS reaches its sections
\* and every page it mapped, and no translation that the TLB kept is in its way:
\* the only ones that could be are of pages that the heap had served and freed
\* before, and of the data of the OS, which is not flushed.
THEOREM PagingUserReaches == Spec => []UserReaches
<1>1. ASSUME PagingInv, TlbRights PROVE UserReaches
  <2>0. Tree /\ Flags /\ Spans
    BY <1>1 DEF PagingInv
  <2>1. ASSUME phase = "user", ~grown, NEW v \in OSPages \cup (UserPages \ Pending)
        PROVE  /\ Walk(v).user
               /\ v \in DOMAIN tlb /\ ~tlb[v].user => v \in recycled \cup (OSPages \ OS_TEXT)
    <3>1. v \in Low \cup Heap
      BY <2>0, <2>1, ImageIsLow, UserPagesInHeap, Zenon
    <3>2. Mapped(v) /\ table[PML4T][0].user /\ table[PDPT][0].user /\ Directory(v).user /\ Leaf(v).user
      BY <2>0, <2>1, Zenon DEF Flags
    <3>3. Walk(v).user
      BY <2>0, <3>1, <3>2, WalkIs, Zenon
    <3>4. ASSUME v \in DOMAIN tlb, ~tlb[v].user PROVE v \in recycled \cup (OSPages \ OS_TEXT)
      BY <1>1, <2>1, <3>4, Zenon DEF TlbRights
    <3> QED BY <3>3, <3>4, Zenon
  <2> QED BY <2>1, Zenon DEF UserReaches
<1> QED
  BY <1>1, Invariance, RightsInvariance, PTL

\* Once the permissions are set, text is read only and nothing else runs.
THEOREM PagingWriteXorExecute == Spec => []WriteXorExecute
<1> DEFINE Fixed == KERNEL_TEXT \cup KERNEL_RODATA \cup OS_TEXT \cup OS_RODATA
           Code == KERNEL_TEXT \cup OS_TEXT
           Image == UNION {Sections[i] : i \in 2 .. Len(Sections)}
<1>1. ASSUME PagingInv, phase = "user", NEW v \in Heap \cup Image, Walk(v).present
      PROVE  (Walk(v).write = (v \notin Fixed)) /\ (Walk(v).nx = (v \notin Code))
  <2>0. Tree /\ Identity /\ Flags
    BY <1>1 DEF PagingInv
  <2>1. CASE v \in Heap
    <3>1. v \notin Low
      BY <2>1, Sizing DEF Heap, HEAP_START, Low
    <3>2. v \notin Fixed /\ v \notin Code
      BY <3>1, ImageIsLow DEF OSPages
    <3>3. Mapped(v) /\ Walk(v).write = Leaf(v).write /\ Walk(v).nx = Leaf(v).nx
      BY <1>1, <2>0, <2>1, WalkIs, Zenon
    <3>4. Leaf(v).write /\ Leaf(v).nx
      BY <2>0, <2>1, <3>3 DEF Flags
    <3>5. Leaf(v) \in Entries
      <4>1. v \div ENTRIES \in 1 .. ENTRIES - 1 /\ v % ENTRIES \in 0 .. ENTRIES - 1
        BY <2>1, Indices, Sizing
      <4>2. Directory(v).frame \in DOMAIN table
        BY <2>0, <3>3, <4>1, Zenon DEF Tree, IsTree, Mapped, Directory
      <4>3. table[Directory(v).frame] \in [0 .. ENTRIES - 1 -> Entries]
        BY <2>0, <4>2, Zenon DEF Tree, IsTree
      <4> QED BY <4>1, <4>3, Zenon DEF Leaf
    <3>6. Leaf(v).write = TRUE /\ Leaf(v).nx = TRUE
      BY <3>4, <3>5, Zenon DEF Entries
    <3> QED BY <3>2, <3>3, <3>6, Zenon
  <2>2. CASE v \in Image
    <3>1. v \in KERNEL_TEXT \cup KERNEL_RODATA \cup KERNEL_DATA \cup KERNEL_BSS \cup OSPages
      <4>1. PICK i \in 2 .. 9 : v \in Sections[i]
        BY <2>2, Zenon DEF Sections
      <4>2. i = 2 \/ i = 3 \/ i = 4 \/ i = 5 \/ i = 6 \/ i = 7 \/ i = 8 \/ i = 9
        OBVIOUS
      <4> QED BY <4>1, <4>2 DEF Sections, OSPages
    <3>2. v \in Low
      BY <3>1, ImageIsLow, Zenon
    <3>3. Mapped(v) /\ Leaf(v).write = (v \notin ReadOnly) /\ Leaf(v).nx = (v \in NoExecute)
      BY <1>1, <2>0, <3>2, LowPage
    <3>4. Walk(v).write = Leaf(v).write /\ Walk(v).nx = Leaf(v).nx
      BY <2>0, <3>2, <3>3, WalkIs, Zenon
    <3>5. v \in NoExecute <=> v \notin Code
      BY <3>1, OneSection, Zenon DEF NoExecute, OSPages
    <3>6. v \notin ReadOnly <=> v \notin Fixed
      BY Zenon DEF ReadOnly
    <3> QED BY <3>3, <3>4, <3>5, <3>6
  <2> QED BY <2>1, <2>2
<1>2. ASSUME PagingInv PROVE WriteXorExecute
  <2>1. ASSUME phase = "user", NEW v \in Heap \cup Image, Walk(v).present
        PROVE  (Walk(v).write = (v \notin Fixed)) /\ (Walk(v).nx = (v \notin Code))
    BY <1>1, <1>2, <2>1, Zenon
  <2> QED BY <2>1, Zenon DEF WriteXorExecute
<1> QED
  BY <1>2, Invariance, PTL

\* A translation that the TLB kept leads to the frame in the tables, although
\* not every change of an entry is followed by an invlpg of its page.
THEOREM PagingTlbSameFrame == Spec => []TlbSameFrame
<1>1. ASSUME PagingInv PROVE TlbSameFrame
  <2>1. ASSUME NEW v \in DOMAIN tlb PROVE Walk(v).present /\ tlb[v].frame = Walk(v).frame
    <3>1. Mapped(v) /\ tlb[v].frame = Leaf(v).frame /\ v \in Low \cup Heap /\ Tree
      BY <1>1, PagingAssumption, Zenon DEF PagingInv, Remembered
    <3> QED BY <3>1, WalkIs, Zenon
  <2> QED BY <2>1 DEF TlbSameFrame
<1> QED
  BY <1>1, Invariance, PTL
=============================================================================
