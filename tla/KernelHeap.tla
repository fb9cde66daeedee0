----------------------------- MODULE KernelHeap -----------------------------
(***************************************************************************)
(* The kernel heap: kmalloc, kfree and krealloc of                         *)
(* src/ports/liballoc/liballoc_1_1.c on top of vmm_mmap and vmm_free_pages *)
(* of src/src/kernel/src/memory/VMM.c.                                     *)
(*                                                                         *)
(* The two call each other: kmalloc takes pages from vmm_mmap, and the     *)
(* manager keeps its list of free blocks in memory from kmalloc.  So every *)
(* operator below maps the memory before a call to the memory after it,    *)
(* with all the calls nested in it.  A call is one action: this code runs  *)
(* with interrupts off or before they are enabled.                         *)
(*                                                                         *)
(* Memory is counted in words of 8 bytes, and the structures have their    *)
(* real sizes; only the page is smaller.  An address is a word number, a   *)
(* page a page number.  Structures are functions from their addresses; one *)
(* that is freed leaves the function, and a step of the code that touches  *)
(* it afterwards, writes through a NULL pointer or drops a major from its  *)
(* list is recorded in fault, and the behaviour ends.                      *)
(***************************************************************************)
EXTENDS Integers, FiniteSetsExt, TLC

CONSTANTS
  HEAP_START,     \* first page of the heap
  MAX_HEAP_SIZE,  \* pages of the heap
  l_pageSize,     \* words in a page (512)
  l_pageCount,    \* pages that liballoc takes at least (16)
  KmallocSizes,   \* the sizes in words that kernel code asks kmalloc for
  MmapSizes,      \* the numbers of pages that mmap asks for
  MaxObjects,     \* bound on the objects that kernel code owns at a time
  MaxSpans        \* bound on the spans that mmap has served

ASSUME KernelHeapAssumption ==
  /\ {HEAP_START, MAX_HEAP_SIZE, l_pageCount, MaxObjects, MaxSpans} \subseteq Nat \ {0}
  /\ l_pageCount < MAX_HEAP_SIZE
  /\ l_pageSize \in Nat /\ l_pageSize >= 18
  /\ KmallocSizes \subseteq Nat \ {0}
  /\ MmapSizes \subseteq Nat \ {0}

VARIABLES
  mem,      \* the memory: the structures below and the globals that point to them
  objects,  \* history: what kernel code got from kmalloc, pointer -> size asked for
  spans     \* history: what mmap served, as first page and number of pages

heapVars == <<mem, objects, spans>>

NULL == 0

MAJOR == 5       \* sizeof(struct liballoc_major)
MINOR == 5       \* sizeof(struct liballoc_minor)
FREE_BLOCK == 4  \* sizeof(free_block)
ALIGNMENT == 2
ALIGN_INFO == 2

Heap == HEAP_START .. HEAP_START + MAX_HEAP_SIZE - 1

Memory ==
  [l_memRoot |-> NULL, l_bestBet |-> NULL,  \* liballoc: first major, fullest major
   l_allocated |-> 0, l_inuse |-> 0,
   major |-> <<>>, minor |-> <<>>,          \* the structures of liballoc
   pad |-> <<>>,                            \* what ALIGN stored before a pointer
   blockchain |-> NULL, block |-> <<>>,     \* VMM: head and nodes of the free list
   first_alloc |-> TRUE, allocating_base |-> FALSE, base_pages |-> 0,
   fault |-> "none",                        \* freed memory or NULL was touched
   exact |-> FALSE]                         \* history: a block was used up

Result(m, p) == [mem |-> m, ptr |-> p]

\* A fault of one of these kinds; the first one counts, and ends the behaviour.
FaultKinds == {"none", "null_written", "freed_major_touched", "freed_block_touched", "major_lost"}

Fault(m, kind) == IF m.fault = "none" THEN [m EXCEPT !.fault = kind] ELSE m

Faulty(m) == m.fault # "none"

Without(f, x) == [y \in DOMAIN f \ {x} |-> f[y]]

Room(m, maj) == m.major[maj].size - m.major[maj].usage

\* A call of a function of the heap, by its name: kernel code calls them, and
\* they call each other, only through here.
RECURSIVE Call(_, _, _, _)

RECURSIVE SearchMajors(_, _, _, _, _), SearchAdded(_, _, _), FindGap(_, _, _, _),
          FirstFit(_, _, _), LeftOf(_, _, _), FirstBlock(_, _)

------------------------------------------------------------------------------
(* liballoc *)

\* ALIGN: the pointer handed out for the memory at p; the distance is stored
\* before the pointer, and UNALIGN reads it from there.
AlignUp(p) == p + ALIGN_INFO + ((ALIGNMENT - ((p + ALIGN_INFO) % ALIGNMENT)) % ALIGNMENT)

\* Mutant of Place: the minor after the new one keeps its link back.
PlaceForward(m, maj, at, prev, next, size, req) ==
  LET ptr    == AlignUp(at + MINOR)
      linked == [x \in DOMAIN m.minor |->
                   IF x = prev THEN [m.minor[x] EXCEPT !.next = at] ELSE m.minor[x]]
      new    == [prev |-> prev, next |-> next, block |-> maj, size |-> size, req_size |-> req]
  IN  Result([m EXCEPT !.minor = (at :> new) @@ linked,
                       !.major[maj].first = IF prev = NULL THEN at ELSE @,
                       !.major[maj].usage = @ + size + MINOR,
                       !.l_inuse = @ + size,
                       !.pad = (ptr :> ptr - (at + MINOR)) @@ @], ptr)

\* A minor of size words is put at address at of major maj, after the minor prev
\* and before the minor next.
Place(m, maj, at, prev, next, size, req) ==
  LET ptr    == AlignUp(at + MINOR)
      linked == [x \in DOMAIN m.minor |->
                   IF x = prev THEN [m.minor[x] EXCEPT !.next = at]
                   ELSE IF x = next THEN [m.minor[x] EXCEPT !.prev = at]
                   ELSE m.minor[x]]
      new    == [prev |-> prev, next |-> next, block |-> maj, size |-> size, req_size |-> req]
  IN  Result([m EXCEPT !.minor = (at :> new) @@ linked,
                       !.major[maj].first = IF prev = NULL THEN at ELSE @,
                       !.major[maj].usage = @ + size + MINOR,
                       !.l_inuse = @ + size,
                       !.pad = (ptr :> ptr - (at + MINOR)) @@ @], ptr)

\* A major in the st pages that r brought, if any.
NewMajor(r, st) ==
  LET maj == r.ptr * l_pageSize
      new == [prev |-> NULL, next |-> NULL, pages |-> st, size |-> st * l_pageSize,
              usage |-> MAJOR, first |-> NULL]
  IN  IF r.ptr = NULL \/ Faulty(r.mem) THEN Result(r.mem, NULL)
      ELSE Result([r.mem EXCEPT !.major = (maj :> new) @@ @,
                                !.l_allocated = @ + new.size], maj)

\* allocate_new_page
NewPage(m, size) ==
  LET need == size + MAJOR + MINOR
      st   == Max({l_pageCount, (need + l_pageSize - 1) \div l_pageSize})
  IN  NewMajor(Call("vmm_mmap", m, st, 0), st)

\* maj->next = r, the result of allocate_new_page, and the link back.  The call
\* may have freed maj, or appended a major that is now overwritten.
LinkMajor(r, maj) ==
  IF Faulty(r.mem) THEN r
  ELSE IF maj \notin DOMAIN r.mem.major THEN Result(Fault(r.mem, "freed_major_touched"), NULL)
  ELSE IF r.mem.major[maj].next # NULL THEN Result(Fault(r.mem, "major_lost"), NULL)
  ELSE IF r.ptr = NULL THEN r
  ELSE Result([r.mem EXCEPT !.major[maj].next = r.ptr, !.major[r.ptr].prev = maj], r.ptr)

AppendMajor(m, maj, size) == LinkMajor(NewPage(m, size), maj)

\* The first minor of the major that r brought, if any.
PlaceFirst(r, size, req) ==
  IF r.ptr = NULL THEN r ELSE Place(r.mem, r.ptr, r.ptr + MAJOR, NULL, NULL, size, req)

\* Mutant of SpaceAfter: the header of the minor is not counted.
SpaceAfterHeader(m, maj, min) ==
  LET x == m.minor[min]
  IN  (IF x.next = NULL THEN maj + m.major[maj].size ELSE x.next) - (min + x.size)

\* The words between the minor min and the next one, or the end of the major.
SpaceAfter(m, maj, min) ==
  LET x == m.minor[min]
  IN  (IF x.next = NULL THEN maj + m.major[maj].size ELSE x.next) - (min + MINOR + x.size)

\* Cases 4.1 and 4.2: the first minor, from min on, with enough space after it.
FindGap(m, maj, min, need) ==
  LET x == m.minor[min]
  IN  IF min = NULL THEN NULL
      ELSE IF SpaceAfter(m, maj, min) >= need THEN min
      ELSE IF x.next = NULL THEN NULL ELSE FindGap(m, maj, x.next, need)

\* The loop over the majors, from maj on; bet says that it began at the best bet.
SearchMajors(m0, maj, bet, best, req) ==
  LET size  == req + ALIGNMENT + ALIGN_INFO
      need  == size + MINOR
      room  == Room(m0, maj)
      m     == IF best < room THEN [m0 EXCEPT !.l_bestBet = maj] ELSE m0
      best2 == Max({best, room})
      x     == m.major[maj]
      gap   == FindGap(m, maj, x.first, need)
  IN  IF room < need   \* case 1
      THEN IF x.next # NULL THEN SearchMajors(m, x.next, bet, best2, req)
           ELSE IF bet THEN SearchMajors(m, m.l_memRoot, FALSE, best2, req)
           ELSE PlaceFirst(AppendMajor(m, maj, size), size, req)
      ELSE IF x.first = NULL   \* case 2
      THEN Place(m, maj, maj + MAJOR, NULL, NULL, size, req)
      ELSE IF x.first - maj - MAJOR >= need   \* case 3
      THEN Place(m, maj, maj + MAJOR, NULL, x.first, size, req)
      ELSE IF gap # NULL   \* case 4
      THEN Place(m, maj, gap + MINOR + m.minor[gap].size, gap, m.minor[gap].next, size, req)
      ELSE IF x.next # NULL   \* case 5
      THEN SearchMajors(m, x.next, bet, best2, req)
      ELSE IF bet THEN SearchMajors(m, m.l_memRoot, FALSE, best2, req)
      ELSE SearchAdded(AppendMajor(m, maj, size), best2, req)

SearchAdded(r, best, req) ==
  IF r.ptr = NULL THEN r ELSE SearchMajors(r.mem, r.ptr, FALSE, best, req)

\* The first major of all.
SetRoot(r) ==
  IF r.mem.l_memRoot # NULL THEN Fault(r.mem, "major_lost")
  ELSE [r.mem EXCEPT !.l_memRoot = r.ptr]

\* The search starts at the best bet if that has room enough.
KmallocReady(m, req) ==
  LET best == IF m.l_bestBet = NULL THEN 0 ELSE Room(m, m.l_bestBet)
      bet  == m.l_bestBet # NULL /\ best > req + ALIGNMENT + ALIGN_INFO + MINOR
  IN  IF Faulty(m) \/ m.l_memRoot = NULL THEN Result(m, NULL)
      ELSE SearchMajors(m, IF bet THEN m.l_bestBet ELSE m.l_memRoot, bet, best, req)

Kmalloc(m, req) ==
  KmallocReady(IF m.l_memRoot # NULL THEN m
               ELSE SetRoot(NewPage(m, req + ALIGNMENT + ALIGN_INFO)), req)

\* A major without minors is given back, else it may become the best bet.
Release(m, maj) ==
  LET M      == m.major[maj]
      majors == [y \in DOMAIN m.major \ {maj} |->
                   IF y = M.prev THEN [m.major[y] EXCEPT !.next = M.next]
                   ELSE IF y = M.next THEN [m.major[y] EXCEPT !.prev = M.prev]
                   ELSE m.major[y]]
      gone   == [m EXCEPT !.major = majors,
                          !.l_memRoot = IF @ = maj THEN M.next ELSE @,
                          !.l_bestBet = IF @ = maj THEN NULL ELSE @,
                          !.l_allocated = @ - M.size]
  IN  IF M.first = NULL THEN Call("vmm_free_pages", gone, maj \div l_pageSize, M.pages).mem
      ELSE IF m.l_bestBet # NULL /\ Room(m, maj) > Room(m, m.l_bestBet)
      THEN [m EXCEPT !.l_bestBet = maj]
      ELSE m

\* kfree: the minor leaves its major.
Kfree(m, ptr) ==
  LET at     == ptr - m.pad[ptr] - MINOR
      x      == m.minor[at]
      minors == [y \in DOMAIN m.minor \ {at} |->
                   IF y = x.next THEN [m.minor[y] EXCEPT !.prev = x.prev]
                   ELSE IF y = x.prev THEN [m.minor[y] EXCEPT !.next = x.next]
                   ELSE m.minor[y]]
  IN  Release([m EXCEPT !.minor = minors, !.pad = Without(@, ptr),
                        !.l_inuse = @ - x.size,
                        !.major[x.block].usage = @ - (x.size + MINOR),
                        !.major[x.block].first = IF x.prev = NULL THEN x.next ELSE @],
              x.block)

\* krealloc to a size that is not 0, of a pointer that is not NULL: the object
\* moves to the memory that kmalloc has found for it.
Moved(r, ptr) ==
  IF r.ptr = NULL \/ Faulty(r.mem) THEN Result(r.mem, NULL)
  ELSE Result(Call("kfree", r.mem, ptr, 0).mem, r.ptr)

Krealloc(m, ptr, req) ==
  LET at == ptr - m.pad[ptr] - MINOR
  IN  IF m.minor[at].req_size >= req
      THEN Result([m EXCEPT !.minor[at].req_size = req], ptr)
      ELSE Moved(Call("kmalloc", m, req, 0), ptr)

------------------------------------------------------------------------------
(* The virtual memory manager *)

Block(start, size, prev, next) == [start |-> start, size |-> size, prev |-> prev, next |-> next]

\* The block found gives its first pages; an empty block is deleted.
TakePages(m, b, pages) ==
  LET x  == m.block[b]
      m1 == [m EXCEPT !.block = [y \in DOMAIN @ \ {b} |->
                 IF y = x.prev THEN [@[y] EXCEPT !.next = x.next]
                 ELSE IF y = x.next THEN [@[y] EXCEPT !.prev = x.prev]
                 ELSE @[y]],
               !.blockchain = IF @ = b THEN x.next ELSE @,
               !.exact = TRUE]
  IN  IF x.size = pages THEN Result(Call("kfree", m1, b, 0).mem, x.start)
      ELSE Result([m EXCEPT !.block[b].start = @ + pages, !.block[b].size = @ - pages], x.start)

\* Mutant of TooSmall: a block of exactly the pages asked for is passed over.
TooSmallOrEqual(m, b, pages) == m.block[b].size <= pages

TooSmall(m, b, pages) == m.block[b].size < pages

FirstFit(m, b, pages) ==
  IF b = NULL THEN Result(m, NULL)
  ELSE IF TooSmall(m, b, pages) THEN FirstFit(m, m.block[b].next, pages)
  ELSE TakePages(m, b, pages)

\* The first free block: the heap without the pages kmalloc got for its node.
BaseBlock(m) == Block(HEAP_START + m.base_pages, MAX_HEAP_SIZE - m.base_pages, NULL, NULL)

\* The first node was put at r.
FirstNode(r, pages) ==
  IF r.ptr = NULL \/ Faulty(r.mem) THEN Result(Fault(r.mem, "null_written"), NULL)
  ELSE FirstFit([r.mem EXCEPT !.blockchain = r.ptr,
                              !.block = (r.ptr :> BaseBlock(r.mem)) @@ @],
                r.ptr, pages)

\* vmm_mmap.  The first call makes the list: kmalloc calls back for the pages
\* of the first node, with allocating_base set.
VmmMmap(m, pages) ==
  IF m.blockchain # NULL THEN FirstFit(m, m.blockchain, pages)
  ELSE IF ~m.first_alloc THEN Result(m, NULL)
  ELSE IF m.allocating_base
  THEN Result([m EXCEPT !.allocating_base = FALSE, !.first_alloc = FALSE,
                        !.base_pages = pages], HEAP_START)
  ELSE FirstNode(Call("kmalloc", [m EXCEPT !.allocating_base = TRUE], FREE_BLOCK, 0), pages)

\* The last block that starts before start, from the block b on.
LeftOf(m, b, start) ==
  LET n == m.block[b].next
  IN  IF n # NULL /\ m.block[n].start < start THEN LeftOf(m, n, start) ELSE b

\* Mutant of FirstBlock: the head stays where it was.
HeadStays(m, b) == m

\* print_blockchain: the head is found again from the block b.
FirstBlock(m, b) ==
  IF m.block[b].prev # NULL THEN FirstBlock(m, m.block[b].prev)
  ELSE [m EXCEPT !.blockchain = b]

Rewind(m) == IF Faulty(m) THEN m ELSE FirstBlock(m, m.blockchain)

\* A node for block is put at r between left and right, which kmalloc may have
\* freed; with neither it is the head.
InsertBlock(r, block) ==
  LET linked == [y \in DOMAIN r.mem.block |->
                   IF y = block.prev THEN [r.mem.block[y] EXCEPT !.next = r.ptr]
                   ELSE IF y = block.next THEN [r.mem.block[y] EXCEPT !.prev = r.ptr]
                   ELSE r.mem.block[y]]
  IN  IF r.ptr = NULL THEN Fault(r.mem, "null_written")
      ELSE IF ~({block.prev, block.next} \ {NULL} \subseteq DOMAIN r.mem.block)
      THEN Fault(r.mem, "freed_block_touched")
      ELSE [r.mem EXCEPT !.block = (r.ptr :> block) @@ linked]

\* vmm_free_pages for a list that is not empty; left and right are found before
\* kmalloc is called for a new node.
FreeBetween(m, start, pages, left, right) ==
  LET touchesL == left # NULL /\ start = m.block[left].start + m.block[left].size
      touchesR == right # NULL /\ start + pages = m.block[right].start
      after    == m.block[right].next
      joined   == [m EXCEPT !.block = [y \in DOMAIN @ \ {right} |->
                      IF y = left THEN [@[y] EXCEPT !.size = @ + pages + m.block[right].size,
                                                    !.next = after]
                      ELSE IF y = after THEN [@[y] EXCEPT !.prev = left]
                      ELSE @[y]]]
  IN  IF touchesL /\ touchesR THEN Rewind(Call("kfree", joined, right, 0).mem)
      ELSE IF touchesL THEN Rewind([m EXCEPT !.block[left].size = @ + pages])
      ELSE IF touchesR
      THEN Rewind([m EXCEPT !.block[right].size = @ + pages, !.block[right].start = @ - pages])
      ELSE Rewind(InsertBlock(Call("kmalloc", m, FREE_BLOCK, 0), Block(start, pages, left, right)))

FirstFree(r, start, pages) ==
  IF r.ptr = NULL THEN Fault(r.mem, "null_written")
  ELSE [r.mem EXCEPT !.block = (r.ptr :> Block(start, pages, NULL, NULL)) @@ @,
                     !.blockchain = r.ptr]

VmmFreePages(m, start, pages) ==
  LET left == IF m.block[m.blockchain].start > start THEN NULL ELSE LeftOf(m, m.blockchain, start)
  IN  IF m.blockchain = NULL THEN FirstFree(Call("kmalloc", m, FREE_BLOCK, 0), start, pages)
      ELSE FreeBetween(m, start, pages, left,
                       IF left = NULL THEN m.blockchain ELSE m.block[left].next)

Call(f, m, x, y) ==
  CASE f = "kmalloc"        -> Kmalloc(m, x)
    [] f = "kfree"          -> Result(Kfree(m, x), NULL)
    [] f = "vmm_mmap"       -> VmmMmap(m, x)
    [] f = "vmm_free_pages" -> Result(VmmFreePages(m, x, y), NULL)

------------------------------------------------------------------------------
(* The kernel and the system call mmap as clients of the heap *)

Init ==
  /\ mem = Memory
  /\ objects = <<>>
  /\ spans = {}

\* vmm_mmap called by vga_init for the frame buffer, and by the system call.
mmap(pages) ==
  \E r \in {Call("vmm_mmap", mem, pages, 0)} :
      /\ ~Faulty(mem)
      /\ Cardinality(spans) < MaxSpans
      /\ mem' = r.mem
      /\ spans' = IF r.ptr = NULL THEN spans
                  ELSE spans \cup {[start |-> r.ptr, pages |-> pages]}
      /\ UNCHANGED objects

\* vga_init maps the frame buffer before anything calls kmalloc.
kmalloc(req) ==
  \E r \in {Call("kmalloc", mem, req, 0)} :
      /\ ~Faulty(mem)
      /\ ~mem.first_alloc
      /\ Cardinality(DOMAIN objects) < MaxObjects
      /\ mem' = r.mem
      /\ objects' = IF r.ptr = NULL THEN objects ELSE (r.ptr :> req) @@ objects
      /\ UNCHANGED spans

kfree(ptr) ==
  /\ ~Faulty(mem)
  /\ mem' = Call("kfree", mem, ptr, 0).mem
  /\ objects' = Without(objects, ptr)
  /\ UNCHANGED spans

krealloc(ptr, req) ==
  \E r \in {Krealloc(mem, ptr, req)} :
      /\ ~Faulty(mem)
      /\ mem' = r.mem
      /\ objects' = IF r.ptr = NULL THEN objects
                    ELSE (r.ptr :> req) @@ Without(objects, ptr)
      /\ UNCHANGED spans

Next ==
  \/ \E pages \in MmapSizes : mmap(pages)
  \/ \E req \in KmallocSizes : kmalloc(req)
  \/ \E ptr \in DOMAIN objects : kfree(ptr)
  \/ \E ptr \in DOMAIN objects, req \in KmallocSizes : krealloc(ptr, req)

Spec == Init /\ [][Next]_heapVars

------------------------------------------------------------------------------
(* Properties *)

\* The structures that a list with first element x consists of.
RECURSIVE ListFrom(_, _)
ListFrom(f, x) == IF x = NULL THEN {} ELSE {x} \cup ListFrom(f, f[x].next)

\* f is one doubly linked list that starts at first.
IsList(f, first) ==
  /\ first \in DOMAIN f \cup {NULL}
  /\ \A x \in DOMAIN f :
       /\ (f[x].prev = NULL) = (x = first)
       /\ f[x].next # NULL => f[x].next \in DOMAIN f /\ f[f[x].next].prev = x
  /\ ListFrom(f, first) = DOMAIN f

MinorsIn(maj) == [x \in {y \in DOMAIN mem.minor : mem.minor[y].block = maj} |-> mem.minor[x]]

Ends(x) == x + MINOR + mem.minor[x].size

\* The minor that holds the memory at ptr.
MinorOf(ptr) == ptr - mem.pad[ptr] - MINOR

\* Everything kmalloc has given out, to kernel code and to the memory manager.
Sizes == [p \in DOMAIN mem.block |-> FREE_BLOCK] @@ objects

\* The types, at any time.
HeapTypeOK ==
  /\ mem.fault \in FaultKinds
  /\ DOMAIN mem.major \subseteq {p * l_pageSize : p \in Heap}
  /\ \A x \in DOMAIN mem.minor : mem.minor[x].block \in DOMAIN mem.major
  /\ DOMAIN objects \subseteq DOMAIN mem.pad
  /\ \A s \in spans : s.start \in Heap /\ s.pages \in MmapSizes

\* What kmalloc returns is memory of its own: it is aligned, it lies behind the
\* header of its minor and inside it, minors lie inside their major and do not
\* overlap, and every minor belongs to somebody.
ObjectsDisjoint ==
  ~Faulty(mem) =>
    /\ \A ptr \in DOMAIN Sizes :
         /\ ptr % ALIGNMENT = 0
         /\ MinorOf(ptr) \in DOMAIN mem.minor
         /\ MinorOf(ptr) + MINOR + ALIGN_INFO <= ptr
         /\ ptr + Sizes[ptr] <= Ends(MinorOf(ptr))
    /\ \A x \in DOMAIN mem.minor :
         LET maj == mem.minor[x].block
         IN  /\ maj + MAJOR <= x
             /\ Ends(x) <= maj + mem.major[maj].size
             /\ \A y \in DOMAIN mem.minor : x < y => Ends(x) <= y
    /\ {MinorOf(ptr) : ptr \in DOMAIN Sizes} = DOMAIN mem.minor

\* The types; and the lists of liballoc are whole and its books are right:
\* every major is on the list of l_memRoot, every minor on the list of its
\* major in the order of addresses, l_bestBet is a major of the list, and
\* usage, l_inuse and l_allocated are the sums they stand for.
HeapListsIntact ==
  /\ HeapTypeOK
  /\ ~Faulty(mem) =>
    /\ IsList(mem.major, mem.l_memRoot)
    /\ mem.l_bestBet \in DOMAIN mem.major \cup {NULL}
    /\ \A maj \in DOMAIN mem.major :
         LET minors == MinorsIn(maj)
         IN  /\ IsList(minors, mem.major[maj].first)
             /\ \A x \in DOMAIN minors : minors[x].next # NULL => x < minors[x].next
             /\ mem.major[maj].usage =
                  MAJOR + MapThenSumSet(LAMBDA x : minors[x].size + MINOR, DOMAIN minors)
    /\ mem.l_inuse = MapThenSumSet(LAMBDA x : mem.minor[x].size, DOMAIN mem.minor)
    /\ mem.l_allocated = MapThenSumSet(LAMBDA x : mem.major[x].size, DOMAIN mem.major)

\* The pages of the heap are shared out between the free blocks of the memory
\* manager, the majors of liballoc and the spans that mmap served: no page has
\* two owners, and none is lost.
HeapPagesAccounted ==
  ~Faulty(mem) /\ ~mem.first_alloc =>
    /\ IsList(mem.block, mem.blockchain)
    /\ \A p \in Heap :
         LET inBlocks == {b \in DOMAIN mem.block :
                            p - mem.block[b].start \in 0 .. mem.block[b].size - 1}
             inMajors == {x \in DOMAIN mem.major :
                            p - x \div l_pageSize \in 0 .. mem.major[x].pages - 1}
             inSpans  == {x \in spans : p - x.start \in 0 .. x.pages - 1}
         IN  Cardinality(inBlocks) + Cardinality(inMajors) + Cardinality(inSpans) = 1

\* liballoc_free returns 0, "if the memory was successfully freed": so freeing
\* always succeeds, and vmm_free_pages never writes through the NULL that kmalloc
\* returned for the node of the freed span.
FreeSucceeds == mem.fault # "null_written"

\* liballoc's locks are empty because there is one thread.  If that were enough,
\* no call would go on with a block, a major or a list that a call nested in it
\* has freed or overwritten.
NoStaleStructure ==
  mem.fault \notin {"freed_major_touched", "freed_block_touched", "major_lost"}

\* Calls go wrong for two reasons only.  A structure is stale only once some
\* request has used up a free block exactly, because only then does vmm_mmap
\* call kfree; and NULL is written through only when no free block has the
\* l_pageCount pages that kmalloc needs to grow, be there free pages or not.
FaultHasCause ==
  /\ ~NoStaleStructure => mem.exact
  /\ ~FreeSucceeds => \A b \in DOMAIN mem.block : mem.block[b].size < l_pageCount
=============================================================================
