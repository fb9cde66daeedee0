------------------------------- MODULE Paging -------------------------------
(***************************************************************************)
(* The page tables: vmm_map_memory, ensure_pages_mapped and                *)
(* vmm_set_page_permissions of src/src/kernel/src/memory/VMM.c, on the     *)
(* tables that setup_paging of the boot loader builds.                     *)
(*                                                                         *)
(* The module composes three parts.  Page frames come from the pool that   *)
(* PMM implements (FramePool), heap pages are served and freed as          *)
(* BlockChain implements it (AddressSpace), and the tables are here in     *)
(* full: a frame that holds a table is a function from indices to entries. *)
(* Addresses are page numbers.  The TLB may keep any translation that was  *)
(* in the tables once, until an invlpg of its page.                        *)
(***************************************************************************)
EXTENDS Integers, Sequences, FiniteSetsExt, Functions

CONSTANTS
  ENTRIES,         \* entries of a table (512); as many pages are identity mapped
  PML4T, PDPT, PDT, PT,   \* the frames of the four tables of the boot loader
  BOOT_START, BOOT,       \* page of the boot sector; the pages of section .boot
  KERNEL_TEXT, KERNEL_RODATA, KERNEL_DATA, KERNEL_BSS,  \* the pages of the
  OS_TEXT, OS_RODATA, OS_DATA, OS_BSS,                  \* sections of the image
  FIRST_FREE_PAGE, \* the first frame of the pool
  DataBase,        \* where pmm_allocate_page begins to look, see PMM!StartWord
  LastFrame,       \* the last frame of the pool
  MAX_HEAP_SIZE,   \* pages of the heap
  FrameBuffer,     \* the frame number of vbe_info.physical_buffer
  FbPages,         \* pages of the frame buffer
  BasePages,       \* pages that kmalloc takes first, for the list of free blocks
  Sizes,           \* the numbers of pages that callers ask for
  Watched          \* bound: the pages whose translations the TLB may keep

Sections == <<BOOT, KERNEL_TEXT, KERNEL_RODATA, KERNEL_DATA, KERNEL_BSS,
              OS_TEXT, OS_RODATA, OS_DATA, OS_BSS>>

Low == 0 .. ENTRIES - 1   \* the first 2 MB

HEAP_START == ENTRIES     \* 0x200000

Heap == HEAP_START .. HEAP_START + MAX_HEAP_SIZE - 1

ASSUME PagingAssumption ==
  /\ {ENTRIES, MAX_HEAP_SIZE, FbPages, BasePages} \subseteq Nat \ {0}
  /\ {BOOT_START, FIRST_FREE_PAGE, DataBase, LastFrame, FrameBuffer} \subseteq Nat
  /\ IsInjective(<<PML4T, PDPT, PDT, PT>>)
  /\ {PML4T, PDPT, PDT, PT} \subseteq KERNEL_BSS
  \* the image is below the pool, and its sections begin on pages of their own
  /\ \A i \in DOMAIN Sections : Sections[i] \subseteq BOOT_START .. FIRST_FREE_PAGE - 1
  /\ \A i, j \in DOMAIN Sections : i # j => Sections[i] \cap Sections[j] = {}
  \* tables for the whole heap fit below the frames for data, in the first 2 MB
  /\ FIRST_FREE_PAGE + MAX_HEAP_SIZE \div ENTRIES + 1 <= DataBase
  /\ DataBase <= ENTRIES
  \* every heap page can have a frame of its own
  /\ MAX_HEAP_SIZE <= LastFrame - DataBase + 1
  \* the heap ends before 1 GB; the frame buffer is not in RAM
  /\ HEAP_START + MAX_HEAP_SIZE <= ENTRIES * ENTRIES
  /\ FrameBuffer > LastFrame
  /\ BasePages + FbPages <= MAX_HEAP_SIZE
  /\ Sizes \subseteq Nat \ {0}
  /\ Watched \subseteq Low \cup Heap

VARIABLES
  free,    \* frames of the pool that were not handed out
  table,   \* frame of a table -> its entries
  tlb,     \* page -> a translation that the processor remembers
  phase,   \* "reset", "base", "boot", and "user" after vmm_set_page_permissions
  job,     \* what ensure_pages_mapped still has to map
  hfree, held, ret,   \* the heap, see AddressSpace
  users,   \* history: the spans of held that the system call served
  grown,   \* history: a kernel span was mapped in phase "user"
  recycled \* history: the pages that the kernel has used and freed

vars == <<free, table, tlb, phase, job, hfree, held, ret, users, grown, recycled>>

NULL == 0

Space == INSTANCE AddressSpace WITH free <- hfree

Entry(frame, user, nx) ==
  [present |-> TRUE, frame |-> frame, write |-> TRUE, user |-> user, nx |-> nx]

Absent == [present |-> FALSE, frame |-> 0, write |-> FALSE, user |-> FALSE, nx |-> FALSE]

EmptyTable == [i \in 0 .. ENTRIES - 1 |-> Absent]

\* How many pages an entry of a table covers, at the levels 1 to 4.
Covered == <<1, ENTRIES, ENTRIES * ENTRIES, ENTRIES * ENTRIES * ENTRIES>>

Index(v, level) == (v \div Covered[level]) % ENTRIES

Lowest(frames, base) ==
  LET candidates == {f \in frames : f >= base}
  IN  IF candidates = {} THEN NULL ELSE Min(candidates)

\* Mutant of Taken: the bit of the frame stays set.
TakenNot(pool, frame) == pool

\* The pool when the bit of a frame is cleared.
Taken(pool, frame) == pool \ {frame}

\* setup_paging: one table of each level, the first 2 MB mapped to themselves.
BootTables ==
  [t \in {PML4T, PDPT, PDT, PT} |->
     IF t = PT THEN [i \in 0 .. ENTRIES - 1 |-> Entry(i, FALSE, FALSE)]
     ELSE [EmptyTable EXCEPT ![0] =
             Entry(CASE t = PML4T -> PDPT [] t = PDPT -> PDT [] t = PDT -> PT, FALSE, FALSE)]]

NoJob == [left |-> 0, virtual |-> 0, physical |-> NULL, user |-> FALSE]

Init ==
  /\ free = FIRST_FREE_PAGE .. LastFrame
  /\ table = BootTables
  /\ tlb = <<>>
  /\ phase = "reset"
  /\ job = NoJob
  /\ Space!Init
  /\ users = {}
  /\ grown = FALSE
  /\ recycled = {}

------------------------------------------------------------------------------
(* Mapping.  m holds the frames of the pool and the tables. *)

\* Mutant of TableBase: tables come from the frames for data.
TableBaseData == ENTRIES

\* Where pmm_allocate_page_table begins to look.
TableBase == FIRST_FREE_PAGE

\* allocate_page_table: a frame from the bottom of the pool, cleared.
AllocatePageTable(m) ==
  LET f == Lowest(m.free, TableBase)
  IN  [free |-> Taken(m.free, f),
       table |-> [t \in DOMAIN m.table \cup {f} |-> IF t = f THEN EmptyTable ELSE m.table[t]],
       new |-> f]

\* The entry of table t for page v, at the level of t: a new table is allocated
\* if there is none, and the flags are those of this mapping in any case.
Descend(m, t, i, user) ==
  LET e == m.table[t][i]
      a == AllocatePageTable(m)
  IN  IF e.present
      THEN [free |-> m.free, new |-> e.frame,
            table |-> [m.table EXCEPT ![t][i] = Entry(e.frame, user, e.nx)]]
      ELSE [free |-> a.free, new |-> a.new,
            table |-> [a.table EXCEPT ![t][i] = Entry(a.new, user, FALSE)]]

\* Mutant of KeptFrame: a page that is present is given a new frame.
KeptFrameNever(e) == FALSE

\* The P1 entry keeps its frame.
KeptFrame(e) == e.present

\* The P1 entry: a page that is not present gets the frame asked for, or one of
\* the pool.  invlpg is the page that flush_tlb is called with.
MapPage(m, t, i, physical, user) ==
  LET e     == m.table[t][i]
      fresh == Lowest(m.free, DataBase)
      frame == IF physical # NULL THEN physical ELSE fresh
  IN  IF KeptFrame(e)
      THEN [free |-> m.free, invlpg |-> physical,
            table |-> [m.table EXCEPT ![t][i] = Entry(e.frame, user, TRUE)]]
      ELSE [free |-> IF physical # NULL THEN m.free ELSE Taken(m.free, fresh),
            invlpg |-> frame,
            table |-> [m.table EXCEPT ![t][i] = Entry(frame, user, TRUE)]]

MapMemory(m, physical, v, user) ==
  LET p3 == Descend(m, PML4T, Index(v, 4), user)
      p2 == Descend(p3, p3.new, Index(v, 3), user)
      p1 == Descend(p2, p2.new, Index(v, 2), user)
  IN  MapPage(p1, p1.new, Index(v, 1), physical, user)

\* invlpg: the page leaves the TLB.
Invlpg(page) == [v \in DOMAIN tlb \ {page} |-> tlb[v]]

\* Mutant of NextJob: the last page is left out.
NextJobStopsEarly ==
  IF job.left <= 2 THEN NoJob
  ELSE [job EXCEPT !.left = @ - 1, !.virtual = @ + 1,
                   !.physical = IF @ = NULL THEN NULL ELSE @ + 1]

\* What is left to map after one page.
NextJob ==
  IF job.left = 1 THEN NoJob
  ELSE [job EXCEPT !.left = @ - 1, !.virtual = @ + 1,
                   !.physical = IF @ = NULL THEN NULL ELSE @ + 1]

\* One iteration of ensure_pages_mapped; interrupts are off during it.
vmm_map_memory ==
  LET r == MapMemory([free |-> free, table |-> table], job.physical, job.virtual, job.user)
  IN  /\ job.left > 0
      /\ free' = r.free
      /\ table' = r.table
      /\ tlb' = Invlpg(r.invlpg)
      /\ job' = NextJob
      /\ UNCHANGED <<phase, hfree, held, ret, users, grown, recycled>>

\* Mutants of MapJob: the span begins one page late; the user bit is inverted.
MapJobOnePageLate(start, pages, physical, user) ==
  [left |-> pages, virtual |-> start + 1, physical |-> physical, user |-> user]
MapJobInverted(start, pages, physical, user) ==
  [left |-> pages, virtual |-> start, physical |-> physical, user |-> ~user]

\* The arguments of ensure_pages_mapped.
MapJob(start, pages, physical, user) ==
  [left |-> pages, virtual |-> start, physical |-> physical, user |-> user]

\* vmm_mmap: a span of the heap is found, and its pages are to be mapped.
vmm_mmap(physical, pages, user) ==
  /\ job.left = 0
  /\ Space!Serve(pages)
  /\ job' = IF ret' = NULL THEN NoJob ELSE MapJob(ret', pages, physical, user)
  /\ UNCHANGED <<free, table, tlb, recycled>>

\* The first call of all makes kmalloc take pages for the list of free blocks.
MapBase ==
  /\ phase = "reset"
  /\ phase' = "base"
  /\ vmm_mmap(NULL, BasePages, FALSE)
  /\ UNCHANGED <<users, grown>>

\* That first call is the one in vga_init, for the frame buffer.
MapFrameBuffer ==
  /\ phase = "base"
  /\ phase' = "boot"
  /\ vmm_mmap(FrameBuffer, FbPages, FALSE)
  /\ UNCHANGED <<users, grown>>

\* liballoc_alloc, for kmalloc.
liballoc_alloc(pages) ==
  /\ phase \in {"boot", "user"}
  /\ vmm_mmap(NULL, pages, FALSE)
  /\ grown' = (grown \/ (phase = "user" /\ ret' # NULL))
  /\ UNCHANGED <<phase, users>>

\* The system call mmap: fresh pages, or the frame buffer.
mmap(physical, pages) ==
  /\ phase = "user"
  /\ vmm_mmap(physical, pages, TRUE)
  /\ users' = IF ret' = NULL THEN users ELSE users \cup {[start |-> ret', pages |-> pages]}
  /\ UNCHANGED <<phase, grown>>

\* liballoc_free: the pages go back to the heap and stay mapped.
liballoc_free(s) ==
  /\ job.left = 0
  /\ phase \in {"boot", "user"}
  /\ s \notin users
  /\ s.start # HEAP_START + BasePages   \* nobody frees the frame buffer
  /\ Space!Free(s)
  /\ recycled' = recycled \cup Space!Pages(s)
  /\ UNCHANGED <<free, table, tlb, phase, job, users, grown>>

------------------------------------------------------------------------------
(* Permissions *)

\* Mutant of LeafFlags: the write bit is never cleared.
LeafFlagsWritable(e, is_os, is_writable, is_executable) == Entry(e.frame, is_os, ~is_executable)

\* The flags of the page itself.
LeafFlags(e, is_os, is_writable, is_executable) ==
  [present |-> TRUE, frame |-> e.frame, write |-> is_writable, user |-> is_os, nx |-> ~is_executable]

\* The entries that set_page_permission goes through: table and index.
Path(tbl, v) ==
  LET p3 == tbl[PML4T][Index(v, 4)].frame
      p2 == tbl[p3][Index(v, 3)].frame
      p1 == tbl[p2][Index(v, 2)].frame
  IN  <<<<PML4T, Index(v, 4)>>, <<p3, Index(v, 3)>>, <<p2, Index(v, 2)>>, <<p1, Index(v, 1)>>>>

\* SET_PERMISSIONS: set_page_permission for every page of a section replaces the
\* flags of every level.  No frame changes and the flags are the same for all
\* pages, so that their order makes no difference.
SetPermissions(tbl, section, is_os, is_writable, is_executable) ==
  LET directories == {Path(tbl, v)[n] : v \in section, n \in 1 .. 3}
      leaves      == {Path(tbl, v)[4] : v \in section}
      Flags(t, i) ==
        IF <<t, i>> \in leaves THEN LeafFlags(tbl[t][i], is_os, is_writable, is_executable)
        ELSE IF <<t, i>> \in directories THEN Entry(tbl[t][i].frame, is_os, FALSE)
        ELSE tbl[t][i]
  IN  [t \in DOMAIN tbl |-> [i \in DOMAIN tbl[t] |-> Flags(t, i)]]

KernelPermissions(t0) ==
  LET t1 == SetPermissions(t0, BOOT, FALSE, TRUE, TRUE)
      t2 == SetPermissions(t1, 0 .. BOOT_START, FALSE, TRUE, TRUE)
      t3 == SetPermissions(t2, KERNEL_TEXT, FALSE, FALSE, TRUE)
      t4 == SetPermissions(t3, KERNEL_RODATA, FALSE, FALSE, FALSE)
  IN  SetPermissions(t4, KERNEL_DATA \cup KERNEL_BSS, FALSE, TRUE, FALSE)

OSPermissions(t0) ==
  LET t1 == SetPermissions(t0, OS_TEXT, TRUE, FALSE, TRUE)
      t2 == SetPermissions(t1, OS_RODATA, TRUE, FALSE, FALSE)
  IN  SetPermissions(t2, OS_DATA \cup OS_BSS, TRUE, TRUE, FALSE)

\* Mutant of AllPermissions: the sections of the OS come first.
AllPermissionsOSFirst(tbl) == KernelPermissions(OSPermissions(tbl))

\* The sections of the kernel come first, so the flags of the OS stay in the
\* directories that they share.
AllPermissions(tbl) == OSPermissions(KernelPermissions(tbl))

\* Mutant of Flushed: no page of the OS leaves the TLB.
FlushedKernel == 0 .. BOOT_START \cup BOOT \cup KERNEL_TEXT

\* Every page is flushed at the address that its entry holds, which for an
\* executable page is its own; bit 63 of the others is no address at all.
Flushed == 0 .. BOOT_START \cup BOOT \cup KERNEL_TEXT \cup OS_TEXT

vmm_set_page_permissions ==
  /\ phase = "boot"
  /\ job.left = 0
  /\ phase' = "user"
  /\ table' = AllPermissions(table)
  /\ tlb' = [v \in DOMAIN tlb \ Flushed |-> tlb[v]]
  /\ UNCHANGED <<free, job, hfree, held, ret, users, grown, recycled>>

------------------------------------------------------------------------------
(* The processor *)

Walk(v) == LET p3 == table[PML4T][Index(v, 4)]
               p2 == table[p3.frame][Index(v, 3)]
               p1 == table[p2.frame][Index(v, 2)]
               e  == table[p1.frame][Index(v, 1)]
           IN  IF ~(p3.present /\ p2.present /\ p1.present /\ e.present) THEN Absent
               ELSE [present |-> TRUE, frame |-> e.frame,
                     write |-> p3.write /\ p2.write /\ p1.write /\ e.write,
                     user |-> p3.user /\ p2.user /\ p1.user /\ e.user,
                     nx |-> p3.nx \/ p2.nx \/ p1.nx \/ e.nx]

\* An access to the page v: the translation may stay in the TLB.
Access(v) ==
  /\ Walk(v).present
  /\ v \notin DOMAIN tlb
  /\ tlb' = [x \in DOMAIN tlb \cup {v} |-> IF x = v THEN Walk(v) ELSE tlb[x]]
  /\ UNCHANGED <<free, table, phase, job, hfree, held, ret, users, grown, recycled>>

\* The TLB may forget a translation at any time.
Evict(v) ==
  /\ tlb' = [x \in DOMAIN tlb \ {v} |-> tlb[x]]
  /\ UNCHANGED <<free, table, phase, job, hfree, held, ret, users, grown, recycled>>

Next ==
  \/ MapBase \/ MapFrameBuffer \/ vmm_map_memory \/ vmm_set_page_permissions
  \/ \E pages \in Sizes : liballoc_alloc(pages)
  \/ \E physical \in {NULL, FrameBuffer}, pages \in Sizes : mmap(physical, pages)
  \/ \E s \in held : liballoc_free(s)
  \/ \E v \in Watched : Access(v)
  \/ \E v \in DOMAIN tlb : Evict(v)

Spec == Init /\ [][Next]_vars

------------------------------------------------------------------------------
(* Properties *)

OSPages == OS_TEXT \cup OS_RODATA \cup OS_DATA \cup OS_BSS

UserPages == UNION {Space!Pages(s) : s \in users}

\* The pages of a span that is being mapped and are not mapped yet.
Pending == job.virtual .. job.virtual + job.left - 1

Device(f) == f >= FrameBuffer

\* Type invariant.
PagingTypeOK ==
  /\ free \subseteq FIRST_FREE_PAGE .. LastFrame
  /\ \A t \in DOMAIN table : DOMAIN table[t] = 0 .. ENTRIES - 1
  /\ DOMAIN tlb \subseteq Watched
  /\ phase \in {"reset", "base", "boot", "user"}
  /\ Pending \subseteq Heap
  /\ hfree \subseteq Heap
  /\ users \subseteq held
  /\ grown \in BOOLEAN
  /\ recycled \subseteq Heap

\* The kernel reaches every page table at its physical address: the tables are
\* in the first 2 MB, whose pages stay mapped to themselves and, where a table
\* is, writable.  No frame is two tables, and none is still in the pool.
TablesReachable ==
  /\ \A v \in Low : Walk(v).present /\ Walk(v).frame = v
  /\ DOMAIN table \subseteq Low
  /\ \A t \in DOMAIN table : Walk(t).write
  /\ DOMAIN table \cap free = {}
  /\ \A t \in DOMAIN table \ {PML4T, PDPT, PDT, PT} :
       Cardinality({i \in 0 .. ENTRIES - 1 :
                      table[PDT][i].present /\ table[PDT][i].frame = t}) = 1

\* No two heap pages share a frame of RAM, free ones included, and none has a
\* frame that holds a page table, is part of the image or is still in the pool.
\* So the pool never runs out, although nothing is ever given back to it.
FramesExclusive ==
  LET Backed == {v \in Heap : Walk(v).present /\ ~Device(Walk(v).frame)}
  IN  /\ \A v, w \in Backed : Walk(v).frame = Walk(w).frame => v = w
      /\ \A v \in Backed :
           /\ Walk(v).frame \in FIRST_FREE_PAGE .. LastFrame
           /\ Walk(v).frame \notin free \cup DOMAIN table

\* Every page of every span that was served is mapped, once its call returned.
SpansMapped == \A s \in held : \A v \in Space!Pages(s) \ Pending : Walk(v).present

\* Code in ring 3 reaches nothing but the sections of the OS and the spans of
\* the system call mmap, through the tables or through a stale translation.
UserConfined ==
  /\ \A v \in Low \cup Heap : Walk(v).user => v \in OSPages \cup UserPages
  /\ \A v \in DOMAIN tlb : tlb[v].user => v \in OSPages \cup UserPages

\* The OS reaches its own sections and every span it has mapped, as long as the
\* kernel maps no pages for itself once the OS runs: such a mapping takes the
\* user bit away from directories they share.  The tables always let it; a
\* translation that the TLB kept does so too, with two exceptions, the pages that
\* the code does not flush: a section that is not executable (bit 63 of its
\* entries spoils the address) and a page that the kernel has used and freed.
UserReaches ==
  phase = "user" /\ ~grown =>
    \A v \in OSPages \cup (UserPages \ Pending) :
      /\ Walk(v).user
      /\ v \in DOMAIN tlb /\ ~tlb[v].user => v \in recycled \cup (OSPages \ OS_TEXT)

\* Once the permissions are set, no page of the heap or of a section but .boot
\* is both writable and executable: text is read only, and nothing else runs.
\* (The identity mapped frames after the image keep the flags of setup_paging.)
WriteXorExecute ==
  phase = "user" =>
    \A v \in Heap \cup UNION {Sections[i] : i \in 2 .. Len(Sections)} :
      LET e == Walk(v)
      IN  e.present => (e.write = (v \notin KERNEL_TEXT \cup KERNEL_RODATA \cup OS_TEXT \cup OS_RODATA))
                       /\ (e.nx = (v \notin KERNEL_TEXT \cup OS_TEXT))

\* A translation that the TLB kept may have old flags, but it never leads to a
\* frame other than the one in the tables, because a mapped page keeps its frame.
TlbSameFrame == \A v \in DOMAIN tlb : Walk(v).present /\ tlb[v].frame = Walk(v).frame

\* "Mapped %p to %p": a span that was asked for with a physical address is
\* mapped to that address.
MappedAsAsked ==
  [][\A v \in Heap : job.physical # NULL /\ v = job.virtual /\ job' # job
                       => Walk(v)'.frame = job.physical]_vars
=============================================================================
