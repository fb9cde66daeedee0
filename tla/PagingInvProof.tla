--------------------------- MODULE PagingInvProof ---------------------------
(***************************************************************************)
(* The inductive invariant of Paging: the tables of the boot loader        *)
(* satisfy it and vmm_set_page_permissions keeps it, for tables of any     *)
(* size, any sections of the image and any heap.  PagingMapProof goes on   *)
(* with the other steps.                                                   *)
(***************************************************************************)
EXTENDS Paging, TLAPS

------------------------------------------------------------------------------
(* The inductive invariant *)

BootFrames == {PML4T, PDPT, PDT, PT}

\* The indices that the heap has in the third table.
HeapIndices == 1 .. MAX_HEAP_SIZE \div ENTRIES + 1

Entries == [present : BOOLEAN, frame : Nat, write : BOOLEAN, user : BOOLEAN, nx : BOOLEAN]

\* The two entries that differ between the pages of Low and Heap.
Directory(v) == table[PDT][v \div ENTRIES]
Leaf(v) == table[Directory(v).frame][v % ENTRIES]
Mapped(v) == Directory(v).present /\ Leaf(v).present

\* An entry of a directory: never read only and never without execution.
Points(e, t) == e.present /\ e.frame = t /\ e.write /\ ~e.nx

\* The tables are a tree: the first two have one entry, the entries of the third
\* are PT and the tables of the heap, each of which it has once.
IsTree(tbl) ==
  /\ BootFrames \subseteq DOMAIN tbl
  /\ DOMAIN tbl \subseteq BootFrames \cup (FIRST_FREE_PAGE .. DataBase - 1)
  /\ \A t \in DOMAIN tbl : tbl[t] \in [0 .. ENTRIES - 1 -> Entries]
  /\ Points(tbl[PML4T][0], PDPT) /\ Points(tbl[PDPT][0], PDT) /\ Points(tbl[PDT][0], PT)
  /\ \A i \in 1 .. ENTRIES - 1 : tbl[PDT][i].present =>
       /\ i \in HeapIndices
       /\ tbl[PDT][i].frame \in DOMAIN tbl \ BootFrames
       /\ Points(tbl[PDT][i], tbl[PDT][i].frame)
  /\ \A i, j \in 1 .. ENTRIES - 1 :
       tbl[PDT][i].present /\ tbl[PDT][j].present /\ tbl[PDT][i].frame = tbl[PDT][j].frame
         => i = j
  /\ \A t \in DOMAIN tbl \ BootFrames :
       \E i \in 1 .. ENTRIES - 1 : tbl[PDT][i].present /\ tbl[PDT][i].frame = t

Tree == IsTree(table)

\* A frame of the pool is free, a table or under one heap page.
Frames ==
  /\ free \subseteq FIRST_FREE_PAGE .. LastFrame
  /\ \A f \in FIRST_FREE_PAGE .. DataBase - 1 : f \in free <=> f \notin DOMAIN table
  /\ \A f \in DataBase .. LastFrame : f \in free \/ \E v \in Heap : Mapped(v) /\ Leaf(v).frame = f
  /\ \A v \in Heap : Mapped(v) => Device(Leaf(v).frame) \/ Leaf(v).frame \in (DataBase .. LastFrame) \ free
  /\ \A v, w \in Heap : Mapped(v) /\ Mapped(w) /\ ~Device(Leaf(v).frame) /\ Leaf(v).frame = Leaf(w).frame
                          => v = w

ReadOnly == KERNEL_TEXT \cup KERNEL_RODATA \cup OS_TEXT \cup OS_RODATA
NoExecute == KERNEL_RODATA \cup KERNEL_DATA \cup KERNEL_BSS \cup OS_RODATA \cup OS_DATA \cup OS_BSS

\* The first 2 MB before and after vmm_set_page_permissions.
Identity ==
  \A v \in Low :
    table[PT][v] =
      IF phase # "user" THEN Entry(v, FALSE, FALSE)
      ELSE [present |-> TRUE, frame |-> v, write |-> v \notin ReadOnly,
            user |-> v \in OSPages, nx |-> v \in NoExecute]

\* The flags of the heap, and the bits that ring 3 needs at every level.
Flags ==
  /\ \A v \in Heap : Mapped(v) => /\ Leaf(v).write /\ Leaf(v).nx
                                  /\ Leaf(v).user => v \in UserPages
  /\ phase # "user" => users = {}
  /\ phase = "user" /\ ~grown => \A v \in OSPages \cup (UserPages \ Pending) :
       Mapped(v) /\ table[PML4T][0].user /\ table[PDPT][0].user /\ Directory(v).user /\ Leaf(v).user

\* The spans of the heap and the one that is being mapped.
Spans ==
  /\ phase \in {"reset", "base", "boot", "user"}
  /\ grown \in BOOLEAN
  /\ hfree \subseteq Heap
  /\ \A s \in held : Space!Pages(s) \subseteq Heap
  /\ users \subseteq held
  /\ job \in [left : Nat, virtual : Nat, physical : Nat, user : BOOLEAN]
  /\ Pending \subseteq Heap
  /\ job.physical = NULL \/ Device(job.physical)
  /\ job.user => Pending \subseteq UserPages
  /\ job.left > 0 /\ phase = "user" /\ ~grown => job.user
  /\ \A s \in held : \A v \in Space!Pages(s) \ Pending : Mapped(v)

Remembered ==
  /\ DOMAIN tlb \subseteq Watched
  /\ \A v \in DOMAIN tlb : /\ Mapped(v) /\ tlb[v].frame = Leaf(v).frame
                           /\ tlb[v].user => v \in OSPages \cup UserPages

PagingInv == Tree /\ Frames /\ Identity /\ Flags /\ Spans /\ Remembered

------------------------------------------------------------------------------
(* Numbers *)

\* Quotient and remainder.
LEMMA Division ==
  ASSUME NEW n \in Nat \ {0}, NEW v \in Nat
  PROVE  /\ v \div n \in Nat /\ v % n \in 0 .. n - 1
         /\ v = n * (v \div n) + (v % n)
<1>1. v \div n \in Nat /\ v % n \in 0 .. n - 1 /\ n * (v \div n) \in Nat
  OBVIOUS
<1>2. v % n = v - n * (v \div n)
  OBVIOUS
<1> QED
  BY <1>1, <1>2

\* A quotient is as small as the product allows.
LEMMA Quotient ==
  ASSUME NEW n \in Nat \ {0}, NEW q \in Nat, NEW v \in Nat, v < n * q
  PROVE  v \div n < q
<1>1. v \div n \in Nat /\ v >= n * (v \div n)
  BY Division
<1>2. ASSUME v \div n >= q PROVE FALSE
  <2>1. n * (v \div n) >= n * q
    BY <1>1, <1>2
  <2> QED
    BY <1>1, <2>1
<1> QED
  BY <1>1, <1>2

\* The numbers that describe the memory.
LEMMA Sizing ==
  /\ ENTRIES \in Nat /\ ENTRIES >= 2
  /\ MAX_HEAP_SIZE \in Nat /\ MAX_HEAP_SIZE >= 1
  /\ ENTRIES + MAX_HEAP_SIZE <= ENTRIES * ENTRIES
  /\ FIRST_FREE_PAGE \in Nat /\ DataBase \in Nat /\ LastFrame \in Nat /\ FrameBuffer \in Nat
  /\ MAX_HEAP_SIZE \div ENTRIES \in Nat
  /\ FIRST_FREE_PAGE + MAX_HEAP_SIZE \div ENTRIES + 1 <= DataBase
  /\ DataBase <= ENTRIES /\ MAX_HEAP_SIZE <= LastFrame - DataBase + 1 /\ FrameBuffer > LastFrame
<1>1. /\ ENTRIES \in Nat \ {0} /\ MAX_HEAP_SIZE \in Nat \ {0}
      /\ FIRST_FREE_PAGE \in Nat /\ DataBase \in Nat /\ LastFrame \in Nat /\ FrameBuffer \in Nat
      /\ FIRST_FREE_PAGE + MAX_HEAP_SIZE \div ENTRIES + 1 <= DataBase
      /\ DataBase <= ENTRIES /\ MAX_HEAP_SIZE <= LastFrame - DataBase + 1 /\ FrameBuffer > LastFrame
      /\ ENTRIES + MAX_HEAP_SIZE <= ENTRIES * ENTRIES
  BY PagingAssumption DEF HEAP_START
<1>2. MAX_HEAP_SIZE \div ENTRIES \in Nat
  BY <1>1, Division
<1>3. ENTRIES # 1
  BY <1>1
<1> QED
  BY <1>1, <1>2, <1>3

\* What the numbers of the boot tables are.
LEMMA BootTablesApart ==
  /\ PML4T # PDPT /\ PML4T # PDT /\ PML4T # PT /\ PDPT # PDT /\ PDPT # PT /\ PDT # PT
  /\ BootFrames \subseteq KERNEL_BSS
  /\ BOOT_START \in Nat /\ BOOT_START < FIRST_FREE_PAGE
  /\ \A f \in BootFrames : f \in Nat /\ f < FIRST_FREE_PAGE
<1>1. PML4T # PDPT /\ PML4T # PDT /\ PML4T # PT /\ PDPT # PDT /\ PDPT # PT /\ PDT # PT
  BY PagingAssumption DEF IsInjective
<1>2. BootFrames \subseteq KERNEL_BSS
  BY PagingAssumption DEF BootFrames
<1>3. KERNEL_BSS \subseteq BOOT_START .. FIRST_FREE_PAGE - 1
  <2>1. 5 \in DOMAIN Sections /\ Sections[5] = KERNEL_BSS
    BY DEF Sections
  <2> QED BY <2>1, PagingAssumption
<1>4. BOOT_START \in Nat /\ FIRST_FREE_PAGE \in Nat
  BY PagingAssumption
<1>5. \A f \in BOOT_START .. FIRST_FREE_PAGE - 1 : f \in Nat /\ f < FIRST_FREE_PAGE /\ BOOT_START < FIRST_FREE_PAGE
  BY <1>4
<1>6. PML4T \in BootFrames
  BY DEF BootFrames
<1> QED
  BY <1>1, <1>2, <1>3, <1>4, <1>5, <1>6

\* The way of a page through the tables.
LEMMA Indices ==
  ASSUME NEW v \in Low \cup Heap
  PROVE  /\ v \in Nat /\ v < ENTRIES * ENTRIES
         /\ Index(v, 4) = 0 /\ Index(v, 3) = 0
         /\ Index(v, 2) = v \div ENTRIES /\ Index(v, 1) = v % ENTRIES
         /\ v \div ENTRIES \in 0 .. ENTRIES - 1 /\ v % ENTRIES \in 0 .. ENTRIES - 1
         /\ v \in Low => v \div ENTRIES = 0 /\ v % ENTRIES = v
         /\ v \in Heap => v \div ENTRIES \in HeapIndices /\ v \div ENTRIES # 0
<1> DEFINE E == ENTRIES
<1>1. E \in Nat /\ E >= 2
  BY Sizing
<1>2. v \in Nat /\ v < E * E /\ (v \in Heap => v >= E /\ v < E + MAX_HEAP_SIZE)
  BY Sizing DEF Low, Heap, HEAP_START
<1>3. E * E \in Nat /\ E * E * E \in Nat /\ E * E > 0 /\ E * E * E >= E * E
  BY <1>1
<1>4. Covered[1] = 1 /\ Covered[2] = E /\ Covered[3] = E * E /\ Covered[4] = E * E * E
  BY DEF Covered
<1>5. v \div (E * E) = 0 /\ v \div (E * E * E) = 0
  <2>1. v \div (E * E) < 1
    BY <1>2, <1>3, Quotient
  <2>2. v \div (E * E * E) < 1
    BY <1>2, <1>3, Quotient
  <2>3. v \div (E * E) \in Nat /\ v \div (E * E * E) \in Nat
    BY <1>2, <1>3, Division
  <2> QED BY <2>1, <2>2, <2>3
<1>6. v \div E \in Nat /\ v % E \in 0 .. E - 1 /\ v = E * (v \div E) + (v % E) /\ v \div E < E
  <2>1. v \div E < E
    BY <1>1, <1>2, Quotient
  <2>2. E \in Nat \ {0} /\ v \in Nat
    BY <1>1, <1>2
  <2>3. v \div E \in Nat /\ v % E \in 0 .. E - 1 /\ v = E * (v \div E) + (v % E)
    BY <2>2, Division, Zenon
  <2> QED BY <2>1, <2>3
<1>7. Index(v, 4) = 0 /\ Index(v, 3) = 0
  BY <1>1, <1>4, <1>5 DEF Index
<1>8. Index(v, 2) = v \div E /\ Index(v, 1) = v % E
  BY <1>1, <1>2, <1>4, <1>6 DEF Index
<1>9. ASSUME v \in Low PROVE v \div E = 0 /\ v % E = v
  <2>1. v < E * 1
    BY <1>1, <1>9 DEF Low
  <2>2. v \div E < 1
    BY <1>1, <1>2, <2>1, Quotient
  <2> QED BY <1>1, <1>2, <1>6, <2>2
<1>10. ASSUME v \in Heap PROVE v \div E \in HeapIndices /\ v \div E # 0
  <2> DEFINE q == MAX_HEAP_SIZE \div E
  <2>1. q \in Nat /\ MAX_HEAP_SIZE < E * q + E
    BY <1>1, Sizing, Division
  <2>2. v < E * (q + 2)
    <3>1. E * (q + 2) = E * q + E + E /\ E * q \in Nat
      BY <1>1, <2>1
    <3> QED BY <1>1, <1>2, <1>10, <2>1, <3>1, Sizing
  <2>3. v \div E < q + 2
    BY <1>1, <1>2, <2>1, <2>2, Quotient
  <2>4. v \div E # 0
    BY <1>1, <1>2, <1>6, <1>10
  <2> QED BY <1>6, <2>1, <2>3, <2>4 DEF HeapIndices
<1>11. v \div E \in 0 .. E - 1
  BY <1>1, <1>6
<1> QED
  BY <1>2, <1>6, <1>7, <1>8, <1>9, <1>10, <1>11, Zenon

\* A page is known by its index in the third table and that in the last one.
LEMMA SamePage ==
  ASSUME NEW v \in Low \cup Heap, NEW w \in Low \cup Heap,
         v \div ENTRIES = w \div ENTRIES, v % ENTRIES = w % ENTRIES
  PROVE  v = w
<1>1. v \in Nat /\ w \in Nat /\ ENTRIES \in Nat \ {0}
  BY Indices, Sizing
<1>2. v = ENTRIES * (v \div ENTRIES) + (v % ENTRIES) /\ w = ENTRIES * (w \div ENTRIES) + (w % ENTRIES)
  BY <1>1, Division
<1> QED
  BY <1>2, Zenon

------------------------------------------------------------------------------
(* The walk, and the pool *)

\* What the processor finds for a page, by the two entries that matter.
LEMMA WalkIs ==
  ASSUME NEW v \in Low \cup Heap, Tree
  PROVE  /\ Walk(v).present = Mapped(v)
         /\ Mapped(v) => /\ Walk(v).frame = Leaf(v).frame /\ Walk(v).write = Leaf(v).write
                         /\ Walk(v).nx = Leaf(v).nx
                         /\ Walk(v).user = (/\ table[PML4T][0].user /\ table[PDPT][0].user
                                            /\ Directory(v).user /\ Leaf(v).user)
         /\ ~Mapped(v) => ~Walk(v).user
<1>1. /\ Index(v, 4) = 0 /\ Index(v, 3) = 0 /\ Index(v, 2) = v \div ENTRIES /\ Index(v, 1) = v % ENTRIES
      /\ v \div ENTRIES \in 0 .. ENTRIES - 1 /\ v % ENTRIES \in 0 .. ENTRIES - 1
      /\ (v \in Low => v \div ENTRIES = 0) /\ (v \in Heap => v \div ENTRIES # 0)
  BY Indices
<1> DEFINE d == table[PDT][v \div ENTRIES]
           e == table[d.frame][v % ENTRIES]
<1>2. Points(table[PML4T][0], PDPT) /\ Points(table[PDPT][0], PDT)
  BY DEF Tree, IsTree
<1>3. d.present => /\ d.write /\ ~d.nx /\ d.frame \in DOMAIN table
  <2>1. CASE v \div ENTRIES = 0
    BY <2>1 DEF Tree, IsTree, Points, BootFrames
  <2>2. CASE v \div ENTRIES # 0
    <3>1. v \div ENTRIES \in 1 .. ENTRIES - 1
      BY <1>1, <2>2, Sizing
    <3> QED BY <3>1 DEF Tree, IsTree, Points
  <2> QED BY <2>1, <2>2
<1>4. /\ table[PML4T][0] \in Entries /\ table[PDPT][0] \in Entries /\ d \in Entries
      /\ d.present => e \in Entries
  <2>1. 0 \in 0 .. ENTRIES - 1
    BY Sizing
  <2>2. \A t \in DOMAIN table : table[t] \in [0 .. ENTRIES - 1 -> Entries]
    BY DEF Tree, IsTree
  <2>3. PML4T \in DOMAIN table /\ PDPT \in DOMAIN table /\ PDT \in DOMAIN table
    BY DEF Tree, IsTree, BootFrames
  <2> QED BY <1>1, <1>3, <2>1, <2>2, <2>3, Zenon
<1>5. Walk(v) = IF ~(table[PML4T][0].present /\ table[PDPT][0].present /\ d.present /\ e.present) THEN Absent
               ELSE [present |-> TRUE, frame |-> e.frame,
                     write |-> table[PML4T][0].write /\ table[PDPT][0].write /\ d.write /\ e.write,
                     user |-> table[PML4T][0].user /\ table[PDPT][0].user /\ d.user /\ e.user,
                     nx |-> table[PML4T][0].nx \/ table[PDPT][0].nx \/ d.nx \/ e.nx]
  BY <1>1, <1>2, Zenon DEF Walk, Points
<1>6. Directory(v) = d /\ Leaf(v) = e /\ Mapped(v) = (d.present /\ e.present)
  BY DEF Directory, Leaf, Mapped
<1> HIDE DEF d, e
<1>7. CASE ~(d.present /\ e.present)
  <2>1. Walk(v) = Absent
    BY <1>5, <1>7
  <2>2. Walk(v).present = FALSE /\ Walk(v).user = FALSE
    BY <2>1 DEF Absent
  <2>3. Mapped(v) = FALSE
    BY <1>6, <1>7, Zenon
  <2> QED BY <2>2, <2>3, Zenon
<1>8. CASE d.present /\ e.present
  <2>1. Walk(v) = [present |-> TRUE, frame |-> e.frame,
                   write |-> table[PML4T][0].write /\ table[PDPT][0].write /\ d.write /\ e.write,
                   user |-> table[PML4T][0].user /\ table[PDPT][0].user /\ d.user /\ e.user,
                   nx |-> table[PML4T][0].nx \/ table[PDPT][0].nx \/ d.nx \/ e.nx]
    BY <1>2, <1>5, <1>8 DEF Points
  <2>2. Walk(v).present = TRUE /\ Walk(v).frame = e.frame
    BY <2>1
  <2>3. Walk(v).write = e.write
    BY <1>2, <1>3, <1>4, <1>8, <2>1 DEF Points, Entries
  <2>4. Walk(v).nx = e.nx
    BY <1>2, <1>3, <1>4, <1>8, <2>1 DEF Points, Entries
  <2>5. Walk(v).user = (table[PML4T][0].user /\ table[PDPT][0].user /\ d.user /\ e.user)
    BY <2>1
  <2> QED BY <1>6, <1>8, <2>2, <2>3, <2>4, <2>5, Zenon
<1> QED
  BY <1>7, <1>8, Zenon

\* The sections of the image are among the pages that are mapped to themselves.
LEMMA ImageIsLow ==
  /\ BOOT \cup KERNEL_TEXT \cup KERNEL_RODATA \cup KERNEL_DATA \cup KERNEL_BSS \subseteq Low
  /\ OSPages \subseteq Low
  /\ 0 .. BOOT_START \subseteq Low
<1>1. \A i \in DOMAIN Sections : Sections[i] \subseteq BOOT_START .. FIRST_FREE_PAGE - 1
  BY PagingAssumption
<1>2. BOOT_START .. FIRST_FREE_PAGE - 1 \subseteq Low /\ 0 .. BOOT_START \subseteq Low
  BY Sizing, BootTablesApart DEF Low
<1>3. /\ DOMAIN Sections = 1 .. 9 /\ Sections[1] = BOOT /\ Sections[2] = KERNEL_TEXT
      /\ Sections[3] = KERNEL_RODATA /\ Sections[4] = KERNEL_DATA /\ Sections[5] = KERNEL_BSS
      /\ Sections[6] = OS_TEXT /\ Sections[7] = OS_RODATA /\ Sections[8] = OS_DATA /\ Sections[9] = OS_BSS
  BY DEF Sections
<1>4. /\ BOOT \subseteq Low /\ KERNEL_TEXT \subseteq Low /\ KERNEL_RODATA \subseteq Low
      /\ KERNEL_DATA \subseteq Low /\ KERNEL_BSS \subseteq Low
  BY <1>1, <1>2, <1>3
<1>5. OS_TEXT \subseteq Low /\ OS_RODATA \subseteq Low /\ OS_DATA \subseteq Low /\ OS_BSS \subseteq Low
  BY <1>1, <1>2, <1>3
<1> QED
  BY <1>2, <1>4, <1>5 DEF OSPages

\* The pages of a user span are pages of the heap.
LEMMA UserPagesInHeap ==
  ASSUME Spans
  PROVE  UserPages \subseteq Heap
BY DEF Spans, UserPages

\* The pages of the first 2 MB are found in PT.
LEMMA LowPage ==
  ASSUME Tree, Identity, NEW v \in Low
  PROVE  /\ Directory(v) = table[PDT][0] /\ Leaf(v) = table[PT][v] /\ Mapped(v) /\ Leaf(v).frame = v
         /\ Leaf(v).write = (phase = "user" => v \notin ReadOnly)
         /\ Leaf(v).user = (phase = "user" /\ v \in OSPages)
         /\ Leaf(v).nx = (phase = "user" /\ v \in NoExecute)
<1>1. v \div ENTRIES = 0 /\ v % ENTRIES = v
  BY Indices
<1>2. Directory(v) = table[PDT][0]
  BY <1>1 DEF Directory
<1>3. Directory(v).present /\ Directory(v).frame = PT
  BY <1>2 DEF Tree, IsTree, Points
<1>4. Leaf(v) = table[PT][v]
  BY <1>1, <1>3 DEF Leaf
<1>5. CASE phase # "user"
  <2>1. Leaf(v) = Entry(v, FALSE, FALSE)
    BY <1>4, <1>5, Zenon DEF Identity
  <2>2. Leaf(v).present /\ Leaf(v).frame = v /\ Leaf(v).write = TRUE /\ Leaf(v).user = FALSE /\ Leaf(v).nx = FALSE
    BY <2>1 DEF Entry
  <2> QED BY <1>2, <1>3, <1>4, <1>5, <2>2, Zenon DEF Mapped
<1>6. CASE phase = "user"
  <2>1. Leaf(v) = [present |-> TRUE, frame |-> v, write |-> v \notin ReadOnly,
                   user |-> v \in OSPages, nx |-> v \in NoExecute]
    BY <1>4, <1>6 DEF Identity
  <2>2. /\ Leaf(v).present /\ Leaf(v).frame = v /\ Leaf(v).write = (v \notin ReadOnly)
        /\ Leaf(v).user = (v \in OSPages) /\ Leaf(v).nx = (v \in NoExecute)
    BY <2>1
  <2> QED BY <1>2, <1>3, <1>4, <1>6, <2>2 DEF Mapped
<1> QED
  BY <1>5, <1>6

------------------------------------------------------------------------------
(* What a step that leaves the tables alone keeps *)

\* What the tables say stays.
LEMMA SameTables ==
  ASSUME table' = table
  PROVE  /\ \A v : Mapped(v)' <=> Mapped(v)
         /\ \A v : Directory(v)' = Directory(v)
         /\ \A v : Leaf(v)' = Leaf(v)
         /\ Tree => Tree'
<1>1. \A v : Directory(v)' = Directory(v)
  BY Zenon DEF Directory
<1>2. \A v : Leaf(v)' = Leaf(v)
  BY <1>1, Zenon DEF Leaf
<1>3. \A v : Mapped(v)' <=> Mapped(v)
  BY <1>1, <1>2, Zenon DEF Mapped
<1> QED
  BY <1>1, <1>2, <1>3, Zenon DEF Tree

\* The pages of ring 3 stay.
LEMMA SameUsers ==
  ASSUME users' = users
  PROVE  UserPages' = UserPages
BY Zenon DEF UserPages

\* The pages that a call has still to map stay.
LEMMA SameJob ==
  ASSUME job' = job
  PROVE  Pending' = Pending
BY Zenon DEF Pending

\* Frames stay exclusive.
LEMMA SameFrames ==
  ASSUME Frames, free' = free, table' = table
  PROVE  Frames'
<1>1. (\A v : Mapped(v)' <=> Mapped(v)) /\ (\A v : Leaf(v)' = Leaf(v))
  BY SameTables, Zenon
<1> QED
  BY <1>1 DEF Frames, Device

\* The identity-mapped pages keep their entries.
LEMMA SameIdentity ==
  ASSUME Identity, table' = table, phase' = "user" <=> phase = "user"
  PROVE  Identity'
BY Zenon DEF Identity, OSPages, ReadOnly, NoExecute, Low, Entry

\* The flags stay right.
LEMMA SameFlags ==
  ASSUME Flags, table' = table, users' = users, phase' = phase, grown' = grown, job' = job
  PROVE  Flags'
<1>1. (\A v : Mapped(v)' <=> Mapped(v)) /\ (\A v : Directory(v)' = Directory(v)) /\ (\A v : Leaf(v)' = Leaf(v))
  BY SameTables, Zenon
<1>2. UserPages' = UserPages /\ Pending' = Pending
  BY SameUsers, SameJob, Zenon
<1> QED
  BY <1>1, <1>2 DEF Flags, OSPages

\* The spans stay mapped.
LEMMA SameSpans ==
  ASSUME Spans, table' = table, users' = users, phase' = phase, grown' = grown, job' = job,
         hfree' = hfree, held' = held
  PROVE  Spans'
<1>1. \A v : Mapped(v)' <=> Mapped(v)
  BY SameTables, Zenon
<1>2. UserPages' = UserPages /\ Pending' = Pending
  BY SameUsers, SameJob, Zenon
<1> QED
  BY <1>1, <1>2 DEF Spans, Device, Space!Pages

------------------------------------------------------------------------------
(* Entries *)

\* A table with another entry.
With(tbl, i, e) == [tbl EXCEPT ![i] = e]

\* The entries that vmm_map_memory writes.
DirectoryEntry(frame, user) == Entry(frame, user, FALSE)
LeafEntry(frame, user) == Entry(frame, user, TRUE)

\* What the other entry leaves alone.
LEMMA WithIs ==
  ASSUME NEW tbl, NEW i \in DOMAIN tbl, NEW e
  PROVE  /\ DOMAIN With(tbl, i, e) = DOMAIN tbl /\ With(tbl, i, e)[i] = e
         /\ \A j \in DOMAIN tbl \ {i} : With(tbl, i, e)[j] = tbl[j]
BY DEF With

\* A table of entries with another entry.
LEMMA WithTyped ==
  ASSUME NEW tbl \in [0 .. ENTRIES - 1 -> Entries], NEW i \in 0 .. ENTRIES - 1, NEW e \in Entries
  PROVE  With(tbl, i, e) \in [0 .. ENTRIES - 1 -> Entries]
BY DEF With

\* The entries that are written.
LEMMA Written ==
  ASSUME NEW f \in Nat, NEW x \in BOOLEAN
  PROVE  /\ DirectoryEntry(f, x) \in Entries /\ Points(DirectoryEntry(f, x), f)
         /\ DirectoryEntry(f, x).present /\ DirectoryEntry(f, x).frame = f /\ DirectoryEntry(f, x).user = x
         /\ LeafEntry(f, x) \in Entries
         /\ LeafEntry(f, x).present /\ LeafEntry(f, x).frame = f /\ LeafEntry(f, x).user = x
         /\ LeafEntry(f, x).write /\ LeafEntry(f, x).nx
BY DEF DirectoryEntry, LeafEntry, Entry, Entries, Points

------------------------------------------------------------------------------
(* Permissions *)

\* A table tree of which only flags changed: those of the image and of the
\* entries that lead to them.
Reflagged(a, b) ==
  /\ DOMAIN b = DOMAIN a
  /\ \A t \in DOMAIN a : b[t] \in [0 .. ENTRIES - 1 -> Entries]
  /\ \A t \in DOMAIN a \ BootFrames : b[t] = a[t]
  /\ \A i \in 1 .. ENTRIES - 1 : b[PDT][i] = a[PDT][i]
  /\ Points(b[PML4T][0], PDPT) /\ Points(b[PDPT][0], PDT) /\ Points(b[PDT][0], PT)

\* It is still a tree.
LEMMA ReflaggedTree ==
  ASSUME NEW a, NEW b, IsTree(a), Reflagged(a, b)
  PROVE  IsTree(b)
<1>1. DOMAIN b = DOMAIN a /\ \A i \in 1 .. ENTRIES - 1 : b[PDT][i] = a[PDT][i]
  BY Zenon DEF Reflagged
<1>2. /\ \A t \in DOMAIN b : b[t] \in [0 .. ENTRIES - 1 -> Entries]
      /\ Points(b[PML4T][0], PDPT) /\ Points(b[PDPT][0], PDT) /\ Points(b[PDT][0], PT)
  BY <1>1, Zenon DEF Reflagged
<1>3. ASSUME NEW i \in 1 .. ENTRIES - 1, b[PDT][i].present
      PROVE  i \in HeapIndices /\ b[PDT][i].frame \in DOMAIN b \ BootFrames /\ Points(b[PDT][i], b[PDT][i].frame)
  BY <1>1, <1>3, Zenon DEF IsTree
<1>4. ASSUME NEW i \in 1 .. ENTRIES - 1, NEW j \in 1 .. ENTRIES - 1,
             b[PDT][i].present, b[PDT][j].present, b[PDT][i].frame = b[PDT][j].frame
      PROVE  i = j
  BY <1>1, <1>4, Zenon DEF IsTree
<1>5. ASSUME NEW t \in DOMAIN b \ BootFrames
      PROVE  \E i \in 1 .. ENTRIES - 1 : b[PDT][i].present /\ b[PDT][i].frame = t
  BY <1>1, Zenon DEF IsTree
<1>6. BootFrames \subseteq DOMAIN b /\ DOMAIN b \subseteq BootFrames \cup (FIRST_FREE_PAGE .. DataBase - 1)
  BY <1>1, Zenon DEF IsTree
<1> QED
  BY <1>2, <1>3, <1>4, <1>5, <1>6, Zenon DEF IsTree

\* The user bits of the entries that lead to the image.
Open(tbl) == tbl[PML4T][0].user /\ tbl[PDPT][0].user /\ tbl[PDT][0].user

\* Where set_page_permission goes for a page of the image.
LEMMA ImagePath ==
  ASSUME NEW tbl, NEW v \in Low,
         tbl[PML4T][0].frame = PDPT, tbl[PDPT][0].frame = PDT, tbl[PDT][0].frame = PT
  PROVE  Path(tbl, v) = <<<<PML4T, 0>>, <<PDPT, 0>>, <<PDT, 0>>, <<PT, v>>>>
<1>1. Index(v, 4) = 0 /\ Index(v, 3) = 0 /\ Index(v, 2) = 0 /\ Index(v, 1) = v
  BY Indices
<1> QED
  BY <1>1, Zenon DEF Path

\* Tables with the same entries are the same.
LEMMA SameEntries ==
  ASSUME NEW f \in [0 .. ENTRIES - 1 -> Entries], NEW g \in [0 .. ENTRIES - 1 -> Entries],
         \A i \in 0 .. ENTRIES - 1 : f[i] = g[i]
  PROVE  f = g
<1>1. f = [i \in 0 .. ENTRIES - 1 |-> f[i]] /\ g = [i \in 0 .. ENTRIES - 1 |-> g[i]]
  OBVIOUS
<1>2. [i \in 0 .. ENTRIES - 1 |-> f[i]] = [i \in 0 .. ENTRIES - 1 |-> g[i]]
  OBVIOUS
<1> QED
  BY <1>1, <1>2, Zenon

\* The pages of the image are mapped to themselves.
Own(tbl) == \A v \in Low : tbl[PT][v].frame = v

\* The entry of a page of the image after SET_PERMISSIONS, and what that does.
Flagged(v, os, w, x) == [present |-> TRUE, frame |-> v, write |-> w, user |-> os, nx |-> ~x]

SectionDone(a, tbl, section, os, w, x, r) ==
  /\ Reflagged(a, r) /\ Own(r)
  /\ \A v \in Low : r[PT][v] = IF v \in section THEN Flagged(v, os, w, x) ELSE tbl[PT][v]
  /\ section # {} => (Open(r) <=> os)
  /\ section = {} => (Open(r) <=> Open(tbl))

\* The flags as one record.
LEMMA FlagsOf ==
  ASSUME NEW e, NEW os \in BOOLEAN, NEW w \in BOOLEAN, NEW x \in BOOLEAN
  PROVE  LeafFlags(e, os, w, x) = Flagged(e.frame, os, w, x)
BY DEF LeafFlags, Entry, Flagged

\* SET_PERMISSIONS of a section of the image.
LEMMA SectionSet ==
  ASSUME NEW a, NEW tbl, BootFrames \subseteq DOMAIN a, Reflagged(a, tbl), Own(tbl),
         NEW section \in SUBSET Low, NEW os \in BOOLEAN, NEW w \in BOOLEAN, NEW x \in BOOLEAN
  PROVE  SectionDone(a, tbl, section, os, w, x, SetPermissions(tbl, section, os, w, x))
<1> DEFINE r == SetPermissions(tbl, section, os, w, x)
           leaves == {Path(tbl, v)[4] : v \in section}
           directories == {Path(tbl, v)[n] : v \in section, n \in 1 .. 3}
<1>1. /\ DOMAIN tbl = DOMAIN a
      /\ \A t \in DOMAIN tbl : tbl[t] \in [0 .. ENTRIES - 1 -> Entries]
      /\ PML4T \in DOMAIN tbl /\ PDPT \in DOMAIN tbl /\ PDT \in DOMAIN tbl /\ PT \in DOMAIN tbl
      /\ tbl[PML4T][0].frame = PDPT /\ tbl[PDPT][0].frame = PDT /\ tbl[PDT][0].frame = PT
  BY DEF Reflagged, BootFrames, Points
<1>2. \A v \in section : Path(tbl, v) = <<<<PML4T, 0>>, <<PDPT, 0>>, <<PDT, 0>>, <<PT, v>>>>
  BY <1>1, ImagePath
<1> HIDE DEF leaves, directories
<1>3. \A t, i : <<t, i>> \in leaves <=> t = PT /\ i \in section
  <2>1. \A v \in section : Path(tbl, v)[4] = <<PT, v>>
    BY <1>2
  <2> QED BY <2>1 DEF leaves
<1>4. \A t, i : <<t, i>> \in directories <=> t \in {PML4T, PDPT, PDT} /\ i = 0 /\ section # {}
  <2>1. \A v \in section : /\ Path(tbl, v)[1] = <<PML4T, 0>> /\ Path(tbl, v)[2] = <<PDPT, 0>>
                           /\ Path(tbl, v)[3] = <<PDT, 0>>
    BY <1>2
  <2> SUFFICES ASSUME NEW t, NEW i
               PROVE  <<t, i>> \in directories <=> t \in {PML4T, PDPT, PDT} /\ i = 0 /\ section # {}
    BY Zenon
  <2>2. ASSUME <<t, i>> \in directories PROVE t \in {PML4T, PDPT, PDT} /\ i = 0 /\ section # {}
    <3>1. PICK v \in section, n \in 1 .. 3 : <<t, i>> = Path(tbl, v)[n]
      BY <2>2 DEF directories
    <3>2. n = 1 \/ n = 2 \/ n = 3
      OBVIOUS
    <3> QED BY <2>1, <3>1, <3>2
  <2>3. ASSUME t \in {PML4T, PDPT, PDT}, i = 0, section # {} PROVE <<t, i>> \in directories
    <3>1. PICK v \in section : TRUE
      BY <2>3
    <3>2. 1 \in 1 .. 3 /\ 2 \in 1 .. 3 /\ 3 \in 1 .. 3
      OBVIOUS
    <3> QED BY <2>1, <2>3, <3>1, <3>2 DEF directories
  <2> QED BY <2>2, <2>3
<1>5. r = [t \in DOMAIN tbl |-> [i \in DOMAIN tbl[t] |->
             IF <<t, i>> \in leaves THEN LeafFlags(tbl[t][i], os, w, x)
             ELSE IF <<t, i>> \in directories THEN Entry(tbl[t][i].frame, os, FALSE)
             ELSE tbl[t][i]]]
  BY DEF SetPermissions, leaves, directories
<1> HIDE DEF r
<1>6. /\ DOMAIN r = DOMAIN tbl
      /\ \A t \in DOMAIN tbl : \A i \in 0 .. ENTRIES - 1 :
           r[t][i] = IF t = PT /\ i \in section THEN LeafFlags(tbl[t][i], os, w, x)
                     ELSE IF t \in {PML4T, PDPT, PDT} /\ i = 0 /\ section # {} THEN DirectoryEntry(tbl[t][i].frame, os)
                     ELSE tbl[t][i]
  <2>1. DOMAIN r = DOMAIN tbl
    BY <1>5
  <2>2. ASSUME NEW t \in DOMAIN tbl, NEW i \in 0 .. ENTRIES - 1
        PROVE  r[t][i] = IF t = PT /\ i \in section THEN LeafFlags(tbl[t][i], os, w, x)
                         ELSE IF t \in {PML4T, PDPT, PDT} /\ i = 0 /\ section # {}
                              THEN DirectoryEntry(tbl[t][i].frame, os)
                         ELSE tbl[t][i]
    <3>1. i \in DOMAIN tbl[t]
      BY <1>1, Zenon
    <3>2. r[t][i] = IF <<t, i>> \in leaves THEN LeafFlags(tbl[t][i], os, w, x)
                    ELSE IF <<t, i>> \in directories THEN Entry(tbl[t][i].frame, os, FALSE)
                    ELSE tbl[t][i]
      BY <1>5, <3>1, Zenon
    <3>3. <<t, i>> \in leaves <=> t = PT /\ i \in section
      BY <1>3, Zenon
    <3>4. <<t, i>> \in directories <=> t \in {PML4T, PDPT, PDT} /\ i = 0 /\ section # {}
      BY <1>4, Zenon
    <3>5. DirectoryEntry(tbl[t][i].frame, os) = Entry(tbl[t][i].frame, os, FALSE)
      BY DEF DirectoryEntry
    <3> QED BY <3>2, <3>3, <3>4, <3>5, Zenon
  <2> QED BY <2>1, <2>2
<1>8. \A e \in Entries : LeafFlags(e, os, w, x) \in Entries /\ DirectoryEntry(e.frame, os) \in Entries
  BY DEF LeafFlags, DirectoryEntry, Entry, Entries
<1>10. ASSUME NEW t \in DOMAIN tbl PROVE r[t] \in [0 .. ENTRIES - 1 -> Entries]
  <2>1. DOMAIN tbl[t] = 0 .. ENTRIES - 1 /\ \A i \in 0 .. ENTRIES - 1 : tbl[t][i] \in Entries
    BY <1>1, Zenon
  <2>2. ASSUME NEW i \in 0 .. ENTRIES - 1 PROVE r[t][i] \in Entries
    <3>1. /\ LeafFlags(tbl[t][i], os, w, x) \in Entries /\ DirectoryEntry(tbl[t][i].frame, os) \in Entries
          /\ tbl[t][i] \in Entries
      BY <1>8, <2>1
    <3>2. r[t][i] \in {LeafFlags(tbl[t][i], os, w, x), DirectoryEntry(tbl[t][i].frame, os), tbl[t][i]}
      BY <1>6
    <3> QED BY <3>1, <3>2
  <2>3. r[t] = [i \in DOMAIN tbl[t] |->
             IF <<t, i>> \in leaves THEN LeafFlags(tbl[t][i], os, w, x)
             ELSE IF <<t, i>> \in directories THEN Entry(tbl[t][i].frame, os, FALSE)
             ELSE tbl[t][i]]
    BY <1>5, Zenon
  <2>4. r[t] = [i \in 0 .. ENTRIES - 1 |-> r[t][i]]
    BY <2>1, <2>3
  <2> QED BY <2>2, <2>4
<1>11. ASSUME NEW t \in DOMAIN tbl \ BootFrames PROVE r[t] = tbl[t]
  <2>1. t # PT /\ t \notin {PML4T, PDPT, PDT} /\ t \in DOMAIN tbl
    BY Zenon DEF BootFrames
  <2>2. \A i \in 0 .. ENTRIES - 1 : r[t][i] = tbl[t][i]
    BY <1>6, <2>1
  <2>3. r[t] \in [0 .. ENTRIES - 1 -> Entries] /\ tbl[t] \in [0 .. ENTRIES - 1 -> Entries]
    BY <1>1, <1>10, <2>1, Zenon
  <2> QED BY <2>2, <2>3, SameEntries, Zenon
<1>12. \A i \in 1 .. ENTRIES - 1 : r[PDT][i] = tbl[PDT][i]
  BY <1>1, <1>6, BootTablesApart, Sizing
<1>13. 0 \in 0 .. ENTRIES - 1
  BY Sizing
<1>14. \A t \in {PML4T, PDPT, PDT} :
         r[t][0] = IF section # {} THEN DirectoryEntry(tbl[t][0].frame, os) ELSE tbl[t][0]
  BY <1>1, <1>6, <1>13, BootTablesApart
<1>15. /\ r[PML4T][0] = IF section # {} THEN DirectoryEntry(PDPT, os) ELSE tbl[PML4T][0]
       /\ r[PDPT][0] = IF section # {} THEN DirectoryEntry(PDT, os) ELSE tbl[PDPT][0]
       /\ r[PDT][0] = IF section # {} THEN DirectoryEntry(PT, os) ELSE tbl[PDT][0]
  BY <1>1, <1>14
<1>16. PDPT \in Nat /\ PDT \in Nat /\ PT \in Nat
  BY BootTablesApart DEF BootFrames
<1>17. /\ Points(DirectoryEntry(PDPT, os), PDPT) /\ Points(DirectoryEntry(PDT, os), PDT)
       /\ Points(DirectoryEntry(PT, os), PT)
       /\ DirectoryEntry(PDPT, os).user = os /\ DirectoryEntry(PDT, os).user = os /\ DirectoryEntry(PT, os).user = os
  BY <1>16, Written
<1>18. Points(r[PML4T][0], PDPT) /\ Points(r[PDPT][0], PDT) /\ Points(r[PDT][0], PT)
  BY <1>15, <1>17, Zenon DEF Reflagged
<1>19. Reflagged(a, r)
  BY <1>1, <1>6, <1>10, <1>11, <1>12, <1>18, Zenon DEF Reflagged
<1>20. \A v \in Low : r[PT][v] = IF v \in section THEN LeafFlags(tbl[PT][v], os, w, x) ELSE tbl[PT][v]
  BY <1>1, <1>6, BootTablesApart DEF Low
<1>21. (section # {} => (Open(r) <=> os)) /\ (section = {} => (Open(r) <=> Open(tbl)))
  BY <1>15, <1>17, Zenon DEF Open
<1>22. \A v \in Low : LeafFlags(tbl[PT][v], os, w, x) = Flagged(v, os, w, x) /\ Flagged(v, os, w, x).frame = v
  <2>1. ASSUME NEW v \in Low PROVE LeafFlags(tbl[PT][v], os, w, x) = Flagged(v, os, w, x)
    <3>1. tbl[PT][v].frame = v
      BY DEF Own
    <3>2. LeafFlags(tbl[PT][v], os, w, x) = Flagged(tbl[PT][v].frame, os, w, x)
      BY FlagsOf, Zenon
    <3> QED BY <3>1, <3>2
  <2>2. ASSUME NEW v \in Low PROVE Flagged(v, os, w, x).frame = v
    BY DEF Flagged
  <2> QED BY <2>1, <2>2
<1>23. \A v \in Low : r[PT][v] = IF v \in section THEN Flagged(v, os, w, x) ELSE tbl[PT][v]
  BY <1>20, <1>22
<1>24. Own(r)
  BY <1>22, <1>23 DEF Own
<1>25. SectionDone(a, tbl, section, os, w, x, r)
  BY <1>19, <1>21, <1>23, <1>24 DEF SectionDone
<1> QED
  BY <1>25 DEF r

\* No page is in two sections.
LEMMA OneSection ==
  ASSUME NEW v
  PROVE  /\ v \in KERNEL_TEXT => v \notin KERNEL_RODATA \cup KERNEL_DATA \cup KERNEL_BSS \cup OSPages
         /\ v \in KERNEL_RODATA => v \notin KERNEL_DATA \cup KERNEL_BSS \cup OSPages
         /\ v \in KERNEL_DATA \cup KERNEL_BSS => v \notin OSPages
         /\ v \in OS_TEXT => v \notin OS_RODATA \cup OS_DATA \cup OS_BSS
         /\ v \in OS_RODATA => v \notin OS_DATA \cup OS_BSS
<1>1. /\ DOMAIN Sections = 1 .. 9 /\ Sections[2] = KERNEL_TEXT
      /\ Sections[3] = KERNEL_RODATA /\ Sections[4] = KERNEL_DATA /\ Sections[5] = KERNEL_BSS
      /\ Sections[6] = OS_TEXT /\ Sections[7] = OS_RODATA /\ Sections[8] = OS_DATA /\ Sections[9] = OS_BSS
  BY DEF Sections
<1>2. \A i, j \in 1 .. 9 : i # j => Sections[i] \cap Sections[j] = {}
  BY <1>1, PagingAssumption
<1>3. \A i, j \in 1 .. 9 : v \in Sections[i] /\ v \in Sections[j] => i = j
  BY <1>2
<1>4. v \in KERNEL_TEXT => v \notin KERNEL_RODATA \cup KERNEL_DATA \cup KERNEL_BSS \cup OSPages
  BY <1>1, <1>3 DEF OSPages
<1>5. v \in KERNEL_RODATA => v \notin KERNEL_DATA \cup KERNEL_BSS \cup OSPages
  BY <1>1, <1>3 DEF OSPages
<1>6. v \in KERNEL_DATA => v \notin OSPages
  BY <1>1, <1>3 DEF OSPages
<1>7. v \in KERNEL_BSS => v \notin OSPages
  BY <1>1, <1>3 DEF OSPages
<1>8. v \in OS_TEXT => v \notin OS_RODATA \cup OS_DATA \cup OS_BSS
  BY <1>1, <1>3
<1>9. v \in OS_RODATA => v \notin OS_DATA \cup OS_BSS
  BY <1>1, <1>3
<1> QED
  BY <1>4, <1>5, <1>6, <1>7, <1>8, <1>9

\* vmm_set_page_permissions: what the sections of the image have in the end.
LEMMA PermissionsSet ==
  ASSUME Tree, Identity, phase # "user"
  PROVE  LET r == AllPermissions(table)
         IN  /\ Reflagged(table, r)
             /\ \A v \in Low : r[PT][v] = [present |-> TRUE, frame |-> v, write |-> v \notin ReadOnly,
                                           user |-> v \in OSPages, nx |-> v \in NoExecute]
             /\ OSPages # {} => Open(r)
<1> DEFINE kdata == KERNEL_DATA \cup KERNEL_BSS
           odata == OS_DATA \cup OS_BSS
           low == 0 .. BOOT_START
<1>1. /\ BOOT \in SUBSET Low /\ low \in SUBSET Low /\ KERNEL_TEXT \in SUBSET Low
      /\ KERNEL_RODATA \in SUBSET Low /\ kdata \in SUBSET Low
      /\ OS_TEXT \in SUBSET Low /\ OS_RODATA \in SUBSET Low /\ odata \in SUBSET Low
  BY ImageIsLow, Zenon DEF OSPages
<1>2. BootFrames \subseteq DOMAIN table /\ Reflagged(table, table)
  BY DEF Tree, IsTree, Reflagged
<1>3. \A v \in Low : table[PT][v] = Flagged(v, FALSE, TRUE, TRUE) /\ table[PT][v].frame = v
  <2>1. (~TRUE) = FALSE
    OBVIOUS
  <2>2. \A v : Flagged(v, FALSE, TRUE, TRUE) = Entry(v, FALSE, FALSE) /\ Entry(v, FALSE, FALSE).frame = v
    BY <2>1, Zenon DEF Flagged, Entry
  <2>3. \A v \in Low : table[PT][v] = Entry(v, FALSE, FALSE)
    BY Zenon DEF Identity
  <2> QED BY <2>2, <2>3, Zenon
<1>3a. Own(table)
  BY <1>3, Zenon DEF Own
<1>3b. TRUE \in BOOLEAN /\ FALSE \in BOOLEAN
  OBVIOUS
<1> HIDE DEF kdata, odata, low
<1>4. PICK t1 : t1 = SetPermissions(table, BOOT, FALSE, TRUE, TRUE)
  BY Zenon
<1>5. SectionDone(table, table, BOOT, FALSE, TRUE, TRUE, t1) /\ Reflagged(table, t1) /\ Own(t1)
  <2>1. SectionDone(table, table, BOOT, FALSE, TRUE, TRUE, SetPermissions(table, BOOT, FALSE, TRUE, TRUE))
    BY <1>1, <1>2, <1>3a, <1>3b, SectionSet, Zenon
  <2>2. SectionDone(table, table, BOOT, FALSE, TRUE, TRUE, t1)
    BY <1>4, <2>1, Zenon
  <2> QED BY <2>2, Zenon DEF SectionDone
<1>6. PICK t2 : t2 = SetPermissions(t1, low, FALSE, TRUE, TRUE)
  BY Zenon
<1>7. SectionDone(table, t1, low, FALSE, TRUE, TRUE, t2) /\ Reflagged(table, t2) /\ Own(t2)
  <2>1. SectionDone(table, t1, low, FALSE, TRUE, TRUE, SetPermissions(t1, low, FALSE, TRUE, TRUE))
    BY <1>1, <1>2, <1>5, <1>3b, SectionSet, Zenon
  <2>2. SectionDone(table, t1, low, FALSE, TRUE, TRUE, t2)
    BY <1>6, <2>1, Zenon
  <2> QED BY <2>2, Zenon DEF SectionDone
<1>8. PICK t3 : t3 = SetPermissions(t2, KERNEL_TEXT, FALSE, FALSE, TRUE)
  BY Zenon
<1>9. SectionDone(table, t2, KERNEL_TEXT, FALSE, FALSE, TRUE, t3) /\ Reflagged(table, t3) /\ Own(t3)
  <2>1. SectionDone(table, t2, KERNEL_TEXT, FALSE, FALSE, TRUE, SetPermissions(t2, KERNEL_TEXT, FALSE, FALSE, TRUE))
    BY <1>1, <1>2, <1>7, <1>3b, SectionSet, Zenon
  <2>2. SectionDone(table, t2, KERNEL_TEXT, FALSE, FALSE, TRUE, t3)
    BY <1>8, <2>1, Zenon
  <2> QED BY <2>2, Zenon DEF SectionDone
<1>10. PICK t4 : t4 = SetPermissions(t3, KERNEL_RODATA, FALSE, FALSE, FALSE)
  BY Zenon
<1>11. SectionDone(table, t3, KERNEL_RODATA, FALSE, FALSE, FALSE, t4) /\ Reflagged(table, t4) /\ Own(t4)
  <2>1. SectionDone(table, t3, KERNEL_RODATA, FALSE, FALSE, FALSE, SetPermissions(t3, KERNEL_RODATA, FALSE, FALSE, FALSE))
    BY <1>1, <1>2, <1>9, <1>3b, SectionSet, Zenon
  <2>2. SectionDone(table, t3, KERNEL_RODATA, FALSE, FALSE, FALSE, t4)
    BY <1>10, <2>1, Zenon
  <2> QED BY <2>2, Zenon DEF SectionDone
<1>12. PICK t5 : t5 = SetPermissions(t4, kdata, FALSE, TRUE, FALSE)
  BY Zenon
<1>13. SectionDone(table, t4, kdata, FALSE, TRUE, FALSE, t5) /\ Reflagged(table, t5) /\ Own(t5)
  <2>1. SectionDone(table, t4, kdata, FALSE, TRUE, FALSE, SetPermissions(t4, kdata, FALSE, TRUE, FALSE))
    BY <1>1, <1>2, <1>11, <1>3b, SectionSet, Zenon
  <2>2. SectionDone(table, t4, kdata, FALSE, TRUE, FALSE, t5)
    BY <1>12, <2>1, Zenon
  <2> QED BY <2>2, Zenon DEF SectionDone
<1>14. PICK t6 : t6 = SetPermissions(t5, OS_TEXT, TRUE, FALSE, TRUE)
  BY Zenon
<1>15. SectionDone(table, t5, OS_TEXT, TRUE, FALSE, TRUE, t6) /\ Reflagged(table, t6) /\ Own(t6)
  <2>1. SectionDone(table, t5, OS_TEXT, TRUE, FALSE, TRUE, SetPermissions(t5, OS_TEXT, TRUE, FALSE, TRUE))
    BY <1>1, <1>2, <1>13, <1>3b, SectionSet, Zenon
  <2>2. SectionDone(table, t5, OS_TEXT, TRUE, FALSE, TRUE, t6)
    BY <1>14, <2>1, Zenon
  <2> QED BY <2>2, Zenon DEF SectionDone
<1>16. PICK t7 : t7 = SetPermissions(t6, OS_RODATA, TRUE, FALSE, FALSE)
  BY Zenon
<1>17. SectionDone(table, t6, OS_RODATA, TRUE, FALSE, FALSE, t7) /\ Reflagged(table, t7) /\ Own(t7)
  <2>1. SectionDone(table, t6, OS_RODATA, TRUE, FALSE, FALSE, SetPermissions(t6, OS_RODATA, TRUE, FALSE, FALSE))
    BY <1>1, <1>2, <1>15, <1>3b, SectionSet, Zenon
  <2>2. SectionDone(table, t6, OS_RODATA, TRUE, FALSE, FALSE, t7)
    BY <1>16, <2>1, Zenon
  <2> QED BY <2>2, Zenon DEF SectionDone
<1>18. PICK t8 : t8 = SetPermissions(t7, odata, TRUE, TRUE, FALSE)
  BY Zenon
<1>19. SectionDone(table, t7, odata, TRUE, TRUE, FALSE, t8) /\ Reflagged(table, t8) /\ Own(t8)
  <2>1. SectionDone(table, t7, odata, TRUE, TRUE, FALSE, SetPermissions(t7, odata, TRUE, TRUE, FALSE))
    BY <1>1, <1>2, <1>17, <1>3b, SectionSet, Zenon
  <2>2. SectionDone(table, t7, odata, TRUE, TRUE, FALSE, t8)
    BY <1>18, <2>1, Zenon
  <2> QED BY <2>2, Zenon DEF SectionDone
<1>20. AllPermissions(table) = t8
  BY <1>4, <1>6, <1>8, <1>10, <1>12, <1>14, <1>16, <1>18, Zenon
     DEF AllPermissions, KernelPermissions, OSPermissions, low, kdata, odata
<1>21. OSPages # {} => Open(t8)
  BY <1>15, <1>17, <1>19 DEF OSPages, odata, SectionDone
<1>22. ASSUME NEW v \in Low
       PROVE  t8[PT][v] = Flagged(v, v \in OSPages, v \notin ReadOnly, v \notin NoExecute)
  <2>0a. t1[PT][v] = IF v \in BOOT THEN Flagged(v, FALSE, TRUE, TRUE) ELSE table[PT][v]
    BY <1>5, Zenon DEF SectionDone
  <2>0b. t2[PT][v] = IF v \in low THEN Flagged(v, FALSE, TRUE, TRUE) ELSE t1[PT][v]
    BY <1>7, Zenon DEF SectionDone
  <2>0c. t3[PT][v] = IF v \in KERNEL_TEXT THEN Flagged(v, FALSE, FALSE, TRUE) ELSE t2[PT][v]
    BY <1>9, Zenon DEF SectionDone
  <2>0d. t4[PT][v] = IF v \in KERNEL_RODATA THEN Flagged(v, FALSE, FALSE, FALSE) ELSE t3[PT][v]
    BY <1>11, Zenon DEF SectionDone
  <2>0e. t5[PT][v] = IF v \in kdata THEN Flagged(v, FALSE, TRUE, FALSE) ELSE t4[PT][v]
    BY <1>13, Zenon DEF SectionDone
  <2>0f. t6[PT][v] = IF v \in OS_TEXT THEN Flagged(v, TRUE, FALSE, TRUE) ELSE t5[PT][v]
    BY <1>15, Zenon DEF SectionDone
  <2>0g. t7[PT][v] = IF v \in OS_RODATA THEN Flagged(v, TRUE, FALSE, FALSE) ELSE t6[PT][v]
    BY <1>17, Zenon DEF SectionDone
  <2>0h. t8[PT][v] = IF v \in odata THEN Flagged(v, TRUE, TRUE, FALSE) ELSE t7[PT][v]
    BY <1>19, Zenon DEF SectionDone
  <2>1. t2[PT][v] = Flagged(v, FALSE, TRUE, TRUE)
    BY <1>3, <2>0a, <2>0b, Zenon
  <2>2. /\ v \in KERNEL_TEXT => v \notin KERNEL_RODATA \cup KERNEL_DATA \cup KERNEL_BSS \cup OSPages
        /\ v \in KERNEL_RODATA => v \notin KERNEL_DATA \cup KERNEL_BSS \cup OSPages
        /\ v \in KERNEL_DATA \cup KERNEL_BSS => v \notin OSPages
        /\ v \in OS_TEXT => v \notin OS_RODATA \cup OS_DATA \cup OS_BSS
        /\ v \in OS_RODATA => v \notin OS_DATA \cup OS_BSS
    BY OneSection
  <2>3. CASE v \in KERNEL_TEXT
    <3>1. t8[PT][v] = Flagged(v, FALSE, FALSE, TRUE)
      BY <2>0c, <2>0d, <2>0e, <2>0f, <2>0g, <2>0h, <2>2, <2>3, Zenon DEF kdata, odata, OSPages
    <3>2. (v \in OSPages) = FALSE /\ (v \notin ReadOnly) = FALSE /\ (v \notin NoExecute) = TRUE
      BY <2>2, <2>3 DEF OSPages, ReadOnly, NoExecute
    <3> QED BY <3>1, <3>2, Zenon
  <2>4. CASE v \in KERNEL_RODATA
    <3>1. t8[PT][v] = Flagged(v, FALSE, FALSE, FALSE)
      BY <2>0d, <2>0e, <2>0f, <2>0g, <2>0h, <2>2, <2>4, Zenon DEF kdata, odata, OSPages
    <3>2. (v \in OSPages) = FALSE /\ (v \notin ReadOnly) = FALSE /\ (v \notin NoExecute) = FALSE
      BY <2>2, <2>4 DEF OSPages, ReadOnly, NoExecute
    <3> QED BY <3>1, <3>2, Zenon
  <2>5. CASE v \in kdata
    <3>1. t8[PT][v] = Flagged(v, FALSE, TRUE, FALSE)
      BY <2>0e, <2>0f, <2>0g, <2>0h, <2>2, <2>5, Zenon DEF kdata, odata, OSPages
    <3>2. (v \in OSPages) = FALSE /\ (v \notin ReadOnly) = TRUE /\ (v \notin NoExecute) = FALSE
      BY <2>2, <2>5 DEF OSPages, ReadOnly, NoExecute, kdata
    <3> QED BY <3>1, <3>2, Zenon
  <2>6. CASE v \in OS_TEXT
    <3>1. t8[PT][v] = Flagged(v, TRUE, FALSE, TRUE)
      BY <2>0f, <2>0g, <2>0h, <2>2, <2>6, Zenon DEF odata
    <3>2. (v \in OSPages) = TRUE /\ (v \notin ReadOnly) = FALSE /\ (v \notin NoExecute) = TRUE
      BY <2>2, <2>6 DEF OSPages, ReadOnly, NoExecute
    <3> QED BY <3>1, <3>2, Zenon
  <2>7. CASE v \in OS_RODATA
    <3>1. t8[PT][v] = Flagged(v, TRUE, FALSE, FALSE)
      BY <2>0g, <2>0h, <2>2, <2>7 DEF odata
    <3>2. (v \in OSPages) = TRUE /\ (v \notin ReadOnly) = FALSE /\ (v \notin NoExecute) = FALSE
      BY <2>2, <2>7 DEF OSPages, ReadOnly, NoExecute
    <3> QED BY <3>1, <3>2, Zenon
  <2>8. CASE v \in odata
    <3>1. t8[PT][v] = Flagged(v, TRUE, TRUE, FALSE)
      BY <2>0h, <2>8
    <3>2. (v \in OSPages) = TRUE /\ (v \notin ReadOnly) = TRUE /\ (v \notin NoExecute) = FALSE
      BY <2>2, <2>8 DEF OSPages, ReadOnly, NoExecute, odata
    <3> QED BY <3>1, <3>2, Zenon
  <2>9. CASE v \notin KERNEL_TEXT \cup KERNEL_RODATA \cup kdata \cup OS_TEXT \cup OS_RODATA \cup odata
    <3>1. t8[PT][v] = Flagged(v, FALSE, TRUE, TRUE)
      BY <2>0c, <2>0d, <2>0e, <2>0f, <2>0g, <2>0h, <2>1, <2>9, Zenon
    <3>2. (v \in OSPages) = FALSE /\ (v \notin ReadOnly) = TRUE /\ (v \notin NoExecute) = TRUE
      BY <2>9 DEF OSPages, ReadOnly, NoExecute, kdata, odata
    <3> QED BY <3>1, <3>2, Zenon
  <2> QED BY <2>3, <2>4, <2>5, <2>6, <2>7, <2>8, <2>9
<1>23. \A v \in Low : t8[PT][v] = [present |-> TRUE, frame |-> v, write |-> v \notin ReadOnly,
                                   user |-> v \in OSPages, nx |-> v \in NoExecute]
  BY <1>22 DEF Flagged
<1> QED
  BY <1>19, <1>20, <1>21, <1>23

\* A page of the heap keeps its entries when only flags of the image change.
LEMMA HeapReflagged ==
  ASSUME Tree, Reflagged(table, table'), NEW v \in Heap
  PROVE  (Mapped(v)' <=> Mapped(v)) /\ (Mapped(v) => Leaf(v)' = Leaf(v))
<1>1. v \div ENTRIES \in 1 .. ENTRIES - 1
  BY Indices, Sizing
<1>2. Directory(v)' = Directory(v)
  BY <1>1, Zenon DEF Reflagged, Directory
<1>3. Directory(v).present => Directory(v).frame \in DOMAIN table \ BootFrames
  BY <1>1, Zenon DEF Tree, IsTree, Directory
<1>4. Directory(v).present => table'[Directory(v).frame] = table[Directory(v).frame]
  BY <1>3 DEF Reflagged
<1>5. Leaf(v)' = table'[Directory(v)'.frame][v % ENTRIES] /\ Leaf(v) = table[Directory(v).frame][v % ENTRIES]
  BY Zenon DEF Leaf
<1>6. Directory(v).present => Leaf(v)' = Leaf(v)
  BY <1>2, <1>4, <1>5
<1>7. (Mapped(v) <=> Directory(v).present /\ Leaf(v).present) /\ (Mapped(v)' <=> Directory(v)'.present /\ Leaf(v)'.present)
  BY DEF Mapped
<1> QED
  BY <1>2, <1>6, <1>7

\* vmm_set_page_permissions keeps the invariant.
LEMMA PermissionsKeep ==
  ASSUME PagingInv, vmm_set_page_permissions
  PROVE  PagingInv'
<1>0. Tree /\ Frames /\ Identity /\ Flags /\ Spans /\ Remembered
  BY DEF PagingInv
<1>1. /\ phase = "boot" /\ phase' = "user" /\ job.left = 0 /\ table' = AllPermissions(table)
      /\ free' = free /\ job' = job /\ hfree' = hfree /\ held' = held /\ users' = users /\ grown' = grown
      /\ DOMAIN tlb' \subseteq DOMAIN tlb /\ \A v \in DOMAIN tlb' : tlb'[v] = tlb[v]
  BY Zenon DEF vmm_set_page_permissions
<1>2. /\ Reflagged(table, table')
      /\ \A v \in Low : table'[PT][v] = [present |-> TRUE, frame |-> v, write |-> v \notin ReadOnly,
                                         user |-> v \in OSPages, nx |-> v \in NoExecute]
      /\ OSPages # {} => Open(table')
  BY <1>0, <1>1, PermissionsSet
<1>3. UserPages' = UserPages /\ OSPages' = OSPages /\ Pending' = Pending /\ UserPages = {}
  <2>1. users = {}
    BY <1>0, <1>1 DEF Flags
  <2>2. UserPages = {}
    BY <2>1 DEF UserPages
  <2> QED BY <1>1, <2>2, SameUsers, SameJob, Zenon DEF OSPages
<1>4. Tree'
  BY <1>0, <1>2, ReflaggedTree, Zenon DEF Tree
<1>5. ASSUME NEW v \in Heap
      PROVE  (Mapped(v)' <=> Mapped(v)) /\ (Mapped(v) => Leaf(v)' = Leaf(v))
  BY <1>0, <1>2, HeapReflagged, Zenon
<1>6. ASSUME NEW v \in Low
      PROVE  /\ Mapped(v)' /\ Leaf(v)'.frame = v /\ Leaf(v)' = table'[PT][v] /\ Directory(v)' = table'[PDT][0]
             /\ Leaf(v)'.user = (v \in OSPages)
  <2>1. v \div ENTRIES = 0 /\ v % ENTRIES = v
    BY Indices
  <2>2. Directory(v)' = table'[PDT][0]
    BY <2>1, Zenon DEF Directory
  <2>3. Directory(v)'.present /\ Directory(v)'.frame = PT
    BY <1>2, <2>2 DEF Reflagged, Points
  <2>4. Leaf(v)' = table'[PT][v]
    BY <2>1, <2>3, Zenon DEF Leaf
  <2>5. Leaf(v)' = [present |-> TRUE, frame |-> v, write |-> v \notin ReadOnly,
                    user |-> v \in OSPages, nx |-> v \in NoExecute]
    BY <1>2, <2>4, Zenon
  <2>6. Leaf(v)'.present /\ Leaf(v)'.frame = v /\ Leaf(v)'.user = (v \in OSPages)
    BY <2>5, SMTT(15)
  <2> QED BY <2>2, <2>3, <2>4, <2>6 DEF Mapped
<1>7. Frames'
  <2>1. DOMAIN table' = DOMAIN table
    BY <1>2, Zenon DEF Reflagged
  <2>2. \A f \in DataBase .. LastFrame : f \in free' \/ \E v \in Heap : Mapped(v)' /\ Leaf(v)'.frame = f
    BY <1>0, <1>1, <1>5, Zenon DEF Frames
  <2>3. \A v \in Heap : Mapped(v)' => Device(Leaf(v)'.frame) \/ Leaf(v)'.frame \in (DataBase .. LastFrame) \ free'
    BY <1>0, <1>1, <1>5 DEF Frames
  <2>4. \A v, w \in Heap : Mapped(v)' /\ Mapped(w)' /\ ~Device(Leaf(v)'.frame) /\ Leaf(v)'.frame = Leaf(w)'.frame
                             => v = w
    BY <1>0, <1>5, Zenon DEF Frames
  <2> QED BY <1>0, <1>1, <2>1, <2>2, <2>3, <2>4 DEF Frames, Device
<1>8. Identity'
  BY <1>1, <1>2, Zenon DEF Identity, ReadOnly, NoExecute, OSPages, Low
<1>9. Flags'
  <2>1. \A v \in Heap : Mapped(v)' => Leaf(v)'.write /\ Leaf(v)'.nx /\ (Leaf(v)'.user => v \in UserPages')
    BY <1>0, <1>3, <1>5 DEF Flags
  <2>2. ASSUME NEW v \in OSPages
        PROVE  Mapped(v)' /\ table'[PML4T][0].user /\ table'[PDPT][0].user /\ Directory(v)'.user /\ Leaf(v)'.user
    <3>1. v \in Low /\ Open(table')
      BY <1>2, ImageIsLow, Zenon
    <3> QED BY <1>6, <3>1, Zenon DEF Open
  <2> QED BY <1>1, <1>3, <2>1, <2>2, Zenon DEF Flags
<1>10. Spans'
  <2>1. \A s \in held' : \A v \in Space!Pages(s) \ Pending' : Mapped(v)'
    BY <1>0, <1>1, <1>3, <1>5 DEF Spans
  <2>2. (job'.user => Pending' \subseteq UserPages') /\ Pending' \subseteq Heap
    BY <1>0, <1>1, <1>3 DEF Spans
  <2>3. ~(job'.left > 0)
    BY <1>1
  <2> QED BY <1>0, <1>1, <2>1, <2>2, <2>3, Zenon DEF Spans, Device, Space!Pages
<1>11. Remembered'
  <2>1. ASSUME NEW v \in DOMAIN tlb'
        PROVE  Mapped(v)' /\ tlb'[v].frame = Leaf(v)'.frame /\ (tlb'[v].user => v \in OSPages' \cup UserPages')
    <3>1. /\ Mapped(v) /\ tlb[v].frame = Leaf(v).frame /\ (tlb[v].user => v \in OSPages \cup UserPages)
          /\ tlb'[v] = tlb[v] /\ v \in Low \cup Heap
      BY <1>0, <1>1, PagingAssumption, Zenon DEF Remembered
    <3>2. CASE v \in Heap
      BY <1>3, <1>5, <3>1, <3>2, Zenon
    <3>3. CASE v \in Low
      <4>1. Leaf(v).frame = v
        BY <1>0, <3>3, LowPage
      <4> QED BY <1>3, <1>6, <3>1, <3>3, <4>1, Zenon
    <3> QED BY <3>1, <3>2, <3>3, Zenon
  <2>2. DOMAIN tlb' \subseteq Watched
    BY <1>0, <1>1, Zenon DEF Remembered
  <2> QED BY <2>1, <2>2, Zenon DEF Remembered
<1> QED
  BY <1>4, <1>7, <1>8, <1>9, <1>10, <1>11 DEF PagingInv

------------------------------------------------------------------------------
(* The calls that serve and free spans of the heap *)

\* What vmm_mmap does: nothing, or a span of free pages that is to be mapped.
LEMMA Served ==
  ASSUME Spans, NEW physical \in {NULL, FrameBuffer}, NEW pages \in Nat \ {0}, NEW user \in BOOLEAN,
         vmm_mmap(physical, pages, user)
  PROVE  /\ Pending = {} /\ free' = free /\ table' = table /\ tlb' = tlb /\ recycled' = recycled
         /\ hfree' \subseteq Heap /\ hfree' \cup Pending' \subseteq hfree /\ hfree' \cap Pending' = {}
         /\ job' \in [left : Nat, virtual : Nat, physical : Nat, user : BOOLEAN]
         /\ job'.physical = NULL \/ Device(job'.physical)
         /\ ret' = NULL => held' = held /\ Pending' = {} /\ job'.left = 0 /\ ~job'.user
         /\ ret' # NULL => /\ held' = held \cup {[start |-> ret', pages |-> pages]}
                           /\ Pending' = Space!Pages([start |-> ret', pages |-> pages])
                           /\ Pending' \subseteq Heap
                           /\ job'.user = user
<1>1. job \in [left : Nat, virtual : Nat, physical : Nat, user : BOOLEAN] /\ job.left = 0 /\ hfree \subseteq Heap
  BY DEF Spans, vmm_mmap
<1>2. Pending = {}
  BY <1>1 DEF Pending
<1>3. Heap \subseteq Nat /\ NULL \notin Heap
  BY Sizing DEF Heap, HEAP_START, NULL
<1>4. free' = free /\ table' = table /\ tlb' = tlb /\ recycled' = recycled
  BY DEF vmm_mmap
<1>5. job' = IF ret' = NULL THEN NoJob ELSE MapJob(ret', pages, physical, user)
  BY DEF vmm_mmap
<1>6. CASE ret' = NULL
  <2>1. hfree' = hfree /\ held' = held
    BY <1>3, <1>6 DEF vmm_mmap, Space!Serve
  <2>2. job' = NoJob
    BY <1>5, <1>6
  <2>3. /\ job' \in [left : Nat, virtual : Nat, physical : Nat, user : BOOLEAN]
        /\ job'.physical = NULL /\ job'.left = 0 /\ ~job'.user /\ Pending' = {}
    BY <2>2 DEF NoJob, NULL, Pending
  <2> QED BY <1>1, <1>2, <1>4, <1>6, <2>1, <2>3, Zenon
<1>7. CASE ret' # NULL
  <2>1. /\ ret' \in Heap /\ ret' .. ret' + pages - 1 \subseteq hfree
        /\ held' = held \cup {[start |-> ret', pages |-> pages]}
        /\ hfree' = hfree \ (ret' .. ret' + pages - 1)
    BY <1>7, Zenon DEF vmm_mmap, Space!Serve, Space!Fits
  <2>2. job' = [left |-> pages, virtual |-> ret', physical |-> physical, user |-> user]
    BY <1>5, <1>7 DEF MapJob
  <2>3. NULL \in Nat /\ FrameBuffer \in Nat /\ Device(FrameBuffer)
    BY Sizing DEF NULL, Device
  <2>4. /\ job' \in [left : Nat, virtual : Nat, physical : Nat, user : BOOLEAN]
        /\ job'.physical = NULL \/ Device(job'.physical)
        /\ job'.user = user
    BY <1>3, <2>1, <2>2, <2>3, Zenon
  <2>5. Pending' = ret' .. ret' + pages - 1
    BY <2>2, Zenon DEF Pending
  <2>6. Space!Pages([start |-> ret', pages |-> pages]) = ret' .. ret' + pages - 1
    BY DEF Space!Pages
  <2> QED BY <1>1, <1>2, <1>4, <1>7, <2>1, <2>4, <2>5, <2>6, Zenon
<1> QED
  BY <1>6, <1>7, Zenon

\* A call of vmm_mmap keeps the invariant.
LEMMA ServingKeeps ==
  ASSUME PagingInv, NEW physical \in {NULL, FrameBuffer}, NEW pages \in Nat \ {0}, NEW user \in BOOLEAN,
         vmm_mmap(physical, pages, user),
         phase' \in {"reset", "base", "boot", "user"}, phase' = "user" <=> phase = "user",
         grown' \in BOOLEAN, grown => grown',
         user => phase = "user",
         phase = "user" /\ ret' # NULL => grown' \/ user,
         users' = IF ~user \/ ret' = NULL THEN users ELSE users \cup {[start |-> ret', pages |-> pages]}
  PROVE  PagingInv'
<1>0. Tree /\ Frames /\ Identity /\ Flags /\ Spans /\ Remembered
  BY DEF PagingInv
<1> DEFINE s == [start |-> ret', pages |-> pages]
<1>1. /\ Pending = {} /\ free' = free /\ table' = table /\ tlb' = tlb
      /\ hfree' \subseteq Heap
      /\ job' \in [left : Nat, virtual : Nat, physical : Nat, user : BOOLEAN]
      /\ job'.physical = NULL \/ Device(job'.physical)
      /\ ret' = NULL => held' = held /\ Pending' = {} /\ job'.left = 0 /\ ~job'.user
      /\ ret' # NULL => /\ held' = held \cup {s}
                        /\ Pending' = Space!Pages(s)
                        /\ Pending' \subseteq Heap
                        /\ job'.user = user
  BY <1>0, Served
<1> HIDE DEF s
<1>1a. users' = IF ~user \/ ret' = NULL THEN users ELSE users \cup {s}
  BY DEF s
<1>2. /\ \A v : Mapped(v)' <=> Mapped(v)
      /\ \A v : Directory(v)' = Directory(v)
      /\ \A v : Leaf(v)' = Leaf(v)
  BY <1>1, SameTables, Zenon
<1>3. Tree'
  BY <1>0, <1>1, SameTables, Zenon
<1>4. Frames'
  BY <1>0, <1>1, SameFrames, Zenon
<1>5. Identity'
  BY <1>0, <1>1, SameIdentity, Zenon
<1>6. UserPages \subseteq UserPages' /\ UserPages' \ Pending' \subseteq UserPages /\ OSPages' = OSPages
  <2>1. CASE ~user \/ ret' = NULL
    BY <1>1a, <2>1, SameUsers, Zenon DEF OSPages
  <2>2. CASE user /\ ret' # NULL
    <3>1. users' = users \cup {s} /\ Pending' = Space!Pages(s)
      BY <1>1, <1>1a, <2>2
    <3>2. UserPages' = UserPages \cup Space!Pages(s)
      BY <3>1, Zenon DEF UserPages
    <3> QED BY <3>1, <3>2, Zenon DEF OSPages
  <2> QED BY <2>1, <2>2
<1>7. Flags'
  <2>1. \A v \in Heap : Mapped(v)' => Leaf(v)'.write /\ Leaf(v)'.nx /\ (Leaf(v)'.user => v \in UserPages')
    BY <1>0, <1>2, <1>6, Zenon DEF Flags
  <2>2. phase' # "user" => users' = {}
    BY <1>0, Zenon DEF Flags
  <2>3. ASSUME phase' = "user", ~grown', NEW v \in OSPages' \cup (UserPages' \ Pending')
        PROVE  Mapped(v)' /\ table'[PML4T][0].user /\ table'[PDPT][0].user /\ Directory(v)'.user /\ Leaf(v)'.user
    <3>1. phase = "user" /\ ~grown /\ v \in OSPages \cup (UserPages \ Pending)
      BY <1>1, <1>6, <2>3, Zenon
    <3>2. Mapped(v) /\ table[PML4T][0].user /\ table[PDPT][0].user /\ Directory(v).user /\ Leaf(v).user
      BY <1>0, <3>1, Zenon DEF Flags
    <3> QED BY <1>1, <1>2, <3>2, Zenon
  <2> QED BY <2>1, <2>2, <2>3, Zenon DEF Flags
<1>8. Spans'
  <2>1. users' \subseteq held' /\ \A p \in held' : Space!Pages(p) \subseteq Heap
    BY <1>0, <1>1, <1>1a, Zenon DEF Spans
  <2>2. Pending' \subseteq Heap
    BY <1>1
  <2>3. ASSUME job'.user PROVE Pending' \subseteq UserPages'
    <3>1. ret' # NULL /\ user
      BY <1>1, <2>3, Zenon
    <3>2. s \in users' /\ Pending' = Space!Pages(s)
      BY <1>1, <1>1a, <3>1, Zenon
    <3> QED BY <3>2, Zenon DEF UserPages
  <2>4. job'.left > 0 /\ phase' = "user" /\ ~grown' => job'.user
    BY <1>1
  <2>5. ASSUME NEW p \in held', NEW v \in Space!Pages(p) \ Pending' PROVE Mapped(v)'
    <3>1. p \in held
      BY <1>1, <2>5, Zenon
    <3>2. Mapped(v)
      BY <1>0, <1>1, <3>1, Zenon DEF Spans
    <3> QED BY <1>2, <3>2, Zenon
  <2> QED BY <1>1, <2>1, <2>2, <2>3, <2>4, <2>5, Zenon DEF Spans, Device, Space!Pages
<1>9. Remembered'
  BY <1>0, <1>1, <1>2, <1>6 DEF Remembered
<1> QED
  BY <1>3, <1>4, <1>5, <1>7, <1>8, <1>9, Zenon DEF PagingInv

\* The four calls of it.
LEMMA CallsKeep ==
  ASSUME PagingInv,
         \/ MapBase \/ MapFrameBuffer
         \/ \E pages \in Sizes : liballoc_alloc(pages)
         \/ \E physical \in {NULL, FrameBuffer}, pages \in Sizes : mmap(physical, pages)
  PROVE  PagingInv'
<1>0. /\ BasePages \in Nat \ {0} /\ FbPages \in Nat \ {0} /\ Sizes \subseteq Nat \ {0}
      /\ phase \in {"reset", "base", "boot", "user"} /\ grown \in BOOLEAN
  BY PagingAssumption DEF PagingInv, Spans
<1>1. CASE MapBase
  <2>1. /\ vmm_mmap(NULL, BasePages, FALSE) /\ phase = "reset" /\ phase' = "base"
        /\ users' = users /\ grown' = grown
    BY <1>1, Zenon DEF MapBase
  <2> QED BY <1>0, <2>1, ServingKeeps, Zenon
<1>2. CASE MapFrameBuffer
  <2>1. /\ vmm_mmap(FrameBuffer, FbPages, FALSE) /\ phase = "base" /\ phase' = "boot"
        /\ users' = users /\ grown' = grown
    BY <1>2, Zenon DEF MapFrameBuffer
  <2> QED BY <1>0, <2>1, ServingKeeps, Zenon
<1>3. ASSUME NEW pages \in Sizes, liballoc_alloc(pages) PROVE PagingInv'
  <2>1. /\ vmm_mmap(NULL, pages, FALSE) /\ phase' = phase /\ users' = users
        /\ grown' = (grown \/ (phase = "user" /\ ret' # NULL)) /\ pages \in Nat \ {0}
    BY <1>0, <1>3, Zenon DEF liballoc_alloc
  <2> QED BY <1>0, <2>1, ServingKeeps, Zenon
<1>4. ASSUME NEW physical \in {NULL, FrameBuffer}, NEW pages \in Sizes, mmap(physical, pages) PROVE PagingInv'
  <2>1. /\ vmm_mmap(physical, pages, TRUE) /\ phase = "user" /\ phase' = phase /\ grown' = grown
        /\ users' = IF ret' = NULL THEN users ELSE users \cup {[start |-> ret', pages |-> pages]}
        /\ pages \in Nat \ {0}
    BY <1>0, <1>4, Zenon DEF mmap
  <2> QED BY <1>0, <2>1, ServingKeeps, Zenon
<1> QED
  BY <1>1, <1>2, <1>3, <1>4, Zenon

\* liballoc_free keeps the invariant.
LEMMA FreeingKeeps ==
  ASSUME PagingInv, NEW s \in held, liballoc_free(s)
  PROVE  PagingInv'
<1>0. Tree /\ Frames /\ Identity /\ Flags /\ Spans /\ Remembered
  BY DEF PagingInv
<1>1. /\ free' = free /\ table' = table /\ tlb' = tlb /\ phase' = phase /\ job' = job
      /\ users' = users /\ grown' = grown /\ s \notin users
      /\ held' = held \ {s} /\ hfree' = hfree \cup Space!Pages(s)
  BY DEF liballoc_free, Space!Free
<1>2. /\ \A v : Mapped(v)' <=> Mapped(v)
      /\ \A v : Directory(v)' = Directory(v)
      /\ \A v : Leaf(v)' = Leaf(v)
  BY <1>1, SameTables, Zenon
<1>3. UserPages' = UserPages /\ OSPages' = OSPages /\ Pending' = Pending
  BY <1>1, SameUsers, SameJob, Zenon DEF OSPages
<1>4. Tree'
  BY <1>0, <1>1, SameTables, Zenon
<1>5. Frames'
  BY <1>0, <1>1, SameFrames, Zenon
<1>6. Identity'
  BY <1>0, <1>1, SameIdentity, Zenon
<1>7. Flags'
  BY <1>0, <1>1, SameFlags, Zenon
<1>8. Spans'
  <2>1. hfree' \subseteq Heap /\ users' \subseteq held' /\ held' \subseteq held
    BY <1>0, <1>1, Zenon DEF Spans
  <2>2. \A p \in held' : Space!Pages(p) \subseteq Heap /\ \A v \in Space!Pages(p) \ Pending' : Mapped(v)'
    BY <1>0, <1>2, <1>3, <2>1, Zenon DEF Spans
  <2>3. (job'.user => Pending' \subseteq UserPages') /\ Pending' \subseteq Heap
    BY <1>0, <1>1, <1>3, Zenon DEF Spans
  <2> QED BY <1>0, <1>1, <2>1, <2>2, <2>3, Zenon DEF Spans, Device, Space!Pages
<1>9. Remembered'
  BY <1>0, <1>1, <1>2, <1>3 DEF Remembered
<1> QED
  BY <1>4, <1>5, <1>6, <1>7, <1>8, <1>9 DEF PagingInv

------------------------------------------------------------------------------
(* The processor *)

\* What the processor does keeps the invariant: only the TLB changes.
LEMMA ProcessorKeeps ==
  ASSUME PagingInv, (\E v \in Watched : Access(v)) \/ (\E v \in DOMAIN tlb : Evict(v))
  PROVE  PagingInv'
<1>0. Tree /\ Frames /\ Identity /\ Flags /\ Spans /\ Remembered
  BY DEF PagingInv
<1>1. /\ free' = free /\ table' = table /\ phase' = phase /\ job' = job /\ hfree' = hfree /\ held' = held
      /\ users' = users /\ grown' = grown
  BY Zenon DEF Access, Evict
<1>2. /\ \A v : Mapped(v)' <=> Mapped(v)
      /\ \A v : Directory(v)' = Directory(v)
      /\ \A v : Leaf(v)' = Leaf(v)
  BY <1>1, SameTables, Zenon
<1>3. UserPages' = UserPages /\ OSPages' = OSPages /\ Pending' = Pending
  BY <1>1, SameUsers, SameJob, Zenon DEF OSPages
<1>4. Tree'
  BY <1>0, <1>1, SameTables, Zenon
<1>5. Frames'
  BY <1>0, <1>1, SameFrames, Zenon
<1>6. Identity'
  BY <1>0, <1>1, SameIdentity, Zenon
<1>7. Flags'
  BY <1>0, <1>1, SameFlags, Zenon
<1>8. Spans'
  BY <1>0, <1>1, SameSpans, Zenon
<1>9. Remembered'
  <2>1. ASSUME NEW v \in Watched, Access(v) PROVE Remembered'
    <3>1. /\ Walk(v).present /\ tlb' = [x \in DOMAIN tlb \cup {v} |-> IF x = v THEN Walk(v) ELSE tlb[x]]
      BY <2>1, Zenon DEF Access
    <3>2. v \in Low \cup Heap
      BY PagingAssumption
    <3>3. /\ Mapped(v) /\ Walk(v).frame = Leaf(v).frame
          /\ Walk(v).user => Leaf(v).user
      BY <1>0, <3>1, <3>2, WalkIs, Zenon
    <3>4. Leaf(v).user => v \in OSPages \cup UserPages
      <4>1. CASE v \in Low
        BY <1>0, <4>1, LowPage, Zenon
      <4>2. CASE v \in Heap
        BY <1>0, <3>3, <4>2 DEF Flags
      <4> QED BY <3>2, <4>1, <4>2
    <3>5. \A x \in DOMAIN tlb' : (x = v /\ tlb'[x] = Walk(v)) \/ (x \in DOMAIN tlb /\ tlb'[x] = tlb[x])
      BY <3>1, Zenon
    <3>6. DOMAIN tlb' \subseteq Watched
      BY <1>0, <3>1, Zenon DEF Remembered
    <3> QED BY <1>0, <1>2, <1>3, <3>3, <3>4, <3>5, <3>6, Zenon DEF Remembered
  <2>2. ASSUME NEW v \in DOMAIN tlb, Evict(v) PROVE Remembered'
    <3>1. DOMAIN tlb' \subseteq DOMAIN tlb /\ \A x \in DOMAIN tlb' : tlb'[x] = tlb[x]
      BY <2>2 DEF Evict
    <3> QED BY <1>0, <1>2, <1>3, <3>1, Zenon DEF Remembered
  <2> QED BY <2>1, <2>2, Zenon
<1> QED
  BY <1>4, <1>5, <1>6, <1>7, <1>8, <1>9 DEF PagingInv

------------------------------------------------------------------------------
(* The tables of the boot loader *)

\* What setup_paging builds is such a tree.
LEMMA InitInv == Init => PagingInv
<1> SUFFICES ASSUME Init PROVE PagingInv
  OBVIOUS
<1>1. /\ free = FIRST_FREE_PAGE .. LastFrame /\ table = BootTables /\ tlb = <<>> /\ phase = "reset"
      /\ job = NoJob /\ hfree = Heap /\ held = {} /\ users = {} /\ grown = FALSE
  BY DEF Init, Space!Init
<1>2. 0 \in 0 .. ENTRIES - 1 /\ ENTRIES \in Nat /\ ENTRIES >= 2
  BY Sizing
<1>3. PDPT \in Nat /\ PDT \in Nat /\ PT \in Nat
  BY BootTablesApart DEF BootFrames
<1>4. /\ DOMAIN table = BootFrames
      /\ table[PT] = [i \in 0 .. ENTRIES - 1 |-> Entry(i, FALSE, FALSE)]
      /\ table[PML4T] = With(EmptyTable, 0, DirectoryEntry(PDPT, FALSE))
      /\ table[PDPT] = With(EmptyTable, 0, DirectoryEntry(PDT, FALSE))
      /\ table[PDT] = With(EmptyTable, 0, DirectoryEntry(PT, FALSE))
  BY <1>1, BootTablesApart DEF BootTables, BootFrames, With, DirectoryEntry
<1>5. FALSE \in BOOLEAN
  BY Zenon
<1>6. /\ DirectoryEntry(PDPT, FALSE) \in Entries /\ Points(DirectoryEntry(PDPT, FALSE), PDPT)
      /\ DirectoryEntry(PDT, FALSE) \in Entries /\ Points(DirectoryEntry(PDT, FALSE), PDT)
      /\ DirectoryEntry(PT, FALSE) \in Entries /\ Points(DirectoryEntry(PT, FALSE), PT)
  BY <1>3, Zenon DEF DirectoryEntry, Entry, Entries, Points
<1>7. /\ EmptyTable \in [0 .. ENTRIES - 1 -> Entries] /\ DOMAIN EmptyTable = 0 .. ENTRIES - 1
      /\ \A i \in 0 .. ENTRIES - 1 : EmptyTable[i].present = FALSE
  BY DEF EmptyTable, Absent, Entries
<1>8. table[PT] \in [0 .. ENTRIES - 1 -> Entries]
  <2>1. \A i \in 0 .. ENTRIES - 1 : Entry(i, FALSE, FALSE) \in Entries
    BY DEF Entry, Entries
  <2> QED BY <1>4, <2>1, Zenon
<1>9. /\ table[PML4T] \in [0 .. ENTRIES - 1 -> Entries] /\ table[PDPT] \in [0 .. ENTRIES - 1 -> Entries]
      /\ table[PDT] \in [0 .. ENTRIES - 1 -> Entries]
  BY <1>2, <1>4, <1>6, <1>7, Zenon DEF With
<1>10. /\ table[PML4T][0] = DirectoryEntry(PDPT, FALSE) /\ table[PDPT][0] = DirectoryEntry(PDT, FALSE)
       /\ table[PDT][0] = DirectoryEntry(PT, FALSE)
       /\ \A i \in 1 .. ENTRIES - 1 : table[PDT][i].present = FALSE
  <2>1. \A i \in 1 .. ENTRIES - 1 : i \in 0 .. ENTRIES - 1 /\ i # 0
    BY <1>2
  <2> QED BY <1>2, <1>4, <1>7, <2>1, Zenon DEF With
<1>11. Tree
  <2>1. \A t \in DOMAIN table : table[t] \in [0 .. ENTRIES - 1 -> Entries]
    BY <1>4, <1>8, <1>9, Zenon DEF BootFrames
  <2> QED BY <1>4, <1>6, <1>10, <2>1, Zenon DEF Tree, IsTree
<1>12. \A v \in Heap : ~Mapped(v)
  <2>1. ASSUME NEW v \in Heap PROVE ~Mapped(v)
    <3>1. v \div ENTRIES \in 1 .. ENTRIES - 1
      BY Indices, Sizing
    <3> QED BY <1>10, <3>1, Zenon DEF Mapped, Directory
  <2> QED BY <2>1, Zenon
<1>13. Frames
  <2>1. \A f \in FIRST_FREE_PAGE .. DataBase - 1 : f \in free /\ f \notin DOMAIN table
    <3>1. \A f \in FIRST_FREE_PAGE .. DataBase - 1 : f \in FIRST_FREE_PAGE .. LastFrame /\ ~(f < FIRST_FREE_PAGE)
      BY Sizing
    <3> QED BY <1>1, <1>4, <3>1, BootTablesApart, Zenon
  <2>2. \A f \in DataBase .. LastFrame : f \in free
    <3>1. \A f \in DataBase .. LastFrame : f \in FIRST_FREE_PAGE .. LastFrame
      BY Sizing
    <3> QED BY <1>1, <3>1, Zenon
  <2> QED BY <1>1, <1>12, <2>1, <2>2, Zenon DEF Frames
<1>14. Identity
  BY <1>1, <1>4 DEF Identity, Low
<1>15. UserPages = {}
  BY <1>1, Zenon DEF UserPages
<1>16. Flags
  BY <1>1, <1>12 DEF Flags
<1>17. Pending = {}
  BY <1>1 DEF Pending, NoJob
<1>18. Spans
  BY <1>1, <1>17, Zenon DEF Spans, NoJob, NULL
<1>19. Remembered
  BY <1>1 DEF Remembered
<1> QED
  BY <1>11, <1>13, <1>14, <1>16, <1>18, <1>19 DEF PagingInv
=============================================================================
