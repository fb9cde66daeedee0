----------------------------- MODULE PagingMapProof -------------------------
(***************************************************************************)
(* vmm_map_memory keeps the inductive invariant of Paging, as long as the  *)
(* pool has the frames that it takes, which PagingProof shows.             *)
(***************************************************************************)
EXTENDS PagingInvProof

------------------------------------------------------------------------------
(* A tree in which one page gets its entries *)

\* Where the entries of a page go: i and k are its indices, d is its last table,
\* f its frame.
Placed(a, i, d, k, x, f) ==
  /\ i \in HeapIndices /\ i \in 1 .. ENTRIES - 1 /\ k \in 0 .. ENTRIES - 1
  /\ d \in FIRST_FREE_PAGE .. DataBase - 1 /\ d \notin BootFrames
  /\ x \in BOOLEAN /\ f \in Nat
  /\ a[PDT][i].present => d \in DOMAIN a /\ d = a[PDT][i].frame
  /\ ~a[PDT][i].present => d \notin DOMAIN a

\* The last table before the page is mapped.
BaseTable(a, i, d) == IF a[PDT][i].present THEN a[d] ELSE EmptyTable

\* The tables a become the tables b.
Extended(a, b, i, d, k, x, f) ==
  /\ DOMAIN b = DOMAIN a \cup {d}
  /\ b[PML4T] = With(a[PML4T], 0, DirectoryEntry(PDPT, x))
  /\ b[PDPT] = With(a[PDPT], 0, DirectoryEntry(PDT, x))
  /\ b[PDT] = With(a[PDT], i, DirectoryEntry(d, x))
  /\ b[d] = With(BaseTable(a, i, d), k, LeafEntry(f, x))
  /\ \A t \in DOMAIN a \ {PML4T, PDPT, PDT, d} : b[t] = a[t]

\* The tables of the boot loader in a tree.
LEMMA TreeHas ==
  ASSUME NEW a, IsTree(a)
  PROVE  /\ PML4T \in DOMAIN a /\ PDPT \in DOMAIN a /\ PDT \in DOMAIN a /\ PT \in DOMAIN a
         /\ \A t \in DOMAIN a : a[t] \in [0 .. ENTRIES - 1 -> Entries]
         /\ Points(a[PML4T][0], PDPT) /\ Points(a[PDPT][0], PDT) /\ Points(a[PDT][0], PT)
BY DEF IsTree, BootFrames

\* The table that is extended is one of entries.
LEMMA BaseTyped ==
  ASSUME NEW a, IsTree(a), NEW i, NEW d, NEW k, NEW x, NEW f, Placed(a, i, d, k, x, f)
  PROVE  BaseTable(a, i, d) \in [0 .. ENTRIES - 1 -> Entries]
<1>1. EmptyTable \in [0 .. ENTRIES - 1 -> Entries]
  BY DEF EmptyTable, Absent, Entries
<1>2. a[PDT][i].present => a[d] \in [0 .. ENTRIES - 1 -> Entries]
  BY TreeHas DEF Placed
<1> QED
  BY <1>1, <1>2, Zenon DEF BaseTable

\* The entries of the third table.
LEMMA ThirdTable ==
  ASSUME NEW a, IsTree(a), NEW b, NEW i, NEW d, NEW k, NEW x, NEW f,
         Placed(a, i, d, k, x, f), Extended(a, b, i, d, k, x, f)
  PROVE  /\ \A j \in 0 .. ENTRIES - 1 : b[PDT][j] = IF j = i THEN DirectoryEntry(d, x) ELSE a[PDT][j]
         /\ i \in 0 .. ENTRIES - 1 /\ i # 0
<1>1. i \in 0 .. ENTRIES - 1 /\ i # 0
  BY Sizing DEF Placed
<1>2. DOMAIN a[PDT] = 0 .. ENTRIES - 1
  BY TreeHas
<1>3. b[PDT] = With(a[PDT], i, DirectoryEntry(d, x))
  BY Zenon DEF Extended
<1> QED
  BY <1>1, <1>2, <1>3, Zenon DEF With

\* The entries that are written, and the table that leads to no page.
LEMMA OwnEntries ==
  ASSUME NEW a, IsTree(a), NEW b, NEW i, NEW d, NEW k, NEW x, NEW f,
         Placed(a, i, d, k, x, f), Extended(a, b, i, d, k, x, f)
  PROVE  /\ b[PML4T][0] = DirectoryEntry(PDPT, x) /\ b[PDPT][0] = DirectoryEntry(PDT, x)
         /\ b[d][k] = LeafEntry(f, x)
         /\ \A l \in 0 .. ENTRIES - 1 : l # k => b[d][l] = BaseTable(a, i, d)[l]
         /\ b[PT] = a[PT]
<1>1. 0 \in DOMAIN a[PML4T] /\ 0 \in DOMAIN a[PDPT]
  <2>1. 0 \in 0 .. ENTRIES - 1
    BY Sizing
  <2> QED BY <2>1, TreeHas, Zenon
<1>2. b[PML4T][0] = DirectoryEntry(PDPT, x) /\ b[PDPT][0] = DirectoryEntry(PDT, x)
  <2>1. b[PML4T] = With(a[PML4T], 0, DirectoryEntry(PDPT, x)) /\ b[PDPT] = With(a[PDPT], 0, DirectoryEntry(PDT, x))
    BY Zenon DEF Extended
  <2> QED BY <1>1, <2>1 DEF With
<1>3. k \in DOMAIN BaseTable(a, i, d) /\ DOMAIN BaseTable(a, i, d) = 0 .. ENTRIES - 1
  BY BaseTyped, Zenon DEF Placed
<1>4. b[d] = With(BaseTable(a, i, d), k, LeafEntry(f, x))
  BY Zenon DEF Extended
<1>5. b[d][k] = LeafEntry(f, x) /\ \A l \in 0 .. ENTRIES - 1 : l # k => b[d][l] = BaseTable(a, i, d)[l]
  BY <1>3, <1>4, Zenon DEF With
<1>6. PT \in DOMAIN a \ {PML4T, PDPT, PDT, d}
  BY TreeHas, BootTablesApart DEF Placed, BootFrames
<1>7. b[PT] = a[PT]
  BY <1>6, Zenon DEF Extended
<1> QED
  BY <1>2, <1>5, <1>7, Zenon

\* The tables remain tables of entries.
LEMMA ExtendedTyped ==
  ASSUME NEW a, IsTree(a), NEW b, NEW i, NEW d, NEW k, NEW x, NEW f,
         Placed(a, i, d, k, x, f), Extended(a, b, i, d, k, x, f)
  PROVE  \A t \in DOMAIN b : b[t] \in [0 .. ENTRIES - 1 -> Entries]
<1>1. /\ a[PML4T] \in [0 .. ENTRIES - 1 -> Entries] /\ a[PDPT] \in [0 .. ENTRIES - 1 -> Entries]
      /\ a[PDT] \in [0 .. ENTRIES - 1 -> Entries]
  BY TreeHas, Zenon
<1>2. 0 \in 0 .. ENTRIES - 1 /\ i \in 0 .. ENTRIES - 1 /\ k \in 0 .. ENTRIES - 1
  BY Sizing DEF Placed
<1>3. d \in Nat /\ PDPT \in Nat /\ PDT \in Nat /\ x \in BOOLEAN /\ f \in Nat
  BY BootTablesApart, Sizing DEF Placed, BootFrames
<1>4. /\ DirectoryEntry(PDPT, x) \in Entries /\ DirectoryEntry(PDT, x) \in Entries
      /\ DirectoryEntry(d, x) \in Entries /\ LeafEntry(f, x) \in Entries
  BY <1>3, Written, Zenon
<1>5. b[PML4T] \in [0 .. ENTRIES - 1 -> Entries] /\ b[PDPT] \in [0 .. ENTRIES - 1 -> Entries]
  <2>1. With(a[PML4T], 0, DirectoryEntry(PDPT, x)) \in [0 .. ENTRIES - 1 -> Entries]
    BY <1>1, <1>2, <1>4, WithTyped, Zenon
  <2>2. With(a[PDPT], 0, DirectoryEntry(PDT, x)) \in [0 .. ENTRIES - 1 -> Entries]
    BY <1>1, <1>2, <1>4, WithTyped, Zenon
  <2> QED BY <2>1, <2>2, Zenon DEF Extended
<1>6. b[PDT] \in [0 .. ENTRIES - 1 -> Entries]
  <2>1. With(a[PDT], i, DirectoryEntry(d, x)) \in [0 .. ENTRIES - 1 -> Entries]
    BY <1>1, <1>2, <1>4, WithTyped, Zenon
  <2> QED BY <2>1, Zenon DEF Extended
<1>7. b[d] \in [0 .. ENTRIES - 1 -> Entries]
  <2>1. BaseTable(a, i, d) \in [0 .. ENTRIES - 1 -> Entries]
    BY BaseTyped, Zenon
  <2>2. With(BaseTable(a, i, d), k, LeafEntry(f, x)) \in [0 .. ENTRIES - 1 -> Entries]
    BY <1>2, <1>4, <2>1, WithTyped, Zenon
  <2> QED BY <2>2, Zenon DEF Extended
<1>8. ASSUME NEW t \in DOMAIN a \ {PML4T, PDPT, PDT, d} PROVE b[t] \in [0 .. ENTRIES - 1 -> Entries]
  <2>1. b[t] = a[t]
    BY Zenon DEF Extended
  <2> QED BY <2>1, TreeHas, Zenon
<1>9. \A t \in DOMAIN b : t \in DOMAIN a \ {PML4T, PDPT, PDT, d} \/ t \in {PML4T, PDPT, PDT, d}
  BY Zenon DEF Extended
<1> QED
  BY <1>5, <1>6, <1>7, <1>8, <1>9, Zenon

\* The table that another entry of the third table leads to.
LEMMA OtherTable ==
  ASSUME NEW a, IsTree(a), NEW i, NEW d, NEW k, NEW x, NEW f, Placed(a, i, d, k, x, f),
         NEW j \in 0 .. ENTRIES - 1, j # i, a[PDT][j].present
  PROVE  a[PDT][j].frame \in DOMAIN a \ {PML4T, PDPT, PDT, d}
<1>1. CASE j = 0
  <2>1. a[PDT][j].frame = PT
    BY <1>1, TreeHas, Zenon DEF Points
  <2> QED BY <2>1, TreeHas, BootTablesApart DEF Placed, BootFrames
<1>2. CASE j # 0
  <2>1. j \in 1 .. ENTRIES - 1 /\ i \in 1 .. ENTRIES - 1
    BY <1>2, Sizing DEF Placed
  <2>2. a[PDT][j].frame \in DOMAIN a \ BootFrames
    BY <2>1, Zenon DEF IsTree
  <2>3. a[PDT][j].frame # d
    <3>1. CASE a[PDT][i].present
      <4>1. d = a[PDT][i].frame
        BY <3>1, Zenon DEF Placed
      <4> QED BY <2>1, <3>1, <4>1, Zenon DEF IsTree
    <3>2. CASE ~a[PDT][i].present
      BY <2>2, <3>2, Zenon DEF Placed
    <3> QED BY <3>1, <3>2
  <2> QED BY <2>2, <2>3, Zenon DEF BootFrames
<1> QED
  BY <1>1, <1>2

\* The tables remain a tree.
LEMMA ExtendedTree ==
  ASSUME NEW a, IsTree(a), NEW b, NEW i, NEW d, NEW k, NEW x, NEW f,
         Placed(a, i, d, k, x, f), Extended(a, b, i, d, k, x, f)
  PROVE  IsTree(b)
<1>1. /\ DOMAIN b = DOMAIN a \cup {d} /\ d \notin BootFrames /\ d \in FIRST_FREE_PAGE .. DataBase - 1
      /\ i \in HeapIndices /\ i \in 1 .. ENTRIES - 1
  BY Zenon DEF Extended, Placed
<1>2. \A j \in 0 .. ENTRIES - 1 : b[PDT][j] = IF j = i THEN DirectoryEntry(d, x) ELSE a[PDT][j]
  BY ThirdTable
<1>3. \A j \in 1 .. ENTRIES - 1 : j \in 0 .. ENTRIES - 1
  BY Sizing
<1>4. \A j \in 1 .. ENTRIES - 1 : j # i => b[PDT][j] = a[PDT][j]
  BY <1>2, <1>3, Zenon
<1>5. b[PDT][i] = DirectoryEntry(d, x)
  BY <1>1, <1>2, <1>3, Zenon
<1>6. d \in Nat /\ PDPT \in Nat /\ PDT \in Nat /\ x \in BOOLEAN
  BY BootTablesApart, Sizing DEF Placed, BootFrames
<1>7. Points(b[PDT][i], d) /\ b[PDT][i].present /\ b[PDT][i].frame = d
  BY <1>5, <1>6, Written
<1>8. Points(b[PML4T][0], PDPT) /\ Points(b[PDPT][0], PDT) /\ Points(b[PDT][0], PT)
  <2>1. b[PML4T][0] = DirectoryEntry(PDPT, x) /\ b[PDPT][0] = DirectoryEntry(PDT, x)
    BY OwnEntries, Zenon
  <2>2. Points(b[PML4T][0], PDPT) /\ Points(b[PDPT][0], PDT)
    BY <1>6, <2>1, Written
  <2>3. 0 \in 0 .. ENTRIES - 1 /\ 0 # i
    BY <1>1, Sizing
  <2>4. b[PDT][0] = a[PDT][0]
    BY <1>2, <2>3, Zenon
  <2> QED BY <2>2, <2>4, TreeHas, Zenon
<1>9. BootFrames \subseteq DOMAIN b /\ DOMAIN b \subseteq BootFrames \cup (FIRST_FREE_PAGE .. DataBase - 1)
  BY <1>1, Zenon DEF IsTree
<1>10. \A t \in DOMAIN b : b[t] \in [0 .. ENTRIES - 1 -> Entries]
  BY ExtendedTyped, Zenon
<1>11. ASSUME NEW j \in 1 .. ENTRIES - 1, b[PDT][j].present
       PROVE  j \in HeapIndices /\ b[PDT][j].frame \in DOMAIN b \ BootFrames /\ Points(b[PDT][j], b[PDT][j].frame)
  <2>1. CASE j = i
    BY <1>1, <1>7, <2>1, Zenon
  <2>2. CASE j # i
    BY <1>1, <1>4, <1>11, <2>2, Zenon DEF IsTree
  <2> QED BY <2>1, <2>2
<1>12. ASSUME NEW j \in 1 .. ENTRIES - 1, j # i, a[PDT][j].present PROVE a[PDT][j].frame # d
  BY <1>3, <1>12, OtherTable, Zenon
<1>13. ASSUME NEW j \in 1 .. ENTRIES - 1, NEW l \in 1 .. ENTRIES - 1,
              b[PDT][j].present, b[PDT][l].present, b[PDT][j].frame = b[PDT][l].frame
       PROVE  j = l
  <2>1. CASE j # i /\ l # i
    <3>1. b[PDT][j] = a[PDT][j] /\ b[PDT][l] = a[PDT][l]
      BY <1>4, <2>1, Zenon
    <3> QED BY <1>13, <3>1, Zenon DEF IsTree
  <2>2. CASE j = i /\ l # i
    BY <1>4, <1>7, <1>12, <1>13, <2>2, Zenon
  <2>3. CASE j # i /\ l = i
    BY <1>4, <1>7, <1>12, <1>13, <2>3, Zenon
  <2> QED BY <2>1, <2>2, <2>3
<1>14. ASSUME NEW t \in DOMAIN b \ BootFrames
       PROVE  \E j \in 1 .. ENTRIES - 1 : b[PDT][j].present /\ b[PDT][j].frame = t
  <2>1. CASE t = d
    BY <1>1, <1>7, <2>1, Zenon
  <2>2. CASE t # d
    <3>1. PICK j \in 1 .. ENTRIES - 1 : a[PDT][j].present /\ a[PDT][j].frame = t
      BY <1>1, <2>2, Zenon DEF IsTree
    <3>2. j # i
      BY <2>2, <3>1, Zenon DEF Placed
    <3> QED BY <1>4, <3>1, <3>2, Zenon
  <2> QED BY <2>1, <2>2
<1> QED
  BY <1>8, <1>9, <1>10, <1>11, <1>13, <1>14, Zenon DEF IsTree

------------------------------------------------------------------------------
(* What vmm_map_memory does *)

\* A page table is added.
Grown(tbl, f) == [t \in DOMAIN tbl \cup {f} |-> IF t = f THEN EmptyTable ELSE tbl[t]]

\* The frame that an entry of the last table gets.
FrameFor(m, t, i, physical) ==
  IF m.table[t][i].present THEN m.table[t][i].frame
  ELSE IF physical # NULL THEN physical ELSE Lowest(m.free, DataBase)

\* The tables and the pool at the third table.
Descended(m, x) == Descend(Descend(m, PML4T, 0, x), PDPT, 0, x)

\* A step down to the table f that there is, and nothing else.
Redirected(m, r, t, i, x, f) ==
  /\ r.free = m.free /\ r.new = f /\ DOMAIN r.table = DOMAIN m.table
  /\ r.table[t] = With(m.table[t], i, DirectoryEntry(f, x))
  /\ \A s \in DOMAIN m.table \ {t} : r.table[s] = m.table[s]

\* A table that is there already is only redirected.
LEMMA DescendOld ==
  ASSUME NEW m, NEW t \in DOMAIN m.table, NEW i \in DOMAIN m.table[t], NEW x, NEW f,
         m.table[t][i] \in Entries, Points(m.table[t][i], f)
  PROVE  Redirected(m, Descend(m, t, i, x), t, i, x, f)
<1>1. m.table[t][i].present /\ m.table[t][i].frame = f /\ m.table[t][i].nx = FALSE
  BY DEF Points, Entries
<1>2. Descend(m, t, i, x) = [free |-> m.free, new |-> f, table |-> [m.table EXCEPT ![t][i] = Entry(f, x, FALSE)]]
  BY <1>1, Zenon DEF Descend
<1>3. /\ Descend(m, t, i, x).free = m.free /\ Descend(m, t, i, x).new = f
      /\ Descend(m, t, i, x).table = With(m.table, t, With(m.table[t], i, DirectoryEntry(f, x)))
  BY <1>2 DEF With, DirectoryEntry
<1> QED
  BY <1>3, WithIs DEF Redirected

\* A step down where there is no table yet.
LEMMA DescendNew ==
  ASSUME NEW m, NEW t \in DOMAIN m.table, NEW i \in DOMAIN m.table[t], NEW x, NEW f,
         ~m.table[t][i].present, f = Lowest(m.free, TableBase), t # f
  PROVE  /\ Descend(m, t, i, x).free = m.free \ {f} /\ Descend(m, t, i, x).new = f
         /\ DOMAIN Descend(m, t, i, x).table = DOMAIN m.table \cup {f}
         /\ Descend(m, t, i, x).table[t] = With(m.table[t], i, DirectoryEntry(f, x))
         /\ Descend(m, t, i, x).table[f] = EmptyTable
         /\ \A s \in DOMAIN m.table \ {t, f} : Descend(m, t, i, x).table[s] = m.table[s]
<1> DEFINE r == Descend(m, t, i, x)
<1>1. AllocatePageTable(m) = [free |-> m.free \ {f}, table |-> Grown(m.table, f), new |-> f]
  BY Zenon DEF AllocatePageTable, Taken, Grown
<1>2. /\ AllocatePageTable(m).free = m.free \ {f} /\ AllocatePageTable(m).new = f
      /\ AllocatePageTable(m).table = Grown(m.table, f)
  BY <1>1
<1>3. r = [free |-> m.free \ {f}, new |-> f, table |-> [Grown(m.table, f) EXCEPT ![t][i] = Entry(f, x, FALSE)]]
  BY <1>2, Zenon DEF Descend
<1>4. /\ DOMAIN Grown(m.table, f) = DOMAIN m.table \cup {f} /\ Grown(m.table, f)[f] = EmptyTable
      /\ \A s \in DOMAIN m.table \ {f} : Grown(m.table, f)[s] = m.table[s]
  BY DEF Grown
<1>5. /\ r.free = m.free \ {f} /\ r.new = f
      /\ r.table = With(Grown(m.table, f), t, With(m.table[t], i, DirectoryEntry(f, x)))
  <2>1. Grown(m.table, f)[t] = m.table[t]
    BY <1>4
  <2> QED BY <1>3, <2>1 DEF With, DirectoryEntry
<1> HIDE DEF r
<1>6. /\ DOMAIN r.table = DOMAIN Grown(m.table, f)
      /\ r.table[t] = With(m.table[t], i, DirectoryEntry(f, x))
      /\ \A s \in DOMAIN Grown(m.table, f) \ {t} : r.table[s] = Grown(m.table, f)[s]
  <2>1. t \in DOMAIN Grown(m.table, f)
    BY <1>4, Zenon
  <2> QED BY <1>5, <2>1, WithIs
<1>7. r.table[f] = EmptyTable /\ \A s \in DOMAIN m.table \ {t, f} : r.table[s] = m.table[s]
  BY <1>4, <1>6, Zenon
<1> QED
  BY <1>4, <1>5, <1>6, <1>7, Zenon DEF r

\* The first two steps down.
LEMMA FirstSteps ==
  ASSUME NEW m, IsTree(m.table), NEW x
  PROVE  /\ Descend(m, PML4T, 0, x).new = PDPT /\ Descended(m, x).new = PDT
         /\ Descended(m, x).free = m.free
         /\ DOMAIN Descended(m, x).table = DOMAIN m.table
         /\ Descended(m, x).table[PML4T] = With(m.table[PML4T], 0, DirectoryEntry(PDPT, x))
         /\ Descended(m, x).table[PDPT] = With(m.table[PDPT], 0, DirectoryEntry(PDT, x))
         /\ \A t \in DOMAIN m.table \ {PML4T, PDPT} : Descended(m, x).table[t] = m.table[t]
<1>1. /\ PML4T \in DOMAIN m.table /\ PDPT \in DOMAIN m.table
      /\ m.table[PML4T] \in [0 .. ENTRIES - 1 -> Entries] /\ m.table[PDPT] \in [0 .. ENTRIES - 1 -> Entries]
      /\ Points(m.table[PML4T][0], PDPT) /\ Points(m.table[PDPT][0], PDT)
  BY TreeHas, Zenon
<1>2. 0 \in 0 .. ENTRIES - 1 /\ PML4T # PDPT
  BY Sizing, BootTablesApart
<1>3. PICK n : n = Descend(m, PML4T, 0, x)
  BY Zenon
<1>4. /\ n.free = m.free /\ n.new = PDPT /\ DOMAIN n.table = DOMAIN m.table
      /\ n.table[PML4T] = With(m.table[PML4T], 0, DirectoryEntry(PDPT, x))
      /\ \A t \in DOMAIN m.table \ {PML4T} : n.table[t] = m.table[t]
  <2>1. 0 \in DOMAIN m.table[PML4T] /\ m.table[PML4T][0] \in Entries
    BY <1>1, <1>2, Zenon
  <2>2. Redirected(m, n, PML4T, 0, x, PDPT)
    BY <1>1, <1>3, <2>1, DescendOld, Zenon
  <2> QED BY <2>2, Zenon DEF Redirected
<1>5. n.table[PDPT] = m.table[PDPT] /\ PDPT \in DOMAIN n.table
  BY <1>1, <1>2, <1>4, Zenon
<1>6. PICK r : r = Descend(n, PDPT, 0, x)
  BY Zenon
<1>7. /\ r.free = n.free /\ r.new = PDT /\ DOMAIN r.table = DOMAIN n.table
      /\ r.table[PDPT] = With(n.table[PDPT], 0, DirectoryEntry(PDT, x))
      /\ \A t \in DOMAIN n.table \ {PDPT} : r.table[t] = n.table[t]
  <2>1. 0 \in DOMAIN n.table[PDPT] /\ n.table[PDPT][0] \in Entries /\ Points(n.table[PDPT][0], PDT)
    BY <1>1, <1>2, <1>5, Zenon
  <2>2. Redirected(n, r, PDPT, 0, x, PDT)
    BY <1>5, <1>6, <2>1, DescendOld, Zenon
  <2> QED BY <2>2, Zenon DEF Redirected
<1>8. r = Descended(m, x)
  BY <1>3, <1>6, Zenon DEF Descended
<1>9. /\ r.table[PML4T] = n.table[PML4T] /\ \A t \in DOMAIN m.table \ {PML4T, PDPT} : r.table[t] = m.table[t]
  BY <1>1, <1>2, <1>4, <1>7, Zenon
<1> QED
  BY <1>3, <1>4, <1>5, <1>7, <1>8, <1>9, Zenon

\* The step down to the last table d, which may be new.
Reached(m, r, i, d, x) ==
  /\ r.free = (IF m.table[PDT][i].present THEN m.free ELSE m.free \ {d}) /\ r.new = d
  /\ DOMAIN r.table = DOMAIN m.table \cup {d}
  /\ r.table[PDT] = With(m.table[PDT], i, DirectoryEntry(d, x))
  /\ r.table[d] = BaseTable(m.table, i, d)
  /\ \A t \in DOMAIN m.table \ {PDT, d} : r.table[t] = Descended(m, x).table[t]

\* The third step down reaches the last table, the old one or a new one.
LEMMA LastStep ==
  ASSUME NEW m, IsTree(m.table), NEW i, NEW d, NEW k, NEW x, NEW f, Placed(m.table, i, d, k, x, f),
         ~m.table[PDT][i].present => d = Lowest(m.free, TableBase)
  PROVE  Reached(m, Descend(Descended(m, x), PDT, i, x), i, d, x)
<1>0. PICK r : r = Descend(Descended(m, x), PDT, i, x)
  BY Zenon
<1>1. PDT # PML4T /\ PDT # PDPT /\ d # PDT /\ d # PML4T /\ d # PDPT
  BY BootTablesApart, Zenon DEF Placed, BootFrames
<1>2. i \in 0 .. ENTRIES - 1 /\ i \in 1 .. ENTRIES - 1
  BY Sizing DEF Placed
<1>3. PICK n : n = Descended(m, x)
  BY Zenon
<1>4. /\ n.free = m.free /\ DOMAIN n.table = DOMAIN m.table
      /\ \A t \in DOMAIN m.table \ {PML4T, PDPT} : n.table[t] = m.table[t]
  BY <1>3, FirstSteps, Zenon
<1>5. PDT \in DOMAIN n.table /\ n.table[PDT] = m.table[PDT]
  BY <1>1, <1>4, TreeHas, Zenon
<1>6. i \in DOMAIN n.table[PDT] /\ n.table[PDT][i] = m.table[PDT][i] /\ m.table[PDT][i] \in Entries
  <2>1. m.table[PDT] \in [0 .. ENTRIES - 1 -> Entries]
    BY TreeHas, Zenon
  <2> QED BY <1>2, <1>5, <2>1, Zenon
<1>7. CASE m.table[PDT][i].present
  <2>1. d \in DOMAIN m.table /\ d = m.table[PDT][i].frame
    BY <1>7, Zenon DEF Placed
  <2>2. Points(n.table[PDT][i], d)
    BY <1>2, <1>6, <1>7, <2>1, Zenon DEF IsTree
  <2>3. /\ r.free = n.free /\ r.new = d /\ DOMAIN r.table = DOMAIN n.table
        /\ r.table[PDT] = With(n.table[PDT], i, DirectoryEntry(d, x))
        /\ \A t \in DOMAIN n.table \ {PDT} : r.table[t] = n.table[t]
    <3>1. Redirected(n, r, PDT, i, x, d)
      BY <1>0, <1>3, <1>5, <1>6, <2>2, DescendOld, Zenon
    <3> QED BY <3>1, Zenon DEF Redirected
  <2>4. r.table[d] = m.table[d]
    BY <1>1, <1>4, <2>1, <2>3, Zenon
  <2>5. DOMAIN r.table = DOMAIN m.table \cup {d}
    BY <1>4, <2>1, <2>3, Zenon
  <2> QED BY <1>0, <1>3, <1>4, <1>5, <1>7, <2>3, <2>4, <2>5, Zenon DEF BaseTable, Reached
<1>8. CASE ~m.table[PDT][i].present
  <2>1. d = Lowest(n.free, TableBase) /\ ~n.table[PDT][i].present
    BY <1>4, <1>6, <1>8, Zenon
  <2>2. /\ r.free = n.free \ {d} /\ r.new = d
        /\ DOMAIN r.table = DOMAIN n.table \cup {d}
        /\ r.table[PDT] = With(n.table[PDT], i, DirectoryEntry(d, x))
        /\ r.table[d] = EmptyTable
        /\ \A t \in DOMAIN n.table \ {PDT, d} : r.table[t] = n.table[t]
    BY <1>0, <1>1, <1>3, <1>5, <1>6, <2>1, DescendNew
  <2> QED BY <1>0, <1>3, <1>4, <1>5, <1>8, <2>2, Zenon DEF BaseTable, Reached
<1> QED
  BY <1>7, <1>8

\* The entry of the page, for the frame f.
Filled(m, r, t, i, physical, x, f) ==
  /\ r.free = IF m.table[t][i].present \/ physical # NULL THEN m.free ELSE m.free \ {f}
  /\ DOMAIN r.table = DOMAIN m.table
  /\ r.table[t] = With(m.table[t], i, LeafEntry(f, x))
  /\ \A s \in DOMAIN m.table \ {t} : r.table[s] = m.table[s]

\* The last table gets the entry of the page and no other.
LEMMA PageMapped ==
  ASSUME NEW m, NEW t \in DOMAIN m.table, NEW i \in DOMAIN m.table[t], NEW physical, NEW x
  PROVE  Filled(m, MapPage(m, t, i, physical, x), t, i, physical, x, FrameFor(m, t, i, physical))
<1>1. PICK f : f = FrameFor(m, t, i, physical)
  BY Zenon
<1>2. /\ MapPage(m, t, i, physical, x).free =
           IF m.table[t][i].present \/ physical # NULL THEN m.free ELSE m.free \ {f}
      /\ MapPage(m, t, i, physical, x).table = With(m.table, t, With(m.table[t], i, LeafEntry(f, x)))
  BY <1>1, Zenon DEF MapPage, KeptFrame, Taken, FrameFor, With, LeafEntry
<1> QED
  BY <1>1, <1>2, WithIs DEF Filled

\* The entry that the page v has before.
OldEntry(m, v, d) == BaseTable(m.table, v \div ENTRIES, d)[v % ENTRIES]

\* One page: the tables are extended and the frames leave the pool.
MapsOne(m, r, physical, v, d, x, f) ==
  /\ Extended(m.table, r.table, v \div ENTRIES, d, v % ENTRIES, x, f)
  /\ r.free = (IF m.table[PDT][v \div ENTRIES].present THEN m.free ELSE m.free \ {d})
                \ (IF OldEntry(m, v, d).present \/ physical # NULL THEN {} ELSE {f})

\* vmm_map_memory maps one page and changes nothing else.
LEMMA MemoryMapped ==
  ASSUME NEW m, IsTree(m.table), NEW physical, NEW v \in Heap, NEW d, NEW x, NEW f,
         Placed(m.table, v \div ENTRIES, d, v % ENTRIES, x, f),
         ~m.table[PDT][v \div ENTRIES].present => d = Lowest(m.free, TableBase),
         f = IF OldEntry(m, v, d).present THEN OldEntry(m, v, d).frame
             ELSE IF physical # NULL THEN physical ELSE Lowest(m.free, DataBase),
         \A g \in m.free : g >= DataBase => g # d
  PROVE  MapsOne(m, MapMemory(m, physical, v, x), physical, v, d, x, f)
<1>0. PICK i, k, e : i = v \div ENTRIES /\ k = v % ENTRIES /\ e = OldEntry(m, v, d)
  BY Zenon
<1>0a. /\ Placed(m.table, i, d, k, x, f) /\ e = BaseTable(m.table, i, d)[k]
       /\ ~m.table[PDT][i].present => d = Lowest(m.free, TableBase)
       /\ f = IF e.present THEN e.frame ELSE IF physical # NULL THEN physical ELSE Lowest(m.free, DataBase)
  BY <1>0, Zenon DEF OldEntry
<1>1. PICK n : n = Descend(Descended(m, x), PDT, i, x)
  BY Zenon
<1>1a. Reached(m, n, i, d, x)
  BY <1>0a, <1>1, LastStep, Zenon
<1>2. n.new = d /\ n.free = IF m.table[PDT][i].present THEN m.free ELSE m.free \ {d}
  BY <1>1a, Zenon DEF Reached
<1>3. /\ DOMAIN n.table = DOMAIN m.table \cup {d}
      /\ n.table[PDT] = With(m.table[PDT], i, DirectoryEntry(d, x))
      /\ n.table[d] = BaseTable(m.table, i, d)
      /\ \A t \in DOMAIN m.table \ {PDT, d} : n.table[t] = Descended(m, x).table[t]
  BY <1>1a, Zenon DEF Reached
<1>4. d \in DOMAIN n.table /\ k \in DOMAIN n.table[d] /\ n.table[d][k] = e
  <2>1. DOMAIN BaseTable(m.table, i, d) = 0 .. ENTRIES - 1 /\ k \in 0 .. ENTRIES - 1
    BY <1>0a, BaseTyped, Zenon DEF Placed
  <2> QED BY <1>0a, <1>3, <2>1, Zenon
<1>5. FrameFor(n, d, k, physical) = f
  <2>1. {g \in n.free : g >= DataBase} = {g \in m.free : g >= DataBase}
    BY <1>2
  <2>2. Lowest(n.free, DataBase) = Lowest(m.free, DataBase)
    BY <2>1, Zenon DEF Lowest
  <2> QED BY <1>0a, <1>4, <2>2, Zenon DEF FrameFor
<1>6. PICK r : r = MapPage(n, d, k, physical, x)
  BY Zenon
<1>7. /\ r.free = IF e.present \/ physical # NULL THEN n.free ELSE n.free \ {f}
      /\ DOMAIN r.table = DOMAIN n.table
      /\ r.table[d] = With(BaseTable(m.table, i, d), k, LeafEntry(f, x))
      /\ \A t \in DOMAIN n.table \ {d} : r.table[t] = n.table[t]
  <2>1. Filled(n, r, d, k, physical, x, f)
    BY <1>4, <1>5, <1>6, PageMapped, Zenon
  <2> QED BY <1>3, <1>4, <2>1, Zenon DEF Filled
<1>8. MapMemory(m, physical, v, x) = r
  <2>1. Index(v, 4) = 0 /\ Index(v, 3) = 0 /\ Index(v, 2) = i /\ Index(v, 1) = k
    BY <1>0, Indices
  <2>2. Descend(m, PML4T, 0, x).new = PDPT /\ Descended(m, x).new = PDT
    BY FirstSteps, Zenon
  <2>3. MapMemory(m, physical, v, x) =
          MapPage(Descend(Descend(Descend(m, PML4T, 0, x), Descend(m, PML4T, 0, x).new, 0, x),
                          Descend(Descend(m, PML4T, 0, x), Descend(m, PML4T, 0, x).new, 0, x).new, i, x),
                  Descend(Descend(Descend(m, PML4T, 0, x), Descend(m, PML4T, 0, x).new, 0, x),
                          Descend(Descend(m, PML4T, 0, x), Descend(m, PML4T, 0, x).new, 0, x).new, i, x).new,
                  k, physical, x)
    BY <2>1, Zenon DEF MapMemory
  <2> QED BY <1>1, <1>2, <1>6, <2>2, <2>3, Zenon DEF Descended
<1>9. r.free = (IF m.table[PDT][i].present THEN m.free ELSE m.free \ {d})
                 \ (IF e.present \/ physical # NULL THEN {} ELSE {f})
  BY <1>2, <1>7, Zenon
<1>10. /\ PML4T \in DOMAIN m.table \ {PDT, d} /\ PDPT \in DOMAIN m.table \ {PDT, d}
       /\ PDT \in DOMAIN m.table /\ PDT # d
  BY <1>0a, TreeHas, BootTablesApart, Zenon DEF Placed, BootFrames
<1>11. /\ r.table[PDT] = With(m.table[PDT], i, DirectoryEntry(d, x))
       /\ \A t \in DOMAIN m.table \ {PDT, d} : r.table[t] = Descended(m, x).table[t]
  BY <1>3, <1>7, <1>10, Zenon
<1>12. /\ r.table[PML4T] = With(m.table[PML4T], 0, DirectoryEntry(PDPT, x))
       /\ r.table[PDPT] = With(m.table[PDPT], 0, DirectoryEntry(PDT, x))
  BY <1>10, <1>11, FirstSteps, Zenon
<1>13. \A t \in DOMAIN m.table \ {PML4T, PDPT, PDT, d} : r.table[t] = m.table[t]
  <2>1. \A t \in DOMAIN m.table \ {PML4T, PDPT} : Descended(m, x).table[t] = m.table[t]
    BY FirstSteps, Zenon
  <2> QED BY <1>11, <2>1, Zenon
<1>14. Extended(m.table, r.table, i, d, k, x, f)
  BY <1>3, <1>7, <1>11, <1>12, <1>13, Zenon DEF Extended
<1> QED
  BY <1>0, <1>8, <1>9, <1>14, Zenon DEF MapsOne

------------------------------------------------------------------------------
(* One page is mapped *)

\* The table that holds the last entry of a page, and the frame the page gets.
TableOf(v) == IF Directory(v).present THEN Directory(v).frame ELSE Lowest(free, TableBase)

FrameOf(v) ==
  IF Mapped(v) THEN Leaf(v).frame
  ELSE IF job.physical # NULL THEN job.physical ELSE Lowest(free, DataBase)

\* The frames that leave the pool.
Used(v) ==
  (IF Directory(v).present THEN {} ELSE {TableOf(v)})
    \cup (IF Mapped(v) \/ job.physical # NULL THEN {} ELSE {FrameOf(v)})

\* The frames that vmm_map_memory chooses, if the pool has them.
FramesChosen(v) ==
  /\ v \in Heap
  /\ TableOf(v) \in FIRST_FREE_PAGE .. DataBase - 1 /\ TableOf(v) \notin BootFrames
  /\ Directory(v).present => TableOf(v) \in DOMAIN table /\ TableOf(v) = Directory(v).frame
  /\ ~Directory(v).present => TableOf(v) \in free /\ TableOf(v) \notin DOMAIN table
  /\ FrameOf(v) \in Nat
  /\ Mapped(v) => FrameOf(v) = Leaf(v).frame
  /\ ~Mapped(v) /\ job.physical # NULL => Device(FrameOf(v))
  /\ ~Mapped(v) /\ job.physical = NULL => FrameOf(v) \in free /\ FrameOf(v) \in DataBase .. LastFrame

\* The step maps the next page of the span.
MapsPage(v) == vmm_map_memory /\ v = job.virtual /\ FramesChosen(v)

\* Where the entries of the page go.
LEMMA PagePlaced ==
  ASSUME Spans, NEW v, FramesChosen(v)
  PROVE  Placed(table, v \div ENTRIES, TableOf(v), v % ENTRIES, job.user, FrameOf(v))
<1>1. /\ v \div ENTRIES \in HeapIndices /\ v \div ENTRIES \in 1 .. ENTRIES - 1 /\ v % ENTRIES \in 0 .. ENTRIES - 1
  BY Indices, Sizing DEF FramesChosen
<1>2. job.user \in BOOLEAN
  BY DEF Spans
<1> QED
  BY <1>1, <1>2, Zenon DEF FramesChosen, Placed, Directory

\* What vmm_map_memory does to the tables, the pool and the TLB.
LEMMA Mapping ==
  ASSUME Tree, Frames, Spans, NEW v, MapsPage(v)
  PROVE  /\ Extended(table, table', v \div ENTRIES, TableOf(v), v % ENTRIES, job.user, FrameOf(v))
         /\ free' = free \ Used(v)
         /\ DOMAIN tlb' \subseteq DOMAIN tlb /\ \A w \in DOMAIN tlb' : tlb'[w] = tlb[w]
<1>1. vmm_map_memory /\ v = job.virtual /\ FramesChosen(v) /\ v \in Heap
  BY DEF MapsPage, FramesChosen
<1>2. Placed(table, v \div ENTRIES, TableOf(v), v % ENTRIES, job.user, FrameOf(v))
  BY <1>1, PagePlaced, Zenon
<1>3. PICK m : m = [free |-> free, table |-> table]
  BY Zenon
<1>4. m.free = free /\ m.table = table
  BY <1>3
<1>5. PICK r : r = MapMemory(m, job.physical, v, job.user)
  BY Zenon
<1>6. free' = r.free /\ table' = r.table /\ tlb' = Invlpg(r.invlpg)
  BY <1>1, <1>3, <1>5 DEF vmm_map_memory
<1>7. (OldEntry(m, v, TableOf(v)).present <=> Mapped(v)) /\ (Mapped(v) => OldEntry(m, v, TableOf(v)).frame = Leaf(v).frame)
  <2>1. CASE Directory(v).present
    <3>1. BaseTable(table, v \div ENTRIES, TableOf(v)) = table[Directory(v).frame]
      BY <2>1, Zenon DEF BaseTable, TableOf, Directory
    <3>2. OldEntry(m, v, TableOf(v)) = Leaf(v)
      BY <1>4, <3>1, Zenon DEF OldEntry, Leaf
    <3> QED BY <2>1, <3>2, Zenon DEF Mapped
  <2>2. CASE ~Directory(v).present
    <3>1. OldEntry(m, v, TableOf(v)) = EmptyTable[v % ENTRIES]
      BY <1>4, <2>2, Zenon DEF OldEntry, BaseTable, Directory
    <3>2. EmptyTable[v % ENTRIES].present = FALSE
      <4>1. v % ENTRIES \in 0 .. ENTRIES - 1
        BY <1>1, Indices
      <4> QED BY <4>1 DEF EmptyTable, Absent
    <3> QED BY <2>2, <3>1, <3>2, Zenon DEF Mapped
  <2> QED BY <2>1, <2>2
<1>8. FrameOf(v) = IF OldEntry(m, v, TableOf(v)).present THEN OldEntry(m, v, TableOf(v)).frame
                   ELSE IF job.physical # NULL THEN job.physical ELSE Lowest(m.free, DataBase)
  BY <1>4, <1>7, Zenon DEF FrameOf
<1>9. \A g \in m.free : g >= DataBase => g # TableOf(v)
  BY <1>1, <1>4, Sizing DEF Frames, FramesChosen
<1>10. ~m.table[PDT][v \div ENTRIES].present => TableOf(v) = Lowest(m.free, TableBase)
  BY <1>4, Zenon DEF TableOf, Directory
<1>11. IsTree(m.table) /\ Placed(m.table, v \div ENTRIES, TableOf(v), v % ENTRIES, job.user, FrameOf(v))
  BY <1>2, <1>4, Zenon DEF Tree
<1>12. MapsOne(m, r, job.physical, v, TableOf(v), job.user, FrameOf(v))
  BY <1>1, <1>5, <1>8, <1>9, <1>10, <1>11, MemoryMapped, Zenon
<1>12a. /\ Extended(table, r.table, v \div ENTRIES, TableOf(v), v % ENTRIES, job.user, FrameOf(v))
        /\ r.free = (IF Directory(v).present THEN free ELSE free \ {TableOf(v)})
                      \ (IF Mapped(v) \/ job.physical # NULL THEN {} ELSE {FrameOf(v)})
  BY <1>4, <1>7, <1>12, Zenon DEF MapsOne, Directory
<1>13. free' = free \ Used(v)
  BY <1>6, <1>12a DEF Used
<1>14. DOMAIN tlb' \subseteq DOMAIN tlb /\ \A w \in DOMAIN tlb' : tlb'[w] = tlb[w]
  BY <1>6 DEF Invlpg
<1> QED
  BY <1>6, <1>12a, <1>13, <1>14, Zenon

\* vmm_map_memory keeps the tree.
LEMMA MappingTree ==
  ASSUME Tree, Frames, Spans, NEW v, MapsPage(v)
  PROVE  Tree'
<1>1. /\ Placed(table, v \div ENTRIES, TableOf(v), v % ENTRIES, job.user, FrameOf(v))
      /\ Extended(table, table', v \div ENTRIES, TableOf(v), v % ENTRIES, job.user, FrameOf(v))
  BY PagePlaced, Mapping, Zenon DEF MapsPage
<1> QED
  BY <1>1, ExtendedTree, Zenon DEF Tree

\* What vmm_map_memory does to its own page.
LEMMA MappedPage ==
  ASSUME Tree, Frames, Spans, NEW v, MapsPage(v)
  PROVE  /\ Directory(v)' = DirectoryEntry(TableOf(v), job.user)
         /\ Leaf(v)' = LeafEntry(FrameOf(v), job.user)
         /\ Mapped(v)'
         /\ table'[PML4T][0].user = job.user /\ table'[PDPT][0].user = job.user
         /\ table'[PT] = table[PT]
<1>1. /\ Placed(table, v \div ENTRIES, TableOf(v), v % ENTRIES, job.user, FrameOf(v))
      /\ Extended(table, table', v \div ENTRIES, TableOf(v), v % ENTRIES, job.user, FrameOf(v))
  BY PagePlaced, Mapping, Zenon DEF MapsPage
<1>2. job.user \in BOOLEAN /\ TableOf(v) \in Nat /\ FrameOf(v) \in Nat /\ PDPT \in Nat /\ PDT \in Nat
  BY BootTablesApart, Sizing DEF Spans, MapsPage, FramesChosen, BootFrames
<1>3. /\ DirectoryEntry(PDPT, job.user).user = job.user /\ DirectoryEntry(PDT, job.user).user = job.user
      /\ DirectoryEntry(TableOf(v), job.user).present /\ DirectoryEntry(TableOf(v), job.user).frame = TableOf(v)
      /\ LeafEntry(FrameOf(v), job.user).present
  BY <1>2, Written
<1>4. Directory(v)' = DirectoryEntry(TableOf(v), job.user)
  <2>1. table'[PDT][v \div ENTRIES] = DirectoryEntry(TableOf(v), job.user)
    BY <1>1, ThirdTable DEF Tree
  <2> QED BY <2>1, Zenon DEF Directory
<1>5. /\ table'[PML4T][0] = DirectoryEntry(PDPT, job.user) /\ table'[PDPT][0] = DirectoryEntry(PDT, job.user)
      /\ table'[TableOf(v)][v % ENTRIES] = LeafEntry(FrameOf(v), job.user)
      /\ table'[PT] = table[PT]
  BY <1>1, OwnEntries DEF Tree
<1>6. Leaf(v)' = LeafEntry(FrameOf(v), job.user)
  <2>1. Leaf(v)' = table'[Directory(v)'.frame][v % ENTRIES]
    BY Zenon DEF Leaf
  <2> QED BY <1>3, <1>4, <1>5, <2>1, Zenon
<1>7. Mapped(v)'
  BY <1>3, <1>4, <1>6, Zenon DEF Mapped
<1> QED
  BY <1>3, <1>4, <1>5, <1>6, <1>7, Zenon

\* What vmm_map_memory does to another page: its table may be new.
LEMMA OtherPage ==
  ASSUME Tree, Frames, Spans, NEW v, MapsPage(v), NEW w \in Low \cup Heap, w # v
  PROVE  /\ Mapped(w)' <=> Mapped(w)
         /\ Mapped(w) => Leaf(w)' = Leaf(w)
         /\ Directory(w)' = IF w \div ENTRIES = v \div ENTRIES THEN DirectoryEntry(TableOf(v), job.user)
                            ELSE Directory(w)
<1>1. /\ Placed(table, v \div ENTRIES, TableOf(v), v % ENTRIES, job.user, FrameOf(v))
      /\ Extended(table, table', v \div ENTRIES, TableOf(v), v % ENTRIES, job.user, FrameOf(v))
  BY PagePlaced, Mapping, Zenon DEF MapsPage
<1>2. v \in Heap /\ w \div ENTRIES \in 0 .. ENTRIES - 1 /\ w % ENTRIES \in 0 .. ENTRIES - 1
  BY Indices DEF MapsPage, FramesChosen
<1>3. PICK j, l : j = w \div ENTRIES /\ l = w % ENTRIES
  BY Zenon
<1>4. table'[PDT][j] = IF j = v \div ENTRIES THEN DirectoryEntry(TableOf(v), job.user) ELSE table[PDT][j]
  BY <1>1, <1>2, <1>3, ThirdTable DEF Tree
<1>5. /\ Directory(w) = table[PDT][j] /\ Directory(w)' = table'[PDT][j]
      /\ Leaf(w) = table[Directory(w).frame][l] /\ Leaf(w)' = table'[Directory(w)'.frame][l]
  BY <1>3, Zenon DEF Directory, Leaf
<1>6. (Mapped(w) <=> Directory(w).present /\ Leaf(w).present) /\ (Mapped(w)' <=> Directory(w)'.present /\ Leaf(w)'.present)
  BY Zenon DEF Mapped
<1>7. CASE j # v \div ENTRIES
  <2>1. Directory(w)' = Directory(w)
    BY <1>4, <1>5, <1>7, Zenon
  <2>2. Directory(w).present => Leaf(w)' = Leaf(w)
    <3>1. ASSUME Directory(w).present
          PROVE  table[PDT][j].frame \in DOMAIN table \ {PML4T, PDPT, PDT, TableOf(v)}
      BY <1>1, <1>2, <1>3, <1>5, <1>7, <3>1, OtherTable DEF Tree
    <3>2. Directory(w).present => table'[Directory(w).frame] = table[Directory(w).frame]
      BY <1>1, <1>5, <3>1, Zenon DEF Extended
    <3> QED BY <1>5, <2>1, <3>2, Zenon
  <2> QED BY <1>3, <1>6, <1>7, <2>1, <2>2, Zenon
<1>8. CASE j = v \div ENTRIES
  <2>1. Directory(w) = Directory(v) /\ Directory(w)' = DirectoryEntry(TableOf(v), job.user)
    BY <1>4, <1>5, <1>8, Zenon DEF Directory
  <2>2. DirectoryEntry(TableOf(v), job.user).present /\ DirectoryEntry(TableOf(v), job.user).frame = TableOf(v)
    <3>1. TableOf(v) \in Nat /\ job.user \in BOOLEAN
      BY Sizing DEF Spans, MapsPage, FramesChosen
    <3> QED BY <3>1, Written, Zenon
  <2>3. Leaf(w)' = BaseTable(table, v \div ENTRIES, TableOf(v))[l]
    <3>1. l # v % ENTRIES
      BY <1>2, <1>3, <1>8, SamePage, Zenon
    <3>2. table'[TableOf(v)][l] = BaseTable(table, v \div ENTRIES, TableOf(v))[l]
      BY <1>1, <1>2, <1>3, <3>1, OwnEntries DEF Tree
    <3> QED BY <1>5, <2>1, <2>2, <3>2, Zenon
  <2>4. CASE Directory(v).present
    <3>1. BaseTable(table, v \div ENTRIES, TableOf(v)) = table[Directory(v).frame]
      BY <2>4, Zenon DEF BaseTable, TableOf, Directory
    <3>2. Leaf(w)' = Leaf(w)
      BY <1>5, <2>1, <2>3, <3>1, Zenon
    <3> QED BY <1>3, <1>6, <1>8, <2>1, <2>2, <2>4, <3>2, Zenon
  <2>5. CASE ~Directory(v).present
    <3>1. BaseTable(table, v \div ENTRIES, TableOf(v)) = EmptyTable
      BY <2>5, Zenon DEF BaseTable, Directory
    <3>2. EmptyTable[l].present = FALSE
      BY <1>2, <1>3 DEF EmptyTable, Absent
    <3>3. ~Leaf(w)'.present
      BY <2>3, <3>1, <3>2, Zenon
    <3> QED BY <1>3, <1>6, <1>8, <2>1, <2>5, <3>3, Zenon
  <2> QED BY <2>4, <2>5
<1> QED
  BY <1>7, <1>8

\* vmm_map_memory keeps the frames apart.
LEMMA MappingFrames ==
  ASSUME Tree, Frames, Spans, NEW v, MapsPage(v)
  PROVE  Frames'
<1>1. /\ v \in Heap /\ TableOf(v) \in FIRST_FREE_PAGE .. DataBase - 1
      /\ DOMAIN table' = DOMAIN table \cup {TableOf(v)}
      /\ free' = free \ Used(v)
  <2>1. /\ Extended(table, table', v \div ENTRIES, TableOf(v), v % ENTRIES, job.user, FrameOf(v))
        /\ free' = free \ Used(v)
    BY Mapping, Zenon
  <2> QED BY <2>1, Zenon DEF MapsPage, FramesChosen, Extended
<1>2. /\ FrameOf(v) \in Nat
      /\ Mapped(v) => FrameOf(v) = Leaf(v).frame
      /\ ~Mapped(v) /\ job.physical # NULL => Device(FrameOf(v))
      /\ ~Mapped(v) /\ job.physical = NULL => FrameOf(v) \in free /\ FrameOf(v) \in DataBase .. LastFrame
      /\ Directory(v).present => TableOf(v) \in DOMAIN table
      /\ ~Directory(v).present => TableOf(v) \in free /\ TableOf(v) \notin DOMAIN table
  BY DEF MapsPage, FramesChosen
<1>3. Leaf(v)' = LeafEntry(FrameOf(v), job.user) /\ Mapped(v)'
  BY MappedPage, Zenon
<1>4. Leaf(v)'.frame = FrameOf(v)
  BY <1>2, <1>3, Written DEF Spans
<1>5. \A w \in Heap : w # v => (Mapped(w)' <=> Mapped(w)) /\ (Mapped(w) => Leaf(w)' = Leaf(w))
  BY OtherPage
<1>6. FIRST_FREE_PAGE \in Nat /\ DataBase \in Nat /\ LastFrame \in Nat
  BY Sizing
<1>7. \A f \in FIRST_FREE_PAGE .. DataBase - 1 : f \notin DataBase .. LastFrame
  BY <1>6
<1>8. \A f \in FIRST_FREE_PAGE .. DataBase - 1 : f \in free' <=> f \notin DOMAIN table'
  BY <1>1, <1>2, <1>7 DEF Frames, Used
<1>9. ASSUME NEW f \in DataBase .. LastFrame
      PROVE  f \in free' \/ \E w \in Heap : Mapped(w)' /\ Leaf(w)'.frame = f
  <2>1. CASE f \in free
    <3>1. f \in free' \/ f = FrameOf(v)
      BY <1>1, <1>7, <2>1, Zenon DEF Used
    <3> QED BY <1>1, <1>3, <1>4, <3>1, Zenon
  <2>2. CASE f \notin free
    <3>1. PICK w \in Heap : Mapped(w) /\ Leaf(w).frame = f
      BY <2>2 DEF Frames
    <3> QED BY <1>2, <1>3, <1>4, <1>5, <3>1, Zenon
  <2> QED BY <2>1, <2>2, Zenon
<1>10. ASSUME NEW w \in Heap, Mapped(w)'
       PROVE  Device(Leaf(w)'.frame) \/ Leaf(w)'.frame \in (DataBase .. LastFrame) \ free'
  <2>1. CASE w # v
    BY <1>1, <1>5, <1>10, <2>1, Zenon DEF Frames
  <2>2. CASE w = v /\ Mapped(v)
    BY <1>1, <1>2, <1>4, <2>2, Zenon DEF Frames
  <2>3. CASE w = v /\ ~Mapped(v)
    <3>1. job.physical = NULL => FrameOf(v) \in Used(v)
      BY <2>3 DEF Used
    <3> QED BY <1>1, <1>2, <1>4, <2>3, <3>1, Zenon
  <2> QED BY <2>1, <2>2, <2>3, Zenon
<1>11. ASSUME NEW w \in Heap, w # v, Mapped(w), ~Device(FrameOf(v)) PROVE Leaf(w).frame # FrameOf(v)
  <2>1. CASE Mapped(v)
    BY <1>1, <1>2, <1>11, <2>1, Zenon DEF Frames
  <2>2. CASE ~Mapped(v)
    BY <1>2, <1>11, <2>2, Zenon DEF Frames
  <2> QED BY <2>1, <2>2, Zenon
<1>12. ASSUME NEW a \in Heap, NEW b \in Heap, Mapped(a)', Mapped(b)', ~Device(Leaf(a)'.frame),
              Leaf(a)'.frame = Leaf(b)'.frame
       PROVE  a = b
  <2>1. CASE a # v /\ b # v
    BY <1>5, <1>12, <2>1, Zenon DEF Frames
  <2>2. CASE a = v /\ b # v
    BY <1>4, <1>5, <1>11, <1>12, <2>2, Zenon
  <2>3. CASE a # v /\ b = v
    BY <1>4, <1>5, <1>11, <1>12, <2>3, Zenon
  <2> QED BY <2>1, <2>2, <2>3, Zenon
<1>13. free' \subseteq FIRST_FREE_PAGE .. LastFrame
  BY <1>1, Zenon DEF Frames
<1>14. \A f : Device(f)' <=> Device(f)
  BY DEF Device
<1> QED
  BY <1>8, <1>9, <1>10, <1>12, <1>13, <1>14, Zenon DEF Frames, Device

\* One page is done.
LEMMA NextPending ==
  ASSUME Spans, vmm_map_memory
  PROVE  /\ job.virtual \in Pending /\ Pending' = Pending \ {job.virtual}
         /\ job' \in [left : Nat, virtual : Nat, physical : Nat, user : BOOLEAN]
         /\ job'.physical = NULL \/ Device(job'.physical)
         /\ job'.left > 0 => job'.user = job.user
         /\ job'.user => job.user
<1>1. job \in [left : Nat, virtual : Nat, physical : Nat, user : BOOLEAN] /\ job.left > 0 /\ job' = NextJob
  BY DEF Spans, vmm_map_memory
<1>2. job.virtual \in Pending
  BY <1>1 DEF Pending
<1>3. CASE job.left = 1
  <2>1. job' = NoJob
    BY <1>1, <1>3 DEF NextJob
  <2>2. Pending' = {} /\ Pending = {job.virtual}
    BY <1>1, <1>3, <2>1 DEF Pending, NoJob
  <2> QED BY <1>2, <2>1, <2>2 DEF NoJob, NULL
<1>4. CASE job.left # 1
  <2>1. job' = [job EXCEPT !.left = @ - 1, !.virtual = @ + 1, !.physical = IF @ = NULL THEN NULL ELSE @ + 1]
    BY <1>1, <1>4 DEF NextJob
  <2>2. /\ job'.left = job.left - 1 /\ job'.virtual = job.virtual + 1 /\ job'.user = job.user
        /\ job'.physical = IF job.physical = NULL THEN NULL ELSE job.physical + 1
    BY <1>1, <2>1
  <2>2a. job' \in [left : Nat, virtual : Nat, physical : Nat, user : BOOLEAN]
    <3>1. job.left - 1 \in Nat /\ job.virtual + 1 \in Nat /\ NULL \in Nat /\ job.physical + 1 \in Nat
      BY <1>1, <1>4 DEF NULL
    <3> QED BY <1>1, <2>1, <3>1, Zenon
  <2>3. Pending' = Pending \ {job.virtual}
    BY <1>1, <1>4, <2>2 DEF Pending
  <2>4. job'.physical = NULL \/ Device(job'.physical)
    <3>1. job.physical = NULL \/ job.physical >= FrameBuffer
      BY Zenon DEF Spans, Device
    <3> QED BY <1>1, <2>2, <3>1, Sizing DEF Device
  <2> QED BY <1>2, <2>2, <2>2a, <2>3, <2>4
<1> QED
  BY <1>3, <1>4, Zenon

\* vmm_map_memory keeps the flags that the properties are about.
LEMMA MappingFlags ==
  ASSUME Tree, Frames, Identity, Flags, Spans, NEW v, MapsPage(v)
  PROVE  Flags'
<1>1. v \in Heap /\ v \in Pending /\ Pending' = Pending \ {v}
  BY NextPending, Zenon DEF MapsPage, FramesChosen
<1>2. /\ Directory(v)' = DirectoryEntry(TableOf(v), job.user) /\ Leaf(v)' = LeafEntry(FrameOf(v), job.user)
      /\ Mapped(v)' /\ table'[PML4T][0].user = job.user /\ table'[PDPT][0].user = job.user
  BY MappedPage, Zenon
<1>3. FrameOf(v) \in Nat /\ TableOf(v) \in Nat /\ job.user \in BOOLEAN
  <2>1. TableOf(v) \in FIRST_FREE_PAGE .. DataBase - 1
    BY DEF MapsPage, FramesChosen
  <2> QED BY <2>1, Sizing DEF MapsPage, FramesChosen, Spans
<1>4. /\ DirectoryEntry(TableOf(v), job.user).user = job.user /\ LeafEntry(FrameOf(v), job.user).user = job.user
      /\ LeafEntry(FrameOf(v), job.user).write /\ LeafEntry(FrameOf(v), job.user).nx
  BY <1>3, Written, Zenon
<1>5. \A w \in Low \cup Heap : w # v =>
        /\ (Mapped(w)' <=> Mapped(w)) /\ (Mapped(w) => Leaf(w)' = Leaf(w))
        /\ Directory(w)' = DirectoryEntry(TableOf(v), job.user) \/ Directory(w)' = Directory(w)
  BY OtherPage, Zenon
<1>6. users' = users /\ phase' = phase /\ grown' = grown /\ job.left > 0
  BY DEF MapsPage, vmm_map_memory
<1>7. UserPages' = UserPages /\ OSPages' = OSPages
  BY <1>6 DEF UserPages, OSPages
<1>8. ASSUME NEW w \in Heap, Mapped(w)'
      PROVE  Leaf(w)'.write /\ Leaf(w)'.nx /\ (Leaf(w)'.user => w \in UserPages')
  <2>1. CASE w = v
    BY <1>1, <1>2, <1>4, <1>7, <2>1, Zenon DEF Spans
  <2>2. CASE w # v
    BY <1>5, <1>7, <1>8, <2>2, Zenon DEF Flags
  <2> QED BY <2>1, <2>2, Zenon
<1>9. ASSUME phase = "user", ~grown, NEW w \in OSPages \cup (UserPages \ Pending')
      PROVE  /\ Mapped(w)' /\ table'[PML4T][0].user /\ table'[PDPT][0].user
             /\ Directory(w)'.user /\ Leaf(w)'.user
  <2>1. job.user
    BY <1>6, <1>9 DEF Spans
  <2>2. CASE w = v
    BY <1>2, <1>4, <2>1, <2>2, Zenon
  <2>3. CASE w # v
    <3>1. w \in OSPages \cup (UserPages \ Pending) /\ w \in Low \cup Heap
      BY <1>1, <2>3, ImageIsLow, UserPagesInHeap, Zenon
    <3>2. Mapped(w) /\ Directory(w).user /\ Leaf(w).user
      BY <1>9, <3>1, Zenon DEF Flags
    <3> QED BY <1>2, <1>4, <1>5, <2>1, <2>3, <3>1, <3>2, Zenon
  <2> QED BY <2>2, <2>3, Zenon
<1>10. phase' # "user" => users' = {}
  BY <1>6, Zenon DEF Flags
<1> QED
  BY <1>6, <1>7, <1>8, <1>9, <1>10, Zenon DEF Flags

\* vmm_map_memory goes on with the span.
LEMMA MappingSpans ==
  ASSUME Tree, Frames, Spans, NEW v, MapsPage(v)
  PROVE  Spans'
<1>1. v \in Heap /\ Pending' = Pending \ {v}
  BY NextPending, Zenon DEF MapsPage, FramesChosen
<1>2. Mapped(v)'
  BY MappedPage
<1>3. \A w \in Low \cup Heap : w # v => (Mapped(w)' <=> Mapped(w))
  BY OtherPage, Zenon
<1>4. /\ users' = users /\ phase' = phase /\ grown' = grown /\ hfree' = hfree /\ held' = held /\ job.left > 0
  BY DEF MapsPage, vmm_map_memory
<1>5. UserPages' = UserPages
  BY <1>4, Zenon DEF UserPages
<1>6. /\ job' \in [left : Nat, virtual : Nat, physical : Nat, user : BOOLEAN]
      /\ job'.physical = NULL \/ Device(job'.physical)
      /\ job'.left > 0 => job'.user = job.user
      /\ job'.user => job.user
  BY NextPending DEF MapsPage
<1>7. ASSUME NEW s \in held, NEW w \in Space!Pages(s) \ Pending' PROVE Mapped(w)'
  <2>1. w \in Heap
    BY DEF Spans
  <2>2. CASE w = v
    BY <1>2, <2>2
  <2>3. CASE w # v
    <3>1. Mapped(w)
      BY <1>1, <2>3, Zenon DEF Spans
    <3> QED BY <1>3, <2>1, <2>3, <3>1, Zenon
  <2> QED BY <2>2, <2>3, Zenon
<1>8. (job.user => Pending \subseteq UserPages) /\ (phase = "user" /\ ~grown => job.user) /\ Pending \subseteq Heap
  BY <1>4, Zenon DEF Spans
<1>9. (job'.user => Pending' \subseteq UserPages') /\ Pending' \subseteq Heap
  BY <1>1, <1>5, <1>6, <1>8, Zenon
<1>10. job'.left > 0 /\ phase' = "user" /\ ~grown' => job'.user
  BY <1>4, <1>6, <1>8, Zenon
<1>11. \A s \in held' : \A w \in Space!Pages(s) \ Pending' : Mapped(w)'
  BY <1>4, <1>7, Zenon
<1>12. /\ phase' \in {"reset", "base", "boot", "user"} /\ grown' \in BOOLEAN /\ hfree' \subseteq Heap
       /\ \A s \in held' : Space!Pages(s) \subseteq Heap
       /\ users' \subseteq held'
  BY <1>4, Zenon DEF Spans
<1> QED
  BY <1>6, <1>9, <1>10, <1>11, <1>12, Zenon DEF Spans, Device, Space!Pages

\* vmm_map_memory leaves every translation in the TLB right.
LEMMA MappingRemembered ==
  ASSUME Tree, Frames, Spans, Remembered, NEW v, MapsPage(v)
  PROVE  Remembered'
<1>1. v \in Heap /\ DOMAIN tlb' \subseteq DOMAIN tlb /\ \A w \in DOMAIN tlb' : tlb'[w] = tlb[w]
  BY Mapping, Zenon DEF MapsPage, FramesChosen
<1>2. Leaf(v)' = LeafEntry(FrameOf(v), job.user) /\ Mapped(v)'
  BY MappedPage, Zenon
<1>3. FrameOf(v) \in Nat /\ (Mapped(v) => FrameOf(v) = Leaf(v).frame) /\ job.user \in BOOLEAN
  BY Zenon DEF MapsPage, FramesChosen, Spans
<1>4. Leaf(v)'.frame = FrameOf(v)
  BY <1>2, <1>3, Written
<1>5. \A w \in Low \cup Heap : w # v => (Mapped(w)' <=> Mapped(w)) /\ (Mapped(w) => Leaf(w)' = Leaf(w))
  BY OtherPage, Zenon
<1>6. UserPages' = UserPages /\ OSPages' = OSPages
  BY Zenon DEF MapsPage, vmm_map_memory, UserPages, OSPages
<1>7. Watched \subseteq Low \cup Heap
  BY PagingAssumption, Zenon
<1>8. ASSUME NEW w \in DOMAIN tlb'
      PROVE  Mapped(w)' /\ tlb'[w].frame = Leaf(w)'.frame /\ (tlb'[w].user => w \in OSPages' \cup UserPages')
  <2>1. /\ Mapped(w) /\ tlb[w].frame = Leaf(w).frame /\ (tlb[w].user => w \in OSPages \cup UserPages)
        /\ tlb'[w] = tlb[w] /\ w \in Low \cup Heap
    BY <1>1, <1>7, Zenon DEF Remembered
  <2>2. CASE w = v
    BY <1>2, <1>3, <1>4, <1>6, <2>1, <2>2, Zenon
  <2>3. CASE w # v
    BY <1>5, <1>6, <2>1, <2>3, Zenon
  <2> QED BY <2>2, <2>3, Zenon
<1>9. DOMAIN tlb' \subseteq Watched
  BY <1>1 DEF Remembered
<1> QED
  BY <1>8, <1>9 DEF Remembered

\* vmm_map_memory keeps the invariant.
LEMMA MappingKeeps ==
  ASSUME PagingInv, NEW v, MapsPage(v)
  PROVE  PagingInv'
<1> USE DEF PagingInv
<1>1. Tree' /\ Frames' /\ Flags' /\ Spans' /\ Remembered'
  BY MappingTree, MappingFrames, MappingFlags, MappingSpans, MappingRemembered, Zenon
<1>2. Identity'
  <2>2. table'[PT] = table[PT]
    BY MappedPage, Zenon
  <2>3. phase' = phase
    BY DEF MapsPage, vmm_map_memory
  <2> QED BY <2>2, <2>3, Zenon DEF Identity, Low, ReadOnly, NoExecute, OSPages, Entry
<1> QED
  BY <1>1, <1>2, Zenon
------------------------------------------------------------------------------
(* What the TLB keeps of the rights of ring 3 *)

\* liballoc_free unmaps nothing, so a page that can be served may still have an
\* entry, and a translation, of its life before: it is then a page that was freed.
\* A translation that the OS may use lets it in, but for those.
TlbRights ==
  /\ recycled \subseteq Heap
  /\ hfree \cap Pending = {}
  /\ \A v \in hfree \cup Pending : Mapped(v) => v \in recycled
  /\ phase = "user" /\ ~grown =>
       \A v \in DOMAIN tlb : v \in OS_TEXT \cup UserPages => tlb[v].user \/ v \in recycled

\* At first nothing of the heap is mapped.
LEMMA InitRights ==
  ASSUME Init, PagingInv
  PROVE  TlbRights
<1>1. recycled = {} /\ hfree = Heap /\ job = NoJob /\ phase = "reset" /\ table = BootTables
  BY DEF Init, Space!Init
<1>2. Pending = {}
  BY <1>1 DEF NoJob, Pending
<1>3. ASSUME NEW v \in Heap, Mapped(v) PROVE FALSE
  <2>1. Directory(v) = table[PDT][v \div ENTRIES] /\ Directory(v).present
    BY <1>3, Zenon DEF Mapped, Directory
  <2>2. table[PDT] = With(EmptyTable, 0, DirectoryEntry(PT, FALSE))
    BY <1>1, BootTablesApart DEF BootTables, BootFrames, With, DirectoryEntry
  <2>3. v \div ENTRIES \in 0 .. ENTRIES - 1 /\ v \div ENTRIES # 0
    BY Indices
  <2>4. table[PDT][v \div ENTRIES] = Absent
    BY <2>2, <2>3 DEF With, EmptyTable
  <2> QED BY <2>1, <2>4 DEF Absent
<1> QED
  BY <1>1, <1>2, <1>3, Zenon DEF TlbRights

\* vmm_map_memory gives an entry to its own page only, which is then served.
LEMMA MappingRights ==
  ASSUME PagingInv, TlbRights, NEW v, MapsPage(v)
  PROVE  TlbRights'
<1>0. Tree /\ Frames /\ Spans
  BY DEF PagingInv
<1>1. /\ recycled' = recycled /\ hfree' = hfree /\ phase' = phase /\ grown' = grown /\ users' = users
      /\ v = job.virtual /\ vmm_map_memory
  BY Zenon DEF MapsPage, vmm_map_memory
<1>2. v \in Pending /\ Pending' = Pending \ {v}
  BY <1>0, <1>1, NextPending, Zenon
<1>3. DOMAIN tlb' \subseteq DOMAIN tlb /\ \A w \in DOMAIN tlb' : tlb'[w] = tlb[w]
  BY <1>0, Mapping, Zenon
<1>4. UserPages' = UserPages
  BY <1>1, SameUsers, Zenon
<1>5. ASSUME NEW w \in hfree' \cup Pending', Mapped(w)' PROVE w \in recycled'
  <2>1. w \in hfree \cup Pending /\ w # v
    BY <1>1, <1>2, Zenon DEF TlbRights
  <2>2. w \in Heap
    BY <1>0, <2>1, Zenon DEF Spans
  <2>3. Mapped(w)
    BY <1>0, <1>5, <2>1, <2>2, OtherPage, Zenon
  <2> QED BY <1>1, <2>1, <2>3, Zenon DEF TlbRights
<1> QED
  BY <1>1, <1>2, <1>3, <1>4, <1>5, Zenon DEF TlbRights

\* vmm_set_page_permissions flushes the text of the OS, which has no other pages yet.
LEMMA PermissionsRights ==
  ASSUME PagingInv, TlbRights, vmm_set_page_permissions
  PROVE  TlbRights'
<1>0. Tree /\ Identity /\ Flags /\ Spans
  BY DEF PagingInv
<1>1. /\ phase = "boot" /\ table' = AllPermissions(table) /\ job' = job /\ hfree' = hfree
      /\ users' = users /\ recycled' = recycled /\ DOMAIN tlb' = DOMAIN tlb \ Flushed
  BY Zenon DEF vmm_set_page_permissions
<1>2. Reflagged(table, table')
  BY <1>0, <1>1, PermissionsSet
<1>3. Pending' = Pending /\ UserPages' = {}
  <2>1. users' = {}
    BY <1>0, <1>1 DEF Flags
  <2> QED BY <1>1, <2>1, SameJob DEF UserPages
<1>4. ASSUME NEW v \in DOMAIN tlb' PROVE v \notin OS_TEXT
  BY <1>1, Zenon DEF Flushed
<1>5. ASSUME NEW v \in hfree' \cup Pending', Mapped(v)' PROVE v \in recycled'
  <2>1. v \in hfree \cup Pending /\ v \in Heap
    BY <1>0, <1>1, <1>3, Zenon DEF Spans
  <2>2. Mapped(v)
    BY <1>0, <1>2, <1>5, <2>1, HeapReflagged, Zenon
  <2> QED BY <1>1, <2>1, <2>2, Zenon DEF TlbRights
<1> QED
  BY <1>1, <1>3, <1>4, <1>5, Zenon DEF TlbRights

\* A page that vmm_mmap serves had been free.
LEMMA ServingRights ==
  ASSUME PagingInv, TlbRights,
         NEW physical \in {NULL, FrameBuffer}, NEW pages \in Nat \ {0}, NEW user \in BOOLEAN,
         vmm_mmap(physical, pages, user),
         phase' = "user" => phase = "user", grown => grown',
         users' = IF ~user \/ ret' = NULL THEN users ELSE users \cup {[start |-> ret', pages |-> pages]}
  PROVE  TlbRights'
<1>0. Spans /\ Remembered
  BY DEF PagingInv
<1> DEFINE s == [start |-> ret', pages |-> pages]
<1>1. /\ table' = table /\ tlb' = tlb /\ recycled' = recycled
      /\ hfree' \cup Pending' \subseteq hfree /\ hfree' \cap Pending' = {}
      /\ ret' # NULL => Pending' = Space!Pages(s)
  BY <1>0, Served
<1>2. users' = IF ~user \/ ret' = NULL THEN users ELSE users \cup {s}
  OBVIOUS
<1> HIDE DEF s
<1>3. \A v : Mapped(v)' <=> Mapped(v)
  BY <1>1, SameTables, Zenon
<1>4. UserPages' \subseteq UserPages \cup Pending'
  BY <1>1, <1>2 DEF UserPages
<1>5. \A v \in hfree' \cup Pending' : Mapped(v)' => v \in recycled'
  BY <1>1, <1>3, Zenon DEF TlbRights
<1>6. ASSUME phase' = "user", ~grown', NEW v \in DOMAIN tlb', v \in OS_TEXT \cup UserPages'
      PROVE  tlb'[v].user \/ v \in recycled'
  <2>1. CASE v \in OS_TEXT \cup UserPages
    BY <1>1, <1>6, <2>1, Zenon DEF TlbRights
  <2>2. CASE v \in Pending'
    <3>1. Mapped(v) /\ v \in hfree
      BY <1>0, <1>1, <2>2, Zenon DEF Remembered
    <3> QED BY <1>1, <3>1, Zenon DEF TlbRights
  <2> QED BY <1>4, <1>6, <2>1, <2>2, Zenon
<1> QED
  BY <1>1, <1>5, <1>6, Zenon DEF TlbRights

\* The four calls of it.
LEMMA CallsRights ==
  ASSUME PagingInv, TlbRights,
         \/ MapBase \/ MapFrameBuffer
         \/ \E pages \in Sizes : liballoc_alloc(pages)
         \/ \E physical \in {NULL, FrameBuffer}, pages \in Sizes : mmap(physical, pages)
  PROVE  TlbRights'
<1>0. BasePages \in Nat \ {0} /\ FbPages \in Nat \ {0} /\ Sizes \subseteq Nat \ {0}
  BY PagingAssumption
<1>1. CASE MapBase
  <2>1. /\ vmm_mmap(NULL, BasePages, FALSE) /\ phase' = "base"
        /\ users' = users /\ grown' = grown
    BY <1>1, Zenon DEF MapBase
  <2> QED BY <1>0, <2>1, ServingRights, Zenon
<1>2. CASE MapFrameBuffer
  <2>1. /\ vmm_mmap(FrameBuffer, FbPages, FALSE) /\ phase' = "boot"
        /\ users' = users /\ grown' = grown
    BY <1>2, Zenon DEF MapFrameBuffer
  <2> QED BY <1>0, <2>1, ServingRights, Zenon
<1>3. ASSUME NEW pages \in Sizes, liballoc_alloc(pages) PROVE TlbRights'
  <2>1. /\ vmm_mmap(NULL, pages, FALSE) /\ phase' = phase /\ users' = users
        /\ grown' = (grown \/ (phase = "user" /\ ret' # NULL)) /\ pages \in Nat \ {0}
    BY <1>0, <1>3, Zenon DEF liballoc_alloc
  <2> QED BY <2>1, ServingRights, Zenon
<1>4. ASSUME NEW physical \in {NULL, FrameBuffer}, NEW pages \in Sizes, mmap(physical, pages) PROVE TlbRights'
  <2>1. /\ vmm_mmap(physical, pages, TRUE) /\ phase' = phase /\ grown' = grown
        /\ users' = IF ret' = NULL THEN users ELSE users \cup {[start |-> ret', pages |-> pages]}
        /\ pages \in Nat \ {0}
    BY <1>0, <1>4, Zenon DEF mmap
  <2> QED BY <2>1, ServingRights, Zenon
<1> QED
  BY <1>1, <1>2, <1>3, <1>4, Zenon

\* The pages that liballoc_free frees are recycled.
LEMMA FreeingRights ==
  ASSUME PagingInv, TlbRights, NEW s \in held, liballoc_free(s)
  PROVE  TlbRights'
<1>0. Spans
  BY DEF PagingInv
<1>1. /\ table' = table /\ tlb' = tlb /\ phase' = phase /\ job' = job /\ job.left = 0
      /\ users' = users /\ grown' = grown
      /\ recycled' = recycled \cup Space!Pages(s) /\ hfree' = hfree \cup Space!Pages(s)
  BY DEF liballoc_free, Space!Free
<1>2. (\A v : Mapped(v)' <=> Mapped(v)) /\ UserPages' = UserPages
  BY <1>1, SameTables, SameUsers, Zenon
<1>3. Pending' = {}
  <2>1. Pending = {}
    BY <1>0, <1>1 DEF Pending, Spans
  <2> QED BY <1>1, <2>1, SameJob, Zenon
<1>4. Space!Pages(s) \subseteq Heap
  BY <1>0, Zenon DEF Spans
<1> QED
  BY <1>1, <1>2, <1>3, <1>4, Zenon DEF TlbRights

\* A translation that the processor loads has the rights in the tables.
LEMMA ProcessorRights ==
  ASSUME PagingInv, TlbRights, (\E v \in Watched : Access(v)) \/ (\E v \in DOMAIN tlb : Evict(v))
  PROVE  TlbRights'
<1>0. Tree /\ Flags /\ Spans
  BY DEF PagingInv
<1>1. /\ table' = table /\ phase' = phase /\ job' = job /\ hfree' = hfree
      /\ users' = users /\ grown' = grown /\ recycled' = recycled
  BY Zenon DEF Access, Evict
<1>2. (\A v : Mapped(v)' <=> Mapped(v)) /\ UserPages' = UserPages /\ Pending' = Pending
  BY <1>1, SameTables, SameUsers, SameJob, Zenon
<1>3. ASSUME phase = "user", ~grown, NEW w \in DOMAIN tlb', w \in OS_TEXT \cup UserPages
      PROVE  tlb'[w].user \/ w \in recycled
  <2>1. ASSUME NEW v \in Watched, Access(v) PROVE tlb'[w].user \/ w \in recycled
    <3>1. Walk(v).present /\ tlb' = [x \in DOMAIN tlb \cup {v} |-> IF x = v THEN Walk(v) ELSE tlb[x]]
      BY <2>1, Zenon DEF Access
    <3>2. CASE w = v
      <4>1. v \in Low \cup Heap /\ tlb'[w] = Walk(v)
        BY <3>1, <3>2, PagingAssumption, Zenon
      <4>2. Mapped(v)
        BY <1>0, <3>1, <4>1, WalkIs, Zenon
      <4>3. CASE v \in Pending
        BY <3>2, <4>2, <4>3, Zenon DEF TlbRights
      <4>4. CASE v \notin Pending
        <5>1. v \in OSPages \cup (UserPages \ Pending)
          BY <1>3, <3>2, <4>4, Zenon DEF OSPages
        <5>2. table[PML4T][0].user /\ table[PDPT][0].user /\ Directory(v).user /\ Leaf(v).user
          BY <1>0, <1>3, <5>1, Zenon DEF Flags
        <5>3. Walk(v).user
          BY <1>0, <4>1, <4>2, <5>2, WalkIs, Zenon
        <5> QED BY <4>1, <5>3, Zenon
      <4> QED BY <4>3, <4>4
    <3>3. CASE w # v
      <4>1. w \in DOMAIN tlb /\ tlb'[w] = tlb[w]
        BY <1>3, <3>1, <3>3, Zenon
      <4> QED BY <1>3, <4>1, Zenon DEF TlbRights
    <3> QED BY <3>2, <3>3, Zenon
  <2>2. ASSUME NEW v \in DOMAIN tlb, Evict(v) PROVE tlb'[w].user \/ w \in recycled
    <3>1. w \in DOMAIN tlb /\ tlb'[w] = tlb[w]
      BY <1>3, <2>2 DEF Evict
    <3> QED BY <1>3, <3>1, Zenon DEF TlbRights
  <2> QED BY <2>1, <2>2, Zenon
<1> QED
  BY <1>1, <1>2, <1>3, Zenon DEF TlbRights
=============================================================================
