-------------------------- MODULE UserProgramProof --------------------------
(***************************************************************************)
(* Proofs about the user program.  First its heap, UserHeap, for every     *)
(* page size, heap, width of words and sequence of requests that           *)
(* UserHeapAssumption allows; then its picture, Screen, for every size of  *)
(* screen, square, page and header that ScreenAssumption allows; and       *)
(* last the program as a whole, whose behaviours are behaviours of both.   *)
(***************************************************************************)
EXTENDS UserProgram, TLAPS

------------------------------------------------------------------------------
(* Arithmetic *)

\* Quotient and remainder.
LEMMA DivMod ==
  ASSUME NEW u \in Int, NEW p \in Nat \ {0}
  PROVE  /\ u \div p \in Int /\ u % p \in 0 .. p - 1
         /\ u = (u \div p) * p + (u % p)
OBVIOUS

\* They are the only ones.
LEMMA DivModUnique ==
  ASSUME NEW p \in Nat \ {0}, NEW q \in Int, NEW r \in 0 .. p - 1
  PROVE  (q * p + r) % p = r /\ (q * p + r) \div p = q
OBVIOUS

\* A number below p is its own remainder.
LEMMA ModSmall ==
  ASSUME NEW p \in Nat \ {0}, NEW u \in Nat, u < p
  PROVE  u % p = u
OBVIOUS

\* Multiplication keeps the order.
LEMMA Order ==
  ASSUME NEW p \in Nat, NEW u \in Int, NEW w \in Int, u <= w
  PROVE  u * p <= w * p
OBVIOUS

\* A multiple of a sum.
LEMMA Distribute ==
  ASSUME NEW p \in Nat, NEW u \in Int, NEW w \in Int
  PROVE  (u + w) * p = u * p + w * p /\ u * p \in Int
OBVIOUS

\* Sums and differences of multiples of p.
LEMMA Multiples ==
  ASSUME NEW p \in Nat \ {0}, NEW u \in Int, NEW w \in Int, u % p = 0, w % p = 0
  PROVE  (u + w) % p = 0 /\ (u - w) % p = 0 /\ u = (u \div p) * p
<1> DEFINE a == u \div p
           b == w \div p
<1>1. a \in Int /\ b \in Int /\ u = a * p + 0 /\ w = b * p + 0
  BY DivMod
<1> HIDE DEF a, b
<1>2. u + w = (a + b) * p + 0 /\ u - w = (a - b) * p + 0
  BY <1>1
<1>3. ((a + b) * p + 0) % p = 0 /\ ((a - b) * p + 0) % p = 0
  BY <1>1, DivModUnique
<1> QED
  BY <1>1, <1>2, <1>3 DEF a

\* A multiple of p leaves nothing over.
LEMMA MultipleOf ==
  ASSUME NEW p \in Nat \ {0}, NEW q \in Int
  PROVE  (q * p) % p = 0 /\ (q * p) \div p = q
<1>1. q * p = q * p + 0 /\ 0 \in 0 .. p - 1
  OBVIOUS
<1> QED
  BY <1>1, DivModUnique

\* A multiple of p is a multiple of what divides p.
LEMMA Divides ==
  ASSUME NEW p \in Nat \ {0}, NEW d \in Nat \ {0}, p % d = 0, NEW u \in Int, u % p = 0
  PROVE  u % d = 0
<1> DEFINE a == u \div p
           b == p \div d
<1>1. a \in Int /\ b \in Int /\ u = a * p /\ p = b * d
  BY DivMod
<1> HIDE DEF a, b
<1>2. u = (a * b) * d /\ a * b \in Int
  BY <1>1
<1> QED
  BY <1>2, MultipleOf, Zenon

\* Two multiples of p that differ, differ by p or more.
LEMMA Steps ==
  ASSUME NEW p \in Nat \ {0}, NEW u \in Int, NEW w \in Int, u % p = 0, w % p = 0, u < w
  PROVE  u + p <= w
<1> DEFINE a == u \div p
           b == w \div p
<1>1. a \in Int /\ b \in Int /\ u = a * p /\ w = b * p
  BY DivMod
<1> HIDE DEF a, b
<1>2. a < b
  BY <1>1
<1>3. (a + 1) * p <= b * p
  BY <1>1, <1>2
<1> QED
  BY <1>1, <1>3

\* x and what rounds it up to a multiple of p.
LEMMA Rounding ==
  ASSUME NEW p \in Nat \ {0}, NEW u \in Int
  PROVE  (-u) % p \in 0 .. p - 1 /\ (u + ((-u) % p)) % p = 0
<1> DEFINE w == -u
           a == w \div p
           r == w % p
<1>0. w \in Int /\ w + u = 0
  OBVIOUS
<1> HIDE DEF w
<1>1. a \in Int /\ r \in 0 .. p - 1 /\ w = a * p + r
  BY <1>0, DivMod
<1> HIDE DEF a, r
<1>2. u + r = (0 - a) * p /\ 0 - a \in Int
  BY <1>0, <1>1
<1>3. ((0 - a) * p) % p = 0
  BY <1>2, MultipleOf
<1>4. (u + r) % p = 0
  BY <1>2, <1>3
<1> QED
  BY <1>1, <1>4 DEF r, w

\* RoundUp for words below a multiple of p that is a word.
LEMMA RoundUpOf ==
  ASSUME NEW p \in Nat \ {0}, NEW u \in Nat, NEW top \in Nat, u <= top, top % p = 0, top < Longs,
         Longs \in Nat
  PROVE  /\ RoundUp(u, p) \in Nat /\ RoundUp(u, p) % p = 0
         /\ u <= RoundUp(u, p) /\ RoundUp(u, p) < u + p /\ RoundUp(u, p) <= top
<1> DEFINE r == (-u) % p
<1>1. r \in 0 .. p - 1 /\ (u + r) % p = 0
  <2>1. u \in Int
    OBVIOUS
  <2> QED
    BY <2>1, Rounding, Zenon
<1> HIDE DEF r
<1>2. u + r <= top
  <2> SUFFICES ASSUME top < u + r PROVE FALSE
    BY <1>1
  <2>1. u + r \in Int /\ top \in Int
    BY <1>1
  <2>2. top + p <= u + r
    BY <1>1, <2>1, Steps, Zenon
  <2> QED
    BY <1>1, <2>2
<1>3. (u + r) % Longs = u + r
  BY <1>1, <1>2, ModSmall
<1> QED
  BY <1>1, <1>2, <1>3 DEF RoundUp, r

------------------------------------------------------------------------------
(* The constants, and what the operators of lite_malloc.c return *)

\* The constants as the proofs use them.
LEMMA Constants ==
  /\ PAGE_SIZE \in Nat \ {0} /\ Longs \in Nat \ {0} /\ Ints \in Nat \ {0} /\ StackAt \in Nat \ {0}
  /\ MaxCalls \in Nat \ {0} /\ PAGE_SIZE >= 16 /\ Heap \subseteq Nat /\ NULL \notin Heap
  /\ PAGE_SIZE % 16 = 0 /\ Ints % PAGE_SIZE = 0 /\ Longs % PAGE_SIZE = 0
  /\ Ints + PAGE_SIZE <= Longs /\ 64 * PAGE_SIZE < Ints
<1>1. /\ PAGE_SIZE \in Nat \ {0} /\ Longs \in Nat \ {0} /\ Ints \in Nat \ {0}
      /\ StackAt \in Nat \ {0} /\ MaxCalls \in Nat \ {0} /\ Heap \subseteq Nat /\ NULL \notin Heap
      /\ PAGE_SIZE % 16 = 0 /\ Ints % PAGE_SIZE = 0 /\ Longs % Ints = 0 /\ Ints < Longs
  BY UserHeapAssumption DEF ALIGN
<1>2. PAGE_SIZE >= 16
  BY <1>1
<1>3. Longs % PAGE_SIZE = 0
  <2>1. Longs \in Int
    BY <1>1
  <2> QED
    BY <1>1, <2>1, Divides, Zenon
<1>4. Ints + PAGE_SIZE <= Longs
  BY <1>1, <1>3, Steps
<1>5. PICK p \in Heap : p >= 64 /\ 2 * (p + 1) * PAGE_SIZE < Ints
  BY UserHeapAssumption, Zenon
<1>6. 64 * PAGE_SIZE <= (2 * (p + 1)) * PAGE_SIZE
  BY <1>1, <1>5, Order
<1>7. 64 * PAGE_SIZE < Ints
  BY <1>1, <1>5, <1>6
<1> QED
  BY <1>1, <1>2, <1>3, <1>4, <1>7

\* Any page of the heap is above the first 64 and below half of Ints.
LEMMA HeapPage ==
  ASSUME NEW p \in Heap
  PROVE  /\ p \in Nat /\ 64 * PAGE_SIZE <= p * PAGE_SIZE /\ p * PAGE_SIZE \in Nat \ {0}
         /\ (p + 1) * PAGE_SIZE < Ints
<1>1. p \in Nat /\ p >= 64 /\ 2 * (p + 1) * PAGE_SIZE < Ints
  BY UserHeapAssumption
<1>2. 64 * PAGE_SIZE <= p * PAGE_SIZE /\ (p + 1) * PAGE_SIZE <= 2 * (p + 1) * PAGE_SIZE
  BY <1>1, Constants
<1> QED
  BY <1>1, <1>2, Constants

\* The alignment of a block divides a page.
LEMMA Aligned ==
  ASSUME NEW n \in Nat
  PROVE  AlignFor(n) \in Aligns
<1>1. \E a \in Aligns : (a >= n \/ a = ALIGN) /\ \A b \in Aligns : b < a => b < n
  <2>1. CASE n <= 1
    BY <2>1 DEF Aligns, ALIGN
  <2>2. CASE n = 2
    BY <2>2 DEF Aligns, ALIGN
  <2>3. CASE n \in 3 .. 4
    BY <2>3 DEF Aligns, ALIGN
  <2>4. CASE n \in 5 .. 8
    BY <2>4 DEF Aligns, ALIGN
  <2>5. CASE n > 8
    BY <2>5 DEF Aligns, ALIGN
  <2> QED
    BY <2>1, <2>2, <2>3, <2>4, <2>5
<1> QED
  BY <1>1 DEF AlignFor

\* A multiple of the page size has every alignment of a block.
LEMMA PageAligned ==
  ASSUME NEW a \in Aligns, NEW u \in Int, u % PAGE_SIZE = 0
  PROVE  a \in Nat \ {0} /\ a <= 16 /\ u % a = 0
<1>1. a \in Nat \ {0} /\ a <= 16 /\ 16 % a = 0
  BY DEF Aligns
<1>2. PAGE_SIZE \in Nat \ {0} /\ PAGE_SIZE \in Int /\ 16 \in Nat \ {0} /\ PAGE_SIZE % 16 = 0
  BY Constants
<1>3. PAGE_SIZE % a = 0
  BY <1>1, <1>2, Divides
<1> QED
  BY <1>1, <1>2, <1>3, Divides, Zenon

\* Where the next block starts in an area that ends with a page.
LEMMA NextBlock ==
  ASSUME NEW c \in Nat, NEW e \in Nat, c <= e, e < Longs, e % PAGE_SIZE = 0, NEW a \in Aligns
  PROVE  LET at == RoundUp(c, a)
         IN  at \in Nat /\ c <= at /\ at <= e /\ at % a = 0 /\ Sub(e, at) = e - at
<1>1. a \in Nat \ {0} /\ e % a = 0 /\ Longs \in Nat \ {0}
  BY PageAligned, Constants
<1>2. RoundUp(c, a) \in Nat /\ RoundUp(c, a) % a = 0 /\ c <= RoundUp(c, a) /\ RoundUp(c, a) <= e
  BY <1>1, RoundUpOf
<1>3. e - RoundUp(c, a) \in Nat /\ e - RoundUp(c, a) < Longs
  BY <1>1, <1>2
<1>4. Sub(e, RoundUp(c, a)) = e - RoundUp(c, a)
  BY <1>1, <1>3, ModSmall DEF Sub
<1> QED
  BY <1>2, <1>4

\* The area that is mapped for n bytes: whole pages, n bytes or more; and no
\* more than 64 pages when it becomes the current one.
LEMMA AreaSizes ==
  ASSUME NEW n \in 1 .. Ints, NEW left \in Nat, mmap_step \in 0 .. 12
  PROVE  LET size == AreaSize(n, left)
         IN  /\ size \in Nat /\ size % PAGE_SIZE = 0 /\ n <= size
             /\ PagesFor(size) \in Nat \ {0} /\ PagesFor(size) * PAGE_SIZE = size
             /\ NewArea(n, left) => size <= 64 * PAGE_SIZE
<1> DEFINE up == RoundUp(n, PAGE_SIZE)
           area == AreaPages[mmap_step + 1]
<1>1. area \in 1 .. 64
  BY DEF AreaPages
<1>2. up \in Nat /\ up % PAGE_SIZE = 0 /\ n <= up /\ up < n + PAGE_SIZE
  <2>1. /\ n \in Nat /\ n <= Ints /\ Ints \in Nat /\ Ints % PAGE_SIZE = 0 /\ Ints < Longs
        /\ PAGE_SIZE \in Nat \ {0} /\ Longs \in Nat
    BY Constants
  <2> QED
    BY <2>1, RoundUpOf, Zenon
<1>3. NewArea(n, left) => up - n > up \div 8
  BY DEF NewArea
<1>4. Least(n, left) => up < area * PAGE_SIZE
  BY DEF Least
<1>5. AreaSize(n, left) = IF Least(n, left) THEN area * PAGE_SIZE ELSE up
  BY DEF AreaSize
<1> HIDE DEF up, area
<1>6. /\ area * PAGE_SIZE \in Nat /\ (area * PAGE_SIZE) % PAGE_SIZE = 0
      /\ area * PAGE_SIZE <= 64 * PAGE_SIZE
  BY <1>1, Constants, MultipleOf, Order
<1>7. NewArea(n, left) => up <= 64 * PAGE_SIZE
  <2>1. up <= 8 * (up \div 8) + 7 /\ up \div 8 \in Int
    BY <1>2
  <2> QED
    BY <1>2, <1>3, <2>1, Constants
<1> DEFINE size == AreaSize(n, left)
<1>8. /\ size \in Nat /\ size % PAGE_SIZE = 0 /\ n <= size
      /\ NewArea(n, left) => size <= 64 * PAGE_SIZE
  BY <1>2, <1>4, <1>5, <1>6, <1>7
<1> HIDE DEF size
<1>9. PagesFor(size) * PAGE_SIZE = size /\ PagesFor(size) \in Int
  BY <1>8, Constants, DivMod DEF PagesFor
<1>10. PagesFor(size) > 0
  BY <1>8, <1>9, Constants
<1> QED
  BY <1>8, <1>9, <1>10 DEF size

------------------------------------------------------------------------------
(* The inductive invariant *)

Spans == [start : Heap, pages : Nat \ {0}]
Ordered(s, t) == s.start + s.pages <= t.start \/ t.start + t.pages <= s.start

\* The kernel: spans are disjoint and no page of them is free.  Nothing is
\* ever freed, so below a page that is in use the heap is in use.
KernelOK ==
  /\ free \subseteq Heap
  /\ held \subseteq Spans
  /\ \A s \in held : Kernel!Pages(s) \subseteq Heap \ free
  /\ \A s, t \in held : s # t => Ordered(s, t)
  /\ \A p \in Heap : p \notin free /\ p - 1 \in Heap => p - 1 \notin free

\* The span s is no frame buffer.
Own(s) == \A f \in buffers : f.at # s.start * PAGE_SIZE

StaticsOK ==
  /\ brk \in 0 .. Longs - 1 /\ brk % PAGE_SIZE = 0
  /\ cur \in Nat /\ end \in 0 .. Longs - 1 /\ cur <= end /\ end % PAGE_SIZE = 0
  /\ mmap_step \in 0 .. 12
  /\ calls \in Nat /\ refused \in BOOLEAN

\* What is left of the current area is nothing, or the end of a span whose
\* blocks are all below cur, or in the pages that no span has.
AreaOK ==
  \/ cur = end
  \/ refused = TRUE /\ end <= 64 * PAGE_SIZE
  \/ \E s \in held : /\ Own(s) /\ s.start * PAGE_SIZE <= cur
                     /\ end = (s.start + s.pages) * PAGE_SIZE
                     /\ \A b \in blocks : Inside(b, s) => b.at + b.size <= cur

\* A block is in a span that is no frame buffer.
BlockOK(b) ==
  /\ b \in Block /\ b.size > 0 /\ b.call < calls
  /\ b.at % AlignFor(b.size) = 0
  /\ \/ \E s \in held : Own(s) /\ Inside(b, s)
     \/ refused = TRUE /\ b.at + b.size <= 64 * PAGE_SIZE

\* Blocks of one span do not overlap.
Packed == \A b, c \in blocks : b.call # c.call =>
            \A s \in held : Inside(b, s) /\ Inside(c, s) => Apart(b, c)

\* A block that a frame buffer reaches was returned later.
ReachedLater == \A f \in buffers : \A b \in blocks : ~Apart(b, f) => b.call > f.call

BufferOK(f) ==
  /\ f \in Block /\ f.call < calls
  /\ [start |-> f.at \div PAGE_SIZE, pages |-> PagesFor(f.size)] \in held
  /\ f.at = (f.at \div PAGE_SIZE) * PAGE_SIZE

UserHeapInv ==
  /\ KernelOK /\ StaticsOK /\ AreaOK /\ Packed /\ ReachedLater
  /\ \A b \in blocks : BlockOK(b)
  /\ \A f \in buffers : BufferOK(f)

------------------------------------------------------------------------------
(* Spans and bytes *)

\* The bytes of a span, above the first 64 pages and below Ints.
LEMMA SpanBytes ==
  ASSUME NEW s \in Spans, s.start + s.pages - 1 \in Heap
  PROVE  /\ s.start \in Nat /\ s.pages \in Nat \ {0}
         /\ s.start * PAGE_SIZE \in Nat \ {0} /\ (s.start + s.pages) * PAGE_SIZE \in Nat
         /\ 64 * PAGE_SIZE <= s.start * PAGE_SIZE
         /\ s.start * PAGE_SIZE + PAGE_SIZE <= (s.start + s.pages) * PAGE_SIZE
         /\ (s.start + s.pages) * PAGE_SIZE < Ints
<1>1. s.start \in Heap /\ s.pages \in Nat \ {0}
  BY DEF Spans
<1>2. s.start \in Nat /\ 64 * PAGE_SIZE <= s.start * PAGE_SIZE /\ s.start * PAGE_SIZE \in Nat \ {0}
  BY <1>1, HeapPage
<1>3. (s.start + s.pages - 1 + 1) * PAGE_SIZE < Ints
  BY HeapPage
<1>4. s.start + s.pages - 1 + 1 = s.start + s.pages
  BY <1>1, <1>2
<1>5. (s.start + 1) * PAGE_SIZE <= (s.start + s.pages) * PAGE_SIZE
  BY <1>1, <1>2, Constants, Order
<1>6. (s.start + 1) * PAGE_SIZE = s.start * PAGE_SIZE + PAGE_SIZE
  BY <1>2, Constants
<1> QED
  BY <1>1, <1>2, <1>3, <1>4, <1>5, <1>6, Constants

\* Spans that are ordered by pages are ordered by bytes.
LEMMA ByteOrder ==
  ASSUME NEW s, NEW t, s.start \in Nat, s.pages \in Nat, t.start \in Nat, t.pages \in Nat, Ordered(s, t)
  PROVE  \/ (s.start + s.pages) * PAGE_SIZE <= t.start * PAGE_SIZE
         \/ (t.start + t.pages) * PAGE_SIZE <= s.start * PAGE_SIZE
<1>1. PAGE_SIZE \in Nat
  BY Constants
<1>2. CASE s.start + s.pages <= t.start
  BY <1>1, <1>2, Order
<1>3. CASE t.start + t.pages <= s.start
  BY <1>1, <1>3, Order
<1> QED
  BY <1>2, <1>3 DEF Ordered

\* A block is not in two spans.
LEMMA OneHome ==
  ASSUME NEW s \in Spans, NEW t \in Spans, Ordered(s, t),
         s.start + s.pages - 1 \in Heap, t.start + t.pages - 1 \in Heap,
         NEW b, b.at \in Nat, b.size \in Nat \ {0}, Inside(b, s)
  PROVE  ~Inside(b, t)
BY SpanBytes, ByteOrder DEF Inside

\* A request of k pages: the kernel either has no room, or serves a span that
\* is apart from all the others, with nothing in use right behind it.
LEMMA SpanServed ==
  ASSUME KernelOK, NEW k \in Nat \ {0}, Kernel!Serve(k)
  PROVE  /\ KernelOK'
         /\ \/ answer' = NULL /\ held' = held
            \/ /\ answer' \in Heap
               /\ held' = held \cup {[start |-> answer', pages |-> k]}
               /\ answer' + k - 1 \in Heap
               /\ \A s \in held : /\ Ordered(s, [start |-> answer', pages |-> k])
                                  /\ s.start # answer' + k
<1>1. CASE answer' = NULL
  <2>1. UNCHANGED <<free, held>>
    BY <1>1, Constants DEF Kernel!Serve
  <2> QED
    BY <1>1, <2>1 DEF KernelOK
<1>2. CASE answer' # NULL
  <2> DEFINE p == answer'
             new == [start |-> p, pages |-> k]
  <2>1. /\ p \in Heap /\ p .. p + k - 1 \subseteq free
        /\ \A q \in Heap : q .. q + k - 1 \subseteq free => p <= q
        /\ held' = held \cup {new} /\ free' = free \ (p .. p + k - 1)
    BY <1>2 DEF Kernel!Serve, Kernel!Fits
  <2>2. p \in Nat /\ p \in p .. p + k - 1 /\ p + k - 1 \in p .. p + k - 1
    <3>1. p \in Nat
      BY <2>1, Constants
    <3> HIDE DEF p
    <3> QED
      BY <3>1
  <2>3. free \subseteq Heap /\ p + k - 1 \in Heap
    BY <2>1, <2>2, Zenon DEF KernelOK
  <2> HIDE DEF p
  <2>4. new \in Spans /\ new.start = p /\ new.pages = k
    BY <2>1 DEF Spans
  <2>5. ASSUME NEW s \in held
        PROVE  Ordered(s, new) /\ s.start # p + k
    <3>1. /\ s.start \in Nat /\ s.pages \in Nat \ {0}
          /\ \A q \in s.start .. s.start + s.pages - 1 : q \in Heap /\ q \notin free
      BY Constants, Zenon DEF KernelOK, Spans, Kernel!Pages
    <3>2. Ordered(s, new)
      <4> SUFFICES ASSUME s.start + s.pages > p, p + k > s.start PROVE FALSE
        BY <2>2, <2>4, <3>1 DEF Ordered
      <4>1. CASE s.start <= p
        BY <2>1, <2>2, <3>1, <4>1
      <4>2. CASE p < s.start
        <5>1. s.start \in p .. p + k - 1
          BY <2>2, <3>1, <4>2
        <5> QED
          BY <2>1, <3>1, <5>1
      <4> QED
        BY <2>2, <3>1, <4>1, <4>2
    <3>3. s.start # p + k
      <4> SUFFICES ASSUME s.start = p + k PROVE FALSE
        OBVIOUS
      <4>1. s.start \in Heap /\ s.start \notin free /\ s.start - 1 = p + k - 1
        BY <2>2, <3>1
      <4>2. p + k - 1 \in free
        BY <2>1, <2>2
      <4> QED
        BY <2>3, <4>1, <4>2 DEF KernelOK
    <3> QED
      BY <3>2, <3>3
  <2>6. free' \subseteq Heap /\ held' \subseteq Spans
    BY <2>1, <2>3, <2>4 DEF KernelOK
  <2>7. \A s \in held' : Kernel!Pages(s) \subseteq Heap \ free'
    <3>1. Kernel!Pages(new) = p .. p + k - 1
      BY <2>4 DEF Kernel!Pages
    <3>2. Kernel!Pages(new) \subseteq Heap \ free'
      BY <2>1, <2>3, <3>1
    <3> QED
      BY <2>1, <3>2 DEF KernelOK
  <2>8. \A s, t \in held' : s # t => Ordered(s, t)
    <3>1. \A s \in held : Ordered(s, new) /\ Ordered(new, s)
      BY <2>5 DEF Ordered
    <3> QED
      BY <2>1, <3>1 DEF KernelOK
  <2>9. ASSUME NEW q \in Heap, q \notin free', q - 1 \in Heap
        PROVE  q - 1 \notin free'
    <3>1. q \in Nat
      BY Constants
    <3>2. CASE q \notin free
      BY <2>1, <2>9, <3>2 DEF KernelOK
    <3>3. CASE q \in p .. p + k - 1 /\ q # p
      BY <2>1, <2>2, <3>1, <3>3
    <3>4. CASE q = p
      <4> SUFFICES ASSUME q - 1 \in free PROVE FALSE
        BY <2>1
      <4>1. \A j \in (q - 1) .. (q - 1) + k - 1 : j = q - 1 \/ j \in p .. p + k - 1
        BY <2>2, <3>4
      <4>2. (q - 1) .. (q - 1) + k - 1 \subseteq free
        BY <2>1, <4>1
      <4>3. p <= q - 1
        BY <2>1, <2>9, <4>2
      <4> QED
        BY <2>2, <3>4, <4>3
    <3> QED
      BY <2>1, <2>9, <3>2, <3>3, <3>4
  <2>10. KernelOK'
    BY <2>6, <2>7, <2>8, <2>9 DEF KernelOK
  <2> QED
    BY <2>1, <2>3, <2>5, <2>10 DEF p
<1> QED
  BY <1>1, <1>2

\* What the kernel leaves for the caller of mmap.
LEMMA Mmapped ==
  ASSUME UserHeapInv, NEW length \in Nat, PagesFor(length) \in Nat \ {0}, SysMmap(length)
  PROVE  LET new == [start |-> answer', pages |-> PagesFor(length)] IN
         /\ KernelOK' /\ refused' \in BOOLEAN /\ (refused = TRUE => refused' = TRUE)
         /\ held \subseteq held'
         /\ \/ answer' = NULL /\ Address(answer') = 0 /\ held' = held /\ refused' = TRUE
            \/ /\ answer' # NULL /\ Address(answer') = answer' * PAGE_SIZE
               /\ new \in held' /\ new \in Spans /\ new.start + new.pages - 1 \in Heap
               /\ held' = held \cup {new}
               /\ \A s \in held : Ordered(s, new) /\ s.start # new.start + new.pages
<1> DEFINE k == PagesFor(length)
           new == [start |-> answer', pages |-> k]
<1>1. KernelOK /\ refused \in BOOLEAN
  BY DEF UserHeapInv, StaticsOK
<1>2. Kernel!Serve(k) /\ refused' = (refused \/ answer' = NULL)
  BY DEF SysMmap
<1> HIDE DEF k
<1>3. k \in Nat \ {0}
  BY DEF k
<1>4. /\ KernelOK'
      /\ \/ answer' = NULL /\ held' = held
         \/ /\ answer' \in Heap
            /\ held' = held \cup {new}
            /\ answer' + k - 1 \in Heap
            /\ \A s \in held : Ordered(s, new) /\ s.start # answer' + k
  BY <1>1, <1>2, <1>3, SpanServed
<1>5. refused' \in BOOLEAN /\ (refused = TRUE => refused' = TRUE) /\ (answer' = NULL => refused' = TRUE)
  BY <1>1, <1>2, Zenon
<1>6. CASE answer' = NULL
  <2>1. held' = held
    BY <1>4, <1>6, Constants
  <2> QED
    BY <1>4, <1>5, <1>6, <2>1 DEF Address
<1>7. CASE answer' # NULL
  <2>1. new \in Spans /\ new.start = answer' /\ new.pages = k
    BY <1>3, <1>4, <1>7 DEF Spans
  <2> QED
    BY <1>4, <1>5, <1>7, <2>1 DEF Address, k
<1> QED
  BY <1>6, <1>7, Zenon

\* A span of the kernel, with its bytes and its order to the others.
LEMMA HeldSpan ==
  ASSUME KernelOK, NEW s \in held
  PROVE  /\ s \in Spans /\ s.start + s.pages - 1 \in Heap
         /\ \A t \in held : t # s => Ordered(s, t)
<1>1. s \in Spans /\ s.start \in Nat /\ s.pages \in Nat \ {0}
  BY Constants, Zenon DEF KernelOK, Spans
<1>2. s.start + s.pages - 1 \in Kernel!Pages(s)
  BY <1>1 DEF Kernel!Pages
<1> QED
  BY <1>1, <1>2 DEF KernelOK

\* A block b in the span s, and a frame buffer f in the span t.
LEMMA BesideBuffer ==
  ASSUME NEW s \in Spans, NEW t \in Spans, Ordered(s, t),
         s.start + s.pages - 1 \in Heap, t.start + t.pages - 1 \in Heap,
         NEW b, b.at \in Nat, b.size \in Nat \ {0}, Inside(b, s),
         NEW f, f.at = t.start * PAGE_SIZE, f.size \in Nat, t.pages = PagesFor(f.size)
  PROVE  /\ f.at + f.size < (t.start + t.pages) * PAGE_SIZE + PAGE_SIZE
         /\ f.at + t.pages * PAGE_SIZE = (t.start + t.pages) * PAGE_SIZE
         /\ b.at + b.size <= f.at \/ (t.start + t.pages) * PAGE_SIZE <= b.at
<1>1. /\ t.start \in Nat /\ t.pages \in Nat \ {0} /\ s.start \in Nat /\ s.pages \in Nat \ {0}
      /\ PAGE_SIZE \in Nat \ {0}
  BY SpanBytes, Constants
<1>2. (t.start + t.pages) * PAGE_SIZE = t.start * PAGE_SIZE + t.pages * PAGE_SIZE
  BY <1>1, Distribute
<1>3. f.size = t.pages * PAGE_SIZE + (f.size % PAGE_SIZE) /\ f.size % PAGE_SIZE \in 0 .. PAGE_SIZE - 1
  <2>1. f.size \in Int /\ t.pages = f.size \div PAGE_SIZE
    BY DEF PagesFor
  <2> QED
    BY <1>1, <2>1, DivMod, Zenon
<1>4. \/ (s.start + s.pages) * PAGE_SIZE <= t.start * PAGE_SIZE
      \/ (t.start + t.pages) * PAGE_SIZE <= s.start * PAGE_SIZE
  BY <1>1, ByteOrder
<1>5. /\ t.start * PAGE_SIZE \in Nat /\ (t.start + t.pages) * PAGE_SIZE \in Nat
      /\ s.start * PAGE_SIZE \in Nat /\ (s.start + s.pages) * PAGE_SIZE \in Nat
      /\ t.pages * PAGE_SIZE \in Nat
  BY <1>1
<1>6. s.start * PAGE_SIZE <= b.at /\ b.at + b.size <= (s.start + s.pages) * PAGE_SIZE
  BY DEF Inside
<1> QED
  BY <1>1, <1>2, <1>3, <1>4, <1>5, <1>6

------------------------------------------------------------------------------
(* Steps *)

\* Blocks and buffers of before stay what they are.
LEMMA OldBlock ==
  ASSUME held \subseteq held', refused = TRUE => refused' = TRUE, calls \in Nat, calls' = calls + 1,
         \A s \in held : Own(s) => Own(s)', NEW b \in blocks, BlockOK(b)
  PROVE  BlockOK(b)'
<1>1. b.call \in Nat /\ b.call < calls'
  BY Constants DEF BlockOK, Block
<1> QED
  BY <1>1 DEF BlockOK, Inside

\* The same for frame buffers.
LEMMA OldBuffer ==
  ASSUME held \subseteq held', calls \in Nat, calls' = calls + 1, NEW f \in buffers, BufferOK(f)
  PROVE  BufferOK(f)'
<1>1. f.call \in Nat /\ f.call < calls'
  BY Constants DEF BufferOK, Block
<1> QED
  BY <1>1 DEF BufferOK

\* What there is of a block.
LEMMA BlockFacts ==
  ASSUME KernelOK, NEW b, BlockOK(b)
  PROVE  /\ b.at \in Nat \ {0} /\ b.size \in Nat \ {0} /\ b.call \in Nat /\ b.call < calls
         /\ \/ \E s \in held : Own(s) /\ Inside(b, s)
            \/ refused = TRUE /\ b.at + b.size <= 64 * PAGE_SIZE /\ \A s \in held : ~Inside(b, s)
<1>1. b.at \in Nat \ {0} /\ b.size \in Nat \ {0} /\ b.call \in Nat /\ b.call < calls
  BY Constants DEF BlockOK, Block
<1>2. ASSUME b.at + b.size <= 64 * PAGE_SIZE, NEW s \in held PROVE ~Inside(b, s)
  <2>1. s.start * PAGE_SIZE \in Nat /\ 64 * PAGE_SIZE <= s.start * PAGE_SIZE /\ 64 * PAGE_SIZE \in Nat
    BY HeldSpan, SpanBytes, Constants
  <2> QED
    BY <1>1, <1>2, <2>1 DEF Inside
<1> QED
  BY <1>1, <1>2 DEF BlockOK

\* A block of before is in no span that is new.
LEMMA NotInNew ==
  ASSUME KernelOK, NEW b, BlockOK(b), NEW new \in Spans, new.start + new.pages - 1 \in Heap,
         \A s \in held : Ordered(s, new)
  PROVE  ~Inside(b, new)
<1>1. b.at \in Nat \ {0} /\ b.size \in Nat \ {0}
  BY BlockFacts, Zenon
<1>2. CASE \E s \in held : Inside(b, s)
  <2>1. PICK s \in held : Inside(b, s)
    BY <1>2
  <2>2. s \in Spans /\ s.start + s.pages - 1 \in Heap
    BY HeldSpan
  <2> QED
    BY <1>1, <2>1, <2>2, OneHome
<1>3. CASE b.at + b.size <= 64 * PAGE_SIZE
  <2>1. new.start * PAGE_SIZE \in Nat /\ 64 * PAGE_SIZE <= new.start * PAGE_SIZE /\ 64 * PAGE_SIZE \in Nat
    BY SpanBytes, Constants
  <2> QED
    BY <1>1, <1>3, <2>1 DEF Inside
<1> QED
  BY <1>2, <1>3, BlockFacts, Zenon

\* A frame buffer's span.
LEMMA BufferSpan ==
  ASSUME KernelOK, NEW f, BufferOK(f)
  PROVE  LET t == [start |-> f.at \div PAGE_SIZE, pages |-> PagesFor(f.size)]
         IN  /\ t \in held /\ t \in Spans /\ t.start + t.pages - 1 \in Heap
             /\ f.at = t.start * PAGE_SIZE /\ t.pages = PagesFor(f.size)
             /\ f.size \in Nat /\ f.at \in Nat \ {0} /\ f.call \in Nat /\ f.call < calls
             /\ \A s \in held : f.at # s.start * PAGE_SIZE => Ordered(s, t)
<1> DEFINE t == [start |-> f.at \div PAGE_SIZE, pages |-> PagesFor(f.size)]
<1>1. t \in held /\ f.at = (f.at \div PAGE_SIZE) * PAGE_SIZE /\ f \in Block /\ f.call < calls
  BY DEF BufferOK
<1>2. t \in Spans /\ t.start + t.pages - 1 \in Heap /\ \A s \in held : s # t => Ordered(t, s)
  BY <1>1, HeldSpan
<1>3. f.at = t.start * PAGE_SIZE /\ t.pages = PagesFor(f.size)
  BY <1>1
<1>4. f.size \in Nat /\ f.at \in Nat \ {0} /\ f.call \in Nat
  BY <1>1, Constants DEF Block
<1> HIDE DEF t
<1>5. \A s \in held : f.at # s.start * PAGE_SIZE => Ordered(s, t)
  BY <1>2, <1>3, Zenon DEF Ordered
<1> QED
  BY <1>1, <1>2, <1>3, <1>4, <1>5 DEF t

\* A block and a frame buffer: the block is apart, or right behind the pages
\* of the buffer.
LEMMA BlockAndBuffer ==
  ASSUME KernelOK, NEW f \in buffers, BufferOK(f), NEW b, BlockOK(b)
  PROVE  /\ b.at + b.size <= f.at \/ f.at + PagesFor(f.size) * PAGE_SIZE <= b.at
         /\ f.at + f.size < f.at + PagesFor(f.size) * PAGE_SIZE + PAGE_SIZE
         /\ PagesFor(f.size) * PAGE_SIZE \in Nat
<1> DEFINE t == [start |-> f.at \div PAGE_SIZE, pages |-> PagesFor(f.size)]
<1>1. /\ t \in held /\ t \in Spans /\ t.start + t.pages - 1 \in Heap
      /\ f.at = t.start * PAGE_SIZE /\ t.pages = PagesFor(f.size)
      /\ f.size \in Nat /\ f.at \in Nat \ {0}
      /\ \A s \in held : f.at # s.start * PAGE_SIZE => Ordered(s, t)
  BY BufferSpan, Zenon
<1>2. /\ b.at \in Nat \ {0} /\ b.size \in Nat \ {0}
      /\ \/ \E s \in held : Own(s) /\ Inside(b, s)
         \/ b.at + b.size <= 64 * PAGE_SIZE
  BY BlockFacts, Zenon
<1> HIDE DEF t
<1>3. CASE \E s \in held : Own(s) /\ Inside(b, s)
  <2>1. PICK s \in held : Own(s) /\ Inside(b, s)
    BY <1>3
  <2>2. s \in Spans /\ s.start + s.pages - 1 \in Heap /\ Ordered(s, t)
    BY <1>1, <2>1, HeldSpan, Zenon DEF Own
  <2>3. /\ f.at + f.size < (t.start + t.pages) * PAGE_SIZE + PAGE_SIZE
        /\ f.at + t.pages * PAGE_SIZE = (t.start + t.pages) * PAGE_SIZE
        /\ b.at + b.size <= f.at \/ (t.start + t.pages) * PAGE_SIZE <= b.at
    BY <1>1, <1>2, <2>1, <2>2, BesideBuffer
  <2>4. t.pages \in Nat /\ t.pages * PAGE_SIZE \in Nat
    BY <1>1, Constants DEF Spans
  <2> QED
    BY <1>1, <2>3, <2>4
<1>4. CASE b.at + b.size <= 64 * PAGE_SIZE
  <2>1. 64 * PAGE_SIZE <= f.at /\ 64 * PAGE_SIZE \in Nat /\ t.pages \in Nat /\ t.pages * PAGE_SIZE \in Nat
    BY <1>1, SpanBytes, Constants DEF Spans
  <2>2. f.size \in Int /\ t.pages = f.size \div PAGE_SIZE /\ PAGE_SIZE \in Nat \ {0}
    BY <1>1, Constants DEF PagesFor
  <2>3. f.size < t.pages * PAGE_SIZE + PAGE_SIZE
    <3>1. /\ f.size = (f.size \div PAGE_SIZE) * PAGE_SIZE + (f.size % PAGE_SIZE)
          /\ f.size % PAGE_SIZE \in 0 .. PAGE_SIZE - 1
      BY <2>2, DivMod, Zenon
    <3> QED
      BY <2>1, <2>2, <3>1
  <2> QED
    BY <1>1, <1>2, <1>4, <2>1, <2>2, <2>3
<1> QED
  BY <1>2, <1>3, <1>4

\* A block from the current area.
LEMMA BumpInv ==
  ASSUME UserHeapInv, calls < MaxCalls, calls' = calls + 1, buffers' = buffers,
         NEW n \in 1 .. Ints, NEW at \in Nat, cur <= at, at <= end, at % AlignFor(n) = 0,
         Sub(end, at) = end - at, Bump(n, at)
  PROVE  UserHeapInv'
<1>1. /\ KernelOK /\ StaticsOK /\ AreaOK /\ Packed /\ ReachedLater
      /\ \A b \in blocks : BlockOK(b)
      /\ \A f \in buffers : BufferOK(f)
  BY DEF UserHeapInv
<1>2. /\ cur \in Nat /\ end \in Nat /\ end < Longs /\ calls \in Nat /\ n \in Nat /\ n > 0
  BY <1>1, Constants DEF StaticsOK
<1>3. /\ at + n <= end /\ cur' = at + n /\ Record(at, n)
      /\ UNCHANGED <<brk, end, mmap_step, free, held, answer, refused>>
  BY <1>2 DEF Bump, kernel
<1>0. PICK b0 : b0 = [call |-> calls, at |-> at, size |-> n]
  BY Zenon
<1>4. /\ b0.call = calls /\ b0.at = at /\ b0.size = n
      /\ blocks' = blocks \/ (at # 0 /\ blocks' = blocks \cup {b0})
  BY <1>0, <1>3 DEF Record
<1>5. at # 0 => b0 \in Block
  BY <1>0, <1>2, Constants DEF Block
<1>6. KernelOK' /\ StaticsOK'
  BY <1>1, <1>2, <1>3 DEF KernelOK, StaticsOK
<1>7. \A s \in held : Own(s)' <=> Own(s)
  BY DEF Own
<1>8. \A b, s : Inside(b, s)' <=> Inside(b, s)
  BY DEF Inside
<1>9. \A b \in blocks : BlockOK(b)'
  BY <1>1, <1>2, <1>3, <1>7, OldBlock, Zenon
<1>10. \A f \in buffers : BufferOK(f)'
  BY <1>1, <1>2, <1>3, OldBuffer
<1>11. \A f \in buffers : b0.call > f.call
  BY <1>1, <1>2, <1>4, BufferSpan, Zenon
<1>12. ReachedLater'
  BY <1>1, <1>4, <1>11, Zenon DEF ReachedLater, Apart
<1>13. \/ refused = TRUE /\ end <= 64 * PAGE_SIZE
       \/ \E s \in held : /\ Own(s) /\ s.start * PAGE_SIZE <= cur
                          /\ end = (s.start + s.pages) * PAGE_SIZE
                          /\ \A b \in blocks : Inside(b, s) => b.at + b.size <= cur
  BY <1>1, <1>2, <1>3 DEF AreaOK
<1>14. CASE refused = TRUE /\ end <= 64 * PAGE_SIZE
  <2>1. AreaOK'
    BY <1>3, <1>14, Zenon DEF AreaOK
  <2>2. at # 0 => BlockOK(b0)'
    BY <1>2, <1>3, <1>4, <1>5, <1>14, Constants DEF BlockOK
  <2>3. \A s \in held : ~Inside(b0, s)
    <3> SUFFICES ASSUME NEW s \in held PROVE ~Inside(b0, s)
      BY Zenon
    <3>1. s.start * PAGE_SIZE \in Nat /\ 64 * PAGE_SIZE <= s.start * PAGE_SIZE /\ 64 * PAGE_SIZE \in Nat
      BY <1>1, HeldSpan, SpanBytes, Constants
    <3> QED
      BY <1>2, <1>3, <1>4, <1>14, <3>1 DEF Inside
  <2>4. Packed'
    BY <1>1, <1>3, <1>4, <1>8, <2>3, Zenon DEF Packed, Apart
  <2> QED
    BY <1>4, <1>6, <1>9, <1>10, <1>12, <2>1, <2>2, <2>4, Zenon DEF UserHeapInv
<1>15. ASSUME NEW s \in held, Own(s), s.start * PAGE_SIZE <= cur,
              end = (s.start + s.pages) * PAGE_SIZE,
              \A b \in blocks : Inside(b, s) => b.at + b.size <= cur
       PROVE  UserHeapInv'
  <2>1. /\ s \in Spans /\ s.start + s.pages - 1 \in Heap
        /\ \A t \in held : t # s => Ordered(s, t)
        /\ s.start * PAGE_SIZE \in Nat \ {0}
    BY <1>1, HeldSpan, SpanBytes, Zenon
  <2>2. at # 0 /\ blocks' \subseteq blocks \cup {b0} /\ b0.at \in Nat /\ b0.size \in Nat \ {0}
    BY <1>2, <1>4, <1>15, <2>1
  <2>3. Inside(b0, s)
    BY <1>2, <1>3, <1>4, <1>15, <2>1 DEF Inside
  <2>4. \A t \in held : Inside(b0, t) => t = s
    <3> SUFFICES ASSUME NEW t \in held, t # s PROVE ~Inside(b0, t)
      OBVIOUS
    <3>1. t \in Spans /\ t.start + t.pages - 1 \in Heap /\ Ordered(s, t)
      BY <1>1, <2>1, HeldSpan, Zenon
    <3> QED
      BY <2>1, <2>2, <2>3, <3>1, OneHome
  <2>5. BlockOK(b0)'
    BY <1>2, <1>3, <1>4, <1>5, <1>7, <1>8, <1>15, <2>2, <2>3, Constants DEF BlockOK
  <2>6. \A b \in blocks : b.at \in Nat /\ b.size \in Nat
    BY <1>1, BlockFacts, Zenon
  <2>7. \A b \in blocks : Inside(b, s) => b.at + b.size <= b0.at
    BY <1>2, <1>4, <1>15, <2>6
  <2>8. Packed'
    <3> SUFFICES ASSUME NEW b \in blocks', NEW c \in blocks', b.call # c.call, NEW t \in held',
                        Inside(b, t), Inside(c, t)
                 PROVE  Apart(b, c)
      BY <1>8, Zenon DEF Packed, Apart
    <3>1. CASE b \in blocks /\ c \in blocks
      BY <1>1, <1>3, <3>1, Zenon DEF Packed
    <3>2. CASE b = b0 /\ c \in blocks
      BY <1>3, <2>4, <2>7, <3>2, Zenon DEF Apart
    <3>3. CASE c = b0 /\ b \in blocks
      BY <1>3, <2>4, <2>7, <3>3, Zenon DEF Apart
    <3> QED
      BY <2>2, <3>1, <3>2, <3>3, Zenon
  <2>9. \A b \in blocks' : Inside(b, s) => b.at + b.size <= cur'
    BY <1>2, <1>3, <1>4, <1>15, <2>2, <2>6
  <2>10. AreaOK'
    BY <1>2, <1>3, <1>7, <1>8, <1>15, <2>1, <2>9 DEF AreaOK
  <2> QED
    BY <1>6, <1>9, <1>10, <1>12, <2>2, <2>5, <2>8, <2>10, Zenon DEF UserHeapInv
<1> QED
  BY <1>13, <1>14, <1>15, Zenon

\* Pages from mmap, for one block or for an area.
LEMMA GrowMapInv ==
  ASSUME UserHeapInv, calls < MaxCalls, calls' = calls + 1, buffers' = buffers,
         NEW n \in 1 .. Ints, NEW b \in 0 .. Longs - 1, b % PAGE_SIZE = 0,
         NEW from \in Nat, NEW to \in 0 .. Longs - 1, from <= to, to % PAGE_SIZE = 0,
         from = to \/ (cur <= from /\ to = end), GrowMap(n, b, from, to)
  PROVE  UserHeapInv'
<1>1. /\ KernelOK /\ StaticsOK /\ AreaOK /\ Packed /\ ReachedLater
      /\ \A c \in blocks : BlockOK(c)
      /\ \A f \in buffers : BufferOK(f)
  BY Zenon DEF UserHeapInv
<1>2. /\ cur \in Nat /\ end \in Nat /\ end < Longs /\ calls \in Nat /\ n \in Nat /\ n > 0
      /\ mmap_step \in 0 .. 12 /\ PAGE_SIZE \in Nat \ {0} /\ PAGE_SIZE >= 16
      /\ 64 * PAGE_SIZE < Longs /\ Ints < Longs /\ Longs \in Nat \ {0} /\ Ints \in Nat
      /\ NULL \notin Heap
  BY <1>1, Constants DEF StaticsOK
<1> DEFINE left == Sub(to, from)
           area == NewArea(n, left)
<1>3. left \in Nat
  BY <1>2, DivMod DEF Sub
<1>4. PICK size : size = AreaSize(n, left)
  BY Zenon
<1>5. /\ size \in Nat /\ size % PAGE_SIZE = 0 /\ n <= size
      /\ PagesFor(size) \in Nat \ {0} /\ PagesFor(size) * PAGE_SIZE = size
      /\ area => size <= 64 * PAGE_SIZE
  BY <1>2, <1>3, <1>4, AreaSizes, Zenon
<1>6. /\ brk' = b /\ SysMmap(size)
      /\ mmap_step' = (IF Least(n, left) /\ mmap_step < 12 THEN mmap_step + 1 ELSE mmap_step)
      /\ area => cur' = Address(answer') + n /\ end' = Address(answer') + size
      /\ ~area => cur' = from /\ end' = to
      /\ Record(Address(answer'), n)
  BY <1>4 DEF GrowMap
<1> HIDE DEF left, area
<1>7. PICK new : new = [start |-> answer', pages |-> PagesFor(size)]
  BY Zenon
<1>8. /\ KernelOK' /\ refused' \in BOOLEAN /\ (refused = TRUE => refused' = TRUE)
      /\ held \subseteq held'
      /\ \/ answer' = NULL /\ Address(answer') = 0 /\ held' = held /\ refused' = TRUE
         \/ /\ answer' # NULL /\ Address(answer') = answer' * PAGE_SIZE
            /\ new \in held' /\ new \in Spans /\ new.start + new.pages - 1 \in Heap
            /\ held' = held \cup {new}
            /\ \A s \in held : Ordered(s, new) /\ s.start # new.start + new.pages
  BY <1>5, <1>6, <1>7, Mmapped, Zenon
<1>9. mmap_step' \in 0 .. 12
  BY <1>2, <1>6
<1>10. \A s : Own(s)' <=> Own(s)
  BY DEF Own
<1>11. \A c, s : Inside(c, s)' <=> Inside(c, s)
  BY DEF Inside
<1>12. \A c \in blocks : BlockOK(c)'
  BY <1>1, <1>2, <1>8, <1>10, OldBlock, Zenon
<1>13. \A f \in buffers : BufferOK(f)'
  BY <1>1, <1>2, <1>8, OldBuffer, Zenon
<1>14. CASE answer' = NULL
  <2>1. Address(answer') = 0 /\ held' = held /\ refused' = TRUE /\ blocks' = blocks
    BY <1>6, <1>8, <1>14, Zenon DEF Record
  <2>2. StaticsOK'
    BY <1>2, <1>5, <1>6, <1>8, <1>9, <2>1 DEF StaticsOK
  <2>3. AreaOK'
    <3>1. CASE area
      BY <1>2, <1>5, <1>6, <2>1, <3>1 DEF AreaOK
    <3>2. CASE ~area /\ from = to
      BY <1>6, <3>2, Zenon DEF AreaOK
    <3>3. CASE ~area /\ cur <= from /\ to = end /\ cur # end
      <4>1. \A c \in blocks : c.at \in Nat /\ c.size \in Nat
        BY <1>1, BlockFacts, Zenon
      <4>2. \A s \in held : s.start * PAGE_SIZE \in Nat
        BY <1>1, HeldSpan, SpanBytes, Zenon
      <4> QED
        BY <1>1, <1>2, <1>6, <1>10, <1>11, <2>1, <3>3, <4>1, <4>2 DEF AreaOK
    <3>4. cur = end /\ cur <= from /\ to = end => from = to
      BY <1>2
    <3> QED
      BY <3>1, <3>2, <3>3, <3>4, Zenon
  <2>4. Packed' /\ ReachedLater'
    BY <1>1, <1>11, <2>1, Zenon DEF Packed, ReachedLater, Apart
  <2> QED
    BY <1>8, <1>12, <1>13, <2>1, <2>2, <2>3, <2>4, Zenon DEF UserHeapInv
<1>15. CASE answer' # NULL
  <2>1. /\ Address(answer') = new.start * PAGE_SIZE /\ new.pages = PagesFor(size)
        /\ new \in held' /\ new \in Spans /\ new.start + new.pages - 1 \in Heap
        /\ held' = held \cup {new}
        /\ \A s \in held : Ordered(s, new)
    BY <1>7, <1>8, <1>15, Zenon
  <2>2. /\ new.start \in Nat /\ new.pages \in Nat \ {0} /\ new.start * PAGE_SIZE \in Nat \ {0}
        /\ (new.start + new.pages) * PAGE_SIZE < Ints
    BY <2>1, SpanBytes
  <2>3. PICK at : at = new.start * PAGE_SIZE
    BY Zenon
  <2>4. /\ at \in Nat \ {0} /\ at % PAGE_SIZE = 0
        /\ at + size = (new.start + new.pages) * PAGE_SIZE /\ at + size < Ints
        /\ (at + size) % PAGE_SIZE = 0
    <3>1. at + size = (new.start + new.pages) * PAGE_SIZE
      BY <1>2, <1>5, <2>1, <2>2, <2>3, Distribute
    <3>2. at % PAGE_SIZE = 0 /\ ((new.start + new.pages) * PAGE_SIZE) % PAGE_SIZE = 0
      <4>1. new.start \in Int /\ new.start + new.pages \in Int
        BY <2>2
      <4> QED
        BY <1>2, <2>3, <4>1, MultipleOf, Zenon
    <3> QED
      BY <2>2, <2>3, <3>1, <3>2, Zenon
  <2>5. PICK b0 : b0 = [call |-> calls, at |-> at, size |-> n]
    BY Zenon
  <2>6. b0.call = calls /\ b0.at = at /\ b0.size = n /\ blocks' = blocks \cup {b0}
    BY <1>6, <2>1, <2>2, <2>3, <2>5, Zenon DEF Record
  <2>7. b0 \in Block
    BY <1>2, <2>4, <2>5, Constants DEF Block
  <2>8. Inside(b0, new)
    BY <1>2, <1>5, <2>3, <2>4, <2>6 DEF Inside
  <2>9. at % AlignFor(n) = 0
    BY <1>2, <2>4, Aligned, PageAligned
  <2>10. Own(new)
    <3> SUFFICES ASSUME NEW f \in buffers, f.at = new.start * PAGE_SIZE PROVE FALSE
      BY DEF Own
    <3>1. PICK t \in held : t \in Spans /\ t.start + t.pages - 1 \in Heap /\ f.at = t.start * PAGE_SIZE
      BY <1>1, BufferSpan, Zenon
    <3>2. Ordered(t, new) /\ t.start \in Nat /\ t.pages \in Nat
      BY <2>1, <3>1, SpanBytes, Zenon
    <3>3. \/ (t.start + t.pages) * PAGE_SIZE <= new.start * PAGE_SIZE
          \/ (new.start + new.pages) * PAGE_SIZE <= t.start * PAGE_SIZE
      BY <2>2, <3>2, ByteOrder, Zenon
    <3>4. /\ t.start * PAGE_SIZE + PAGE_SIZE <= (t.start + t.pages) * PAGE_SIZE
          /\ new.start * PAGE_SIZE + PAGE_SIZE <= (new.start + new.pages) * PAGE_SIZE
          /\ t.start * PAGE_SIZE \in Nat /\ (t.start + t.pages) * PAGE_SIZE \in Nat
          /\ (new.start + new.pages) * PAGE_SIZE \in Nat
      BY <2>1, <3>1, SpanBytes, Zenon
    <3> QED
      BY <1>2, <2>2, <3>1, <3>3, <3>4
  <2>11. BlockOK(b0)'
    BY <1>2, <1>10, <1>11, <2>1, <2>6, <2>7, <2>8, <2>9, <2>10 DEF BlockOK
  <2>12. \A c \in blocks : ~Inside(c, new)
    BY <1>1, <2>1, NotInNew, Zenon
  <2>13. \A s \in held : ~Inside(b0, s)
    <3> SUFFICES ASSUME NEW s \in held PROVE ~Inside(b0, s)
      BY Zenon
    <3>1. s \in Spans /\ s.start + s.pages - 1 \in Heap /\ Ordered(new, s)
      BY <1>1, <2>1, HeldSpan, Zenon DEF Ordered
    <3> QED
      BY <1>2, <2>1, <2>4, <2>6, <2>8, <3>1, OneHome
  <2>14. Packed'
    <3> SUFFICES ASSUME NEW c \in blocks', NEW d \in blocks', c.call # d.call, NEW s \in held',
                        Inside(c, s), Inside(d, s)
                 PROVE  Apart(c, d)
      BY <1>11, Zenon DEF Packed, Apart
    <3> QED
      BY <1>1, <2>1, <2>6, <2>12, <2>13, Zenon DEF Packed
  <2>15. ReachedLater'
    <3>1. \A f \in buffers : b0.call > f.call
      BY <1>1, <1>2, <2>6, BufferSpan, Zenon
    <3> QED
      BY <1>1, <2>6, <3>1 DEF ReachedLater, Apart
  <2>16. StaticsOK'
    BY <1>2, <1>5, <1>6, <1>8, <1>9, <2>1, <2>3, <2>4 DEF StaticsOK
  <2>17. AreaOK'
    <3>1. CASE area
      <4>1. cur' = at + n /\ end' = at + size
        BY <1>6, <2>1, <2>3, <3>1, Zenon
      <4>2. \A c \in blocks' : Inside(c, new) => c.at + c.size <= cur'
        BY <1>2, <2>4, <2>6, <2>12, <4>1
      <4> QED
        BY <1>2, <1>10, <1>11, <2>1, <2>3, <2>4, <2>10, <4>1, <4>2 DEF AreaOK
    <3>2. CASE ~area /\ from = to
      BY <1>6, <3>2 DEF AreaOK
    <3>3. CASE ~area /\ cur <= from /\ to = end /\ cur # end
      <4>1. cur' = from /\ end' = end
        BY <1>6, <3>3, Zenon
      <4>2. CASE refused = TRUE /\ end <= 64 * PAGE_SIZE
        BY <1>8, <4>1, <4>2, Zenon DEF AreaOK
      <4>3. ASSUME NEW s \in held, Own(s), s.start * PAGE_SIZE <= cur,
                   end = (s.start + s.pages) * PAGE_SIZE,
                   \A c \in blocks : Inside(c, s) => c.at + c.size <= cur
            PROVE  AreaOK'
        <5>1. \A c \in blocks : c.at \in Nat /\ c.size \in Nat
          BY <1>1, BlockFacts, Zenon
        <5>2. s.start * PAGE_SIZE \in Nat
          BY <1>1, HeldSpan, SpanBytes, Zenon
        <5>3. \A c \in blocks' : Inside(c, s) => c.at + c.size <= cur'
          BY <1>2, <2>6, <2>13, <3>3, <4>1, <4>3, <5>1
        <5>4. s.start * PAGE_SIZE <= cur'
          BY <1>2, <3>3, <4>1, <4>3, <5>2
        <5> QED
          BY <1>8, <1>10, <1>11, <4>1, <4>3, <5>3, <5>4 DEF AreaOK
      <4> QED
        BY <1>1, <3>3, <4>2, <4>3, Zenon DEF AreaOK
    <3>4. cur = end /\ cur <= from /\ to = end => from = to
      BY <1>2
    <3> QED
      BY <3>1, <3>2, <3>3, <3>4
  <2> QED
    BY <1>8, <1>12, <1>13, <2>6, <2>11, <2>14, <2>15, <2>16, <2>17, Zenon DEF UserHeapInv
<1> QED
  BY <1>14, <1>15

\* brk never moves the break: what it answers is one below a multiple of the
\* page size, and the break that lite_malloc asks for is one.
LEMMA BrkFails ==
  ASSUME NEW r \in SysBrk, NEW b \in Nat, NEW req \in Nat, b % PAGE_SIZE = 0, req % PAGE_SIZE = 0
  PROVE  r # b + req
<1>1. r = Ints - 1 \/ r = Longs - 1
  <2>1. /\ Ints \in Nat \ {0} /\ Longs \in Nat \ {0} /\ Ints - 1 + (Longs - Ints) = Longs - 1
    BY Constants
  <2> QED
    BY <2>1 DEF SysBrk, Returned
<1>2. /\ PAGE_SIZE \in Nat \ {0} /\ PAGE_SIZE > 1 /\ Ints \in Int /\ Longs \in Int /\ b \in Int /\ req \in Int
      /\ Ints % PAGE_SIZE = 0 /\ Longs % PAGE_SIZE = 0
  BY Constants
<1>3. b + req \in Int /\ (b + req) % PAGE_SIZE = 0
  <2>1. (b + req) % PAGE_SIZE = 0
    BY <1>2, Multiples, Zenon
  <2> QED
    BY <1>2, <2>1
<1>4. r \in Int /\ r + 1 \in Int /\ (r + 1) % PAGE_SIZE = 0
  BY <1>1, <1>2
<1>5. b + req < r + 1 => b + req + PAGE_SIZE <= r + 1
  BY <1>2, <1>3, <1>4, Steps, Zenon
<1> QED
  BY <1>2, <1>3, <1>4, <1>5

\* The break that __simple_malloc reads.
LEMMA BreakRead ==
  ASSUME NEW r \in SysBrk
  PROVE  RoundUp(r, PAGE_SIZE) \in 0 .. Longs - 1 /\ RoundUp(r, PAGE_SIZE) % PAGE_SIZE = 0
<1>1. /\ Ints \in Nat \ {0} /\ Longs \in Nat \ {0} /\ PAGE_SIZE \in Nat \ {0} /\ PAGE_SIZE > 1
      /\ Ints % PAGE_SIZE = 0 /\ Longs % PAGE_SIZE = 0 /\ Ints < Longs
      /\ Ints - 1 + (Longs - Ints) = Longs - 1 /\ Ints + PAGE_SIZE <= Longs
  BY Constants
<1>2. r = Ints - 1 \/ r = Longs - 1
  BY <1>1 DEF SysBrk, Returned
<1>3. CASE r = Ints - 1
  <2>1. r \in Nat /\ r <= Ints
    BY <1>1, <1>3
  <2>2. RoundUp(r, PAGE_SIZE) \in Nat /\ RoundUp(r, PAGE_SIZE) % PAGE_SIZE = 0 /\ RoundUp(r, PAGE_SIZE) <= Ints
    BY <1>1, <2>1, RoundUpOf, Zenon
  <2> QED
    BY <1>1, <2>2
<1>4. CASE r = Longs - 1
  <2> DEFINE d == (-r) % PAGE_SIZE
  <2>1. r \in Int /\ r + 1 \in Int /\ (r + 1) % PAGE_SIZE = 0
    BY <1>1, <1>4
  <2>2. d \in 0 .. PAGE_SIZE - 1 /\ (r + d) % PAGE_SIZE = 0
    BY <1>1, <2>1, Rounding, Zenon
  <2> HIDE DEF d
  <2>3. r + d \in Int
    BY <2>1, <2>2
  <2>4. d = 1
    <3>1. r + d < r + 1 => r + d + PAGE_SIZE <= r + 1
      BY <1>1, <2>1, <2>2, <2>3, Steps
    <3>2. r + 1 < r + d => r + 1 + PAGE_SIZE <= r + d
      BY <1>1, <2>1, <2>2, <2>3, Steps, Zenon
    <3> QED
      BY <1>1, <2>1, <2>2, <3>1, <3>2
  <2>5. r + d = Longs
    BY <1>1, <1>4, <2>4
  <2>6. Longs % Longs = 0
    BY <1>1
  <2>7. RoundUp(r, PAGE_SIZE) = 0
    BY <2>5, <2>6, Zenon DEF RoundUp, d
  <2> QED
    BY <1>1, <2>7
<1> QED
  BY <1>2, <1>3, <1>4, Zenon

\* A new area, as malloc asks mmap for it.
Mapping(n) ==
  \E b, to \in 0 .. Longs - 1, from \in Nat :
    /\ b % PAGE_SIZE = 0 /\ from <= to /\ to % PAGE_SIZE = 0
    /\ from = to \/ (cur <= from /\ to = end)
    /\ GrowMap(n, b, from, to)

\* The current area or mmap serve a call of malloc, never brk.
LEMMA MallocServed ==
  ASSUME UserHeapInv, NEW n \in 1 .. Ints, NEW at \in Nat, cur <= at, at <= end,
         Sub(end, at) = end - at, simple_malloc(n, at)
  PROVE  Bump(n, at) \/ Mapping(n)
<1>1. StaticsOK
  BY Zenon DEF UserHeapInv
<1>2. /\ cur \in Nat /\ end \in 0 .. Longs - 1 /\ brk \in 0 .. Longs - 1 /\ brk % PAGE_SIZE = 0
      /\ end % PAGE_SIZE = 0 /\ n \in Nat /\ PAGE_SIZE \in Nat \ {0} /\ Longs \in Nat \ {0}
      /\ Ints \in Nat /\ Ints < Longs /\ Ints % PAGE_SIZE = 0
  BY <1>1, Constants DEF StaticsOK
<1>4. ASSUME NEW r \in SysBrk,
             Grow(n, at, RoundUp(Sub(n, Sub(end, at)), PAGE_SIZE),
                  IF at = 0 THEN RoundUp(r, PAGE_SIZE) ELSE brk)
      PROVE  Mapping(n)
  <2>1. PICK b : b = IF at = 0 THEN RoundUp(r, PAGE_SIZE) ELSE brk
    BY Zenon
  <2>2. b \in 0 .. Longs - 1 /\ b % PAGE_SIZE = 0
    BY <1>2, <2>1, BreakRead, Zenon
  <2>3. PICK req : req = RoundUp(Sub(n, Sub(end, at)), PAGE_SIZE)
    BY Zenon
  <2>4. Grow(n, at, req, b) /\ n > end - at
    BY <1>4, <2>1, <2>3 DEF Grow
  <2>5. req \in Nat /\ req % PAGE_SIZE = 0
    <3>1. n - (end - at) \in Nat /\ n - (end - at) <= Ints /\ n - (end - at) < Longs
      BY <1>2, <2>4
    <3>2. Sub(n, Sub(end, at)) = n - (end - at)
      BY <1>2, <3>1, ModSmall, Zenon DEF Sub
    <3>3. PICK u \in Nat : u = n - (end - at) /\ u <= Ints /\ u < Longs
      BY <3>1, Zenon
    <3>4. req = RoundUp(u, PAGE_SIZE)
      BY <2>3, <3>2, <3>3, Zenon
    <3> QED
      BY <1>2, <3>3, <3>4, RoundUpOf, Zenon
  <2>6. PICK from \in {IF at = 0 THEN b ELSE at}, to \in {IF at = 0 THEN b ELSE end}, q \in SysBrk :
          IF BrkMoves(b, to, req, q) THEN GrowBreak(n, from, to + req) ELSE GrowMap(n, b, from, to)
    BY <2>4 DEF Grow
  <2>7. ~BrkMoves(b, to, req, q)
    <3>1. b \in Nat
      BY <1>2, <2>2
    <3>2. q # b + req
      BY <2>2, <2>5, <2>6, <3>1, BrkFails, Zenon
    <3> QED
      BY <3>2, Zenon DEF BrkMoves
  <2>8. /\ from \in Nat /\ to \in 0 .. Longs - 1 /\ from <= to /\ to % PAGE_SIZE = 0
        /\ from = to \/ (cur <= from /\ to = end)
    BY <1>2, <2>2, <2>6
  <2> QED
    BY <2>2, <2>6, <2>7, <2>8, Zenon DEF Mapping
<1> QED
  BY <1>4, Zenon DEF simple_malloc

\* A call of malloc keeps the invariant.
LEMMA MallocInv ==
  ASSUME UserHeapInv, calls < MaxCalls, calls' = calls + 1, buffers' = buffers,
         NEW n \in 1 .. Ints, NEW at \in Nat, cur <= at, at <= end, at % AlignFor(n) = 0,
         Sub(end, at) = end - at, simple_malloc(n, at)
  PROVE  UserHeapInv'
<1>1. CASE Bump(n, at)
  BY <1>1, BumpInv, Zenon
<1>2. CASE Mapping(n)
  BY <1>2, GrowMapInv, Zenon DEF Mapping
<1> QED
  BY <1>1, <1>2, MallocServed, Zenon

\* mmap is asked for a page or more.
LEMMA FrameLength ==
  ASSUME NEW length \in Lengths
  PROVE  PagesFor(length) \in Nat \ {0}
<1>1. length \in Int /\ length >= PAGE_SIZE /\ PAGE_SIZE \in Nat \ {0}
  BY UserHeapAssumption
<1>2. /\ length \div PAGE_SIZE \in Int /\ length % PAGE_SIZE \in 0 .. PAGE_SIZE - 1
      /\ length = (length \div PAGE_SIZE) * PAGE_SIZE + (length % PAGE_SIZE)
  BY <1>1, DivMod
<1>3. length \div PAGE_SIZE > 0
  BY <1>1, <1>2
<1> QED
  BY <1>2, <1>3 DEF PagesFor

\* A frame buffer from mmap.
LEMMA MmapInv ==
  ASSUME UserHeapInv, calls < MaxCalls, calls' = calls + 1, NEW length \in Lengths, mmap(length)
  PROVE  UserHeapInv'
<1>1. /\ KernelOK /\ StaticsOK /\ AreaOK /\ Packed /\ ReachedLater
      /\ \A c \in blocks : BlockOK(c)
      /\ \A f \in buffers : BufferOK(f)
  BY Zenon DEF UserHeapInv
<1>2. /\ cur \in Nat /\ end \in Nat /\ calls \in Nat /\ PAGE_SIZE \in Nat \ {0}
      /\ length \in Nat /\ length >= PAGE_SIZE
  BY <1>1, UserHeapAssumption DEF StaticsOK
<1>3. PagesFor(length) \in Nat \ {0}
  BY FrameLength, Zenon
<1>4. /\ SysMmap(length)
      /\ buffers' = (IF answer' = NULL THEN buffers
                     ELSE buffers \cup {[call |-> calls, at |-> Address(answer'), size |-> length]})
      /\ UNCHANGED <<brk, cur, end, mmap_step, blocks>>
  BY DEF mmap, statics
<1>5. PICK new : new = [start |-> answer', pages |-> PagesFor(length)]
  BY Zenon
<1>6. /\ KernelOK' /\ refused' \in BOOLEAN /\ (refused = TRUE => refused' = TRUE)
      /\ held \subseteq held'
      /\ \/ answer' = NULL /\ held' = held
         \/ /\ answer' # NULL /\ Address(answer') = answer' * PAGE_SIZE
            /\ new \in held' /\ new \in Spans /\ new.start + new.pages - 1 \in Heap
            /\ held' = held \cup {new}
            /\ \A s \in held : Ordered(s, new) /\ s.start # new.start + new.pages
  BY <1>2, <1>3, <1>4, <1>5, Mmapped, Zenon
<1>7. StaticsOK'
  BY <1>1, <1>4, <1>6 DEF StaticsOK
<1>8. \A c, s : Inside(c, s)' <=> Inside(c, s)
  BY Zenon DEF Inside
<1>9. \A f \in buffers : BufferOK(f)'
  BY <1>1, <1>2, <1>6, OldBuffer, Zenon
<1>10. ASSUME \A s \in held : Own(s) => Own(s)'
       PROVE  AreaOK' /\ \A c \in blocks' : BlockOK(c)'
  <2>1. AreaOK'
    BY <1>1, <1>4, <1>6, <1>8, <1>10 DEF AreaOK
  <2>2. \A c \in blocks : BlockOK(c)'
    BY <1>1, <1>2, <1>6, <1>10, OldBlock, Zenon
  <2> QED
    BY <1>4, <2>1, <2>2, Zenon
<1>11. CASE answer' = NULL
  <2>1. buffers' = buffers /\ held' = held
    BY <1>4, <1>6, <1>11
  <2>2. \A s \in held : Own(s) => Own(s)'
    BY <2>1, Zenon DEF Own
  <2>3. Packed' /\ ReachedLater'
    BY <1>1, <1>4, <1>8, <2>1, Zenon DEF Packed, ReachedLater, Apart
  <2> QED
    BY <1>6, <1>7, <1>9, <1>10, <2>1, <2>2, <2>3, Zenon DEF UserHeapInv
<1>12. CASE answer' # NULL
  <2>1. /\ Address(answer') = new.start * PAGE_SIZE /\ new.pages = PagesFor(length)
        /\ new \in held' /\ new \in Spans /\ new.start + new.pages - 1 \in Heap
        /\ held' = held \cup {new}
        /\ \A s \in held : Ordered(s, new) /\ s.start # new.start + new.pages
    BY <1>5, <1>6, <1>12, Zenon
  <2>2. /\ new.start \in Nat /\ new.pages \in Nat \ {0} /\ new.start * PAGE_SIZE \in Nat \ {0}
        /\ new.start * PAGE_SIZE + PAGE_SIZE <= (new.start + new.pages) * PAGE_SIZE
        /\ (new.start + new.pages) * PAGE_SIZE \in Nat
    BY <2>1, SpanBytes
  <2>3. PICK f0 : f0 = [call |-> calls, at |-> new.start * PAGE_SIZE, size |-> length]
    BY Zenon
  <2>4. /\ f0.call = calls /\ f0.at = new.start * PAGE_SIZE /\ f0.size = length
        /\ buffers' = buffers \cup {f0}
    BY <1>4, <1>12, <2>1, <2>3, Zenon
  <2>5. BufferOK(f0)'
    <3>1. f0 \in Block
      BY <1>2, <2>2, <2>3, Constants DEF Block
    <3>2. f0.at \div PAGE_SIZE = new.start
      <4>1. new.start \in Int
        BY <2>2
      <4>2. (new.start * PAGE_SIZE) \div PAGE_SIZE = new.start
        BY <1>2, <4>1, MultipleOf, Zenon
      <4> QED
        BY <2>4, <4>2, Zenon
    <3>3. new = [start |-> new.start, pages |-> new.pages]
      BY <2>1, Zenon DEF Spans
    <3>4. [start |-> f0.at \div PAGE_SIZE, pages |-> PagesFor(f0.size)] \in held'
      BY <2>1, <2>4, <3>2, <3>3, Zenon
    <3>5. f0.call < calls'
      BY <1>2, <2>4
    <3> QED
      BY <2>4, <3>1, <3>2, <3>4, <3>5, Zenon DEF BufferOK
  <2>6. \A s \in held : Own(s) => Own(s)'
    <3> SUFFICES ASSUME NEW s \in held PROVE f0.at # s.start * PAGE_SIZE
      BY <2>4, Zenon DEF Own
    <3>1. s \in Spans /\ s.start + s.pages - 1 \in Heap
      BY <1>1, HeldSpan, Zenon
    <3>2. /\ s.start \in Nat /\ s.pages \in Nat /\ s.start * PAGE_SIZE \in Nat
          /\ s.start * PAGE_SIZE + PAGE_SIZE <= (s.start + s.pages) * PAGE_SIZE
          /\ (s.start + s.pages) * PAGE_SIZE \in Nat
      BY <3>1, SpanBytes, Zenon
    <3>3. \/ (s.start + s.pages) * PAGE_SIZE <= new.start * PAGE_SIZE
          \/ (new.start + new.pages) * PAGE_SIZE <= s.start * PAGE_SIZE
      BY <2>1, <2>2, <3>2, ByteOrder, Zenon
    <3> QED
      BY <1>2, <2>2, <2>4, <3>2, <3>3
  <2>7. Packed'
    <3>1. \A c \in blocks : ~Inside(c, new)
      BY <1>1, <2>1, NotInNew
    <3> QED
      BY <1>1, <1>4, <1>8, <2>1, <3>1 DEF Packed, Apart
  <2>8. ASSUME NEW c \in blocks PROVE Apart(c, f0)
    <3>1. c.at \in Nat \ {0} /\ c.size \in Nat \ {0}
      BY <1>1, BlockFacts, Zenon
    <3>2. CASE \E s \in held : Inside(c, s)
      <4>1. PICK s \in held : Inside(c, s)
        BY <3>2, Zenon
      <4>2. s \in Spans /\ s.start + s.pages - 1 \in Heap /\ Ordered(s, new) /\ s.start # new.start + new.pages
        BY <1>1, <2>1, HeldSpan, Zenon
      <4>3. s.start \in Nat /\ s.pages \in Nat \ {0} /\ s.start * PAGE_SIZE \in Nat
            /\ (s.start + s.pages) * PAGE_SIZE \in Nat
        BY <4>2, SpanBytes, Zenon
      <4>4. /\ f0.at + f0.size < (new.start + new.pages) * PAGE_SIZE + PAGE_SIZE
            /\ c.at + c.size <= f0.at \/ (new.start + new.pages) * PAGE_SIZE <= c.at
        BY <1>2, <2>1, <2>4, <3>1, <4>1, <4>2, BesideBuffer, Zenon
      <4>5. CASE s.start + s.pages <= new.start
        <5>1. (s.start + s.pages) * PAGE_SIZE <= new.start * PAGE_SIZE
          BY <1>2, <2>2, <4>3, <4>5, Order
        <5> QED
          BY <2>2, <2>4, <3>1, <4>1, <4>3, <5>1 DEF Inside, Apart
      <4>6. CASE new.start + new.pages <= s.start
        <5>1. (new.start + new.pages + 1) * PAGE_SIZE <= s.start * PAGE_SIZE
          BY <1>2, <2>2, <4>2, <4>3, <4>6, Order
        <5>2. (new.start + new.pages + 1) * PAGE_SIZE = (new.start + new.pages) * PAGE_SIZE + PAGE_SIZE
          BY <1>2, <2>2
        <5>3. s.start * PAGE_SIZE <= c.at
          BY <4>1, Zenon DEF Inside
        <5> QED
          BY <1>2, <2>2, <2>4, <3>1, <4>3, <4>4, <5>1, <5>2, <5>3 DEF Apart
      <4> QED
        BY <4>2, <4>5, <4>6 DEF Ordered
    <3>3. CASE c.at + c.size <= 64 * PAGE_SIZE
      <4>1. 64 * PAGE_SIZE <= new.start * PAGE_SIZE
        BY <2>1, SpanBytes, Zenon
      <4> QED
        BY <1>2, <2>2, <2>4, <3>1, <3>3, <4>1 DEF Apart
    <3> QED
      BY <1>1, <3>2, <3>3, BlockFacts, Zenon
  <2>9. ReachedLater'
    BY <1>1, <1>4, <2>4, <2>8 DEF ReachedLater, Apart
  <2> QED
    BY <1>6, <1>7, <1>9, <1>10, <2>4, <2>5, <2>6, <2>7, <2>9, Zenon DEF UserHeapInv
<1> QED
  BY <1>11, <1>12

\* The invariant holds before the first call.
LEMMA HeapInitInv ==
  ASSUME UserHeapInit
  PROVE  UserHeapInv
<1>1. /\ brk = 0 /\ cur = 0 /\ end = 0 /\ mmap_step = 0 /\ calls = 0 /\ refused = FALSE
      /\ blocks = {} /\ buffers = {} /\ free = Heap /\ held = {}
  BY DEF UserHeapInit, Kernel!Init
<1>2. KernelOK
  BY <1>1 DEF KernelOK
<1>3. 0 % PAGE_SIZE = 0
  BY Constants, ModSmall
<1>4. StaticsOK
  <2>1. 0 \in 0 .. Longs - 1 /\ 0 \in 0 .. 12 /\ 0 <= 0 /\ 0 \in Nat
    BY Constants
  <2> QED
    BY <1>1, <1>3, <2>1, Zenon DEF StaticsOK
<1>5. AreaOK /\ Packed /\ ReachedLater
  BY <1>1 DEF AreaOK, Packed, ReachedLater
<1> QED
  BY <1>1, <1>2, <1>4, <1>5, Zenon DEF UserHeapInv

\* A call of malloc looks for m bytes at an aligned address of the current area.
Asked(m, at) ==
  /\ cur <= at /\ at <= end /\ at % AlignFor(m) = 0 /\ Sub(end, at) = end - at
  /\ simple_malloc(m, at)

\* A request for nothing is one for a byte.
LEMMA MallocAsks ==
  ASSUME UserHeapInv, NEW n \in Sizes, malloc(n)
  PROVE  \E m \in 1 .. Ints, at \in Nat : Asked(m, at)
<1>1. StaticsOK
  BY Zenon DEF UserHeapInv
<1>2. cur \in Nat /\ end \in Nat /\ end < Longs /\ cur <= end /\ end % PAGE_SIZE = 0 /\ Ints \in Nat \ {0}
  BY <1>1, Constants DEF StaticsOK
<1>3. n \in Nat /\ n <= Ints
  BY <1>2, UserHeapAssumption
<1>4. CASE n = 0
  <2>1. simple_malloc(1, cur) /\ 1 \in 1 .. Ints
    BY <1>2, <1>4 DEF malloc
  <2>2. cur % AlignFor(1) = 0
    <3>1. AlignFor(1) = 1
      <4>1. \A a \in Aligns : (a >= 1 \/ a = ALIGN) /\ (\A b \in Aligns : b < a => b < 1) <=> a = 1
        BY DEF Aligns, ALIGN
      <4>2. 1 \in Aligns
        BY DEF Aligns
      <4> QED
        BY <4>1, <4>2 DEF AlignFor
    <3> QED
      BY <1>2, <3>1
  <2>3. Sub(end, cur) = end - cur
    <3>1. end - cur \in Nat /\ end - cur < Longs /\ Longs \in Nat \ {0}
      BY <1>2, Constants
    <3> QED
      BY <3>1, ModSmall, Zenon DEF Sub
  <2>4. Asked(1, cur)
    BY <1>2, <2>1, <2>2, <2>3 DEF Asked
  <2> QED
    BY <1>2, <2>1, <2>4, Zenon
<1>5. CASE n # 0
  <2>1. n \in 1 .. Ints /\ simple_malloc(n, RoundUp(cur, AlignFor(n)))
    BY <1>2, <1>3, <1>5 DEF malloc
  <2>2. AlignFor(n) \in Aligns
    BY <1>3, Aligned
  <2>3. PICK at : at = RoundUp(cur, AlignFor(n))
    BY Zenon
  <2>4. at \in Nat /\ cur <= at /\ at <= end /\ at % AlignFor(n) = 0 /\ Sub(end, at) = end - at
    BY <1>2, <2>2, <2>3, NextBlock, Zenon
  <2>5. Asked(n, at)
    BY <2>1, <2>3, <2>4, Zenon DEF Asked
  <2> QED
    BY <2>1, <2>4, <2>5, Zenon
<1> QED
  BY <1>4, <1>5, Zenon

\* Every call keeps the invariant.
LEMMA HeapStepInv ==
  ASSUME UserHeapInv, [UserHeapNext]_vars
  PROVE  UserHeapInv'
<1>3. ASSUME calls < MaxCalls, calls' = calls + 1, NEW n \in Sizes, malloc(n)
      PROVE  UserHeapInv'
  <2>1. buffers' = buffers
    BY <1>3, Zenon DEF malloc
  <2>2. PICK m \in 1 .. Ints, at \in Nat : Asked(m, at)
    BY <1>3, MallocAsks, Zenon
  <2> QED
    BY <1>3, <2>1, <2>2, MallocInv, Zenon DEF Asked
<1>4. ASSUME calls < MaxCalls, calls' = calls + 1, NEW l \in Lengths, mmap(l)
      PROVE  UserHeapInv'
  BY <1>4, MmapInv, Zenon
<1>5. CASE UNCHANGED vars
  <2>1. UNCHANGED <<brk, cur, end, mmap_step, free, held, refused, blocks, buffers, calls>>
    BY <1>5, Zenon DEF vars, statics, kernel
  <2>2. KernelOK' /\ StaticsOK' /\ AreaOK' /\ Packed' /\ ReachedLater'
    BY <2>1 DEF UserHeapInv, KernelOK, StaticsOK, AreaOK, Own, Inside, Packed, Apart, ReachedLater
  <2>3. \A b \in blocks : BlockOK(b) => BlockOK(b)'
    BY <2>1, Zenon DEF BlockOK, Own, Inside
  <2>4. \A f \in buffers : BufferOK(f) => BufferOK(f)'
    BY <2>1 DEF BufferOK
  <2> QED
    BY <2>1, <2>2, <2>3, <2>4, Zenon DEF UserHeapInv
<1> QED
  BY <1>3, <1>4, <1>5 DEF UserHeapNext

\* The invariant holds throughout.
LEMMA HeapInvariance == UserHeapSpec => []UserHeapInv
BY HeapInitInv, HeapStepInv, PTL DEF UserHeapSpec

------------------------------------------------------------------------------
(* Theorems *)

\* The statics of __simple_malloc are words, the current area is not inside
\* out and ends with a page.
THEOREM UserHeapTypeCorrect == UserHeapSpec => []UserHeapTypeOK
<1>1. UserHeapInv => UserHeapTypeOK
  <2> SUFFICES ASSUME UserHeapInv PROVE UserHeapTypeOK
    OBVIOUS
  <2>1. blocks \subseteq Block /\ buffers \subseteq Block
    BY Zenon DEF UserHeapInv, BlockOK, BufferOK
  <2> QED
    BY <2>1, Constants DEF UserHeapInv, StaticsOK, UserHeapTypeOK
<1> QED
  BY <1>1, HeapInvariance, PTL

\* Blocks of one span are packed, and spans are apart.
LEMMA ApartBlocks == UserHeapInv => BlocksApart
<1> SUFFICES ASSUME UserHeapInv, NEW b \in blocks, NEW c \in blocks, Mapped(b), Mapped(c),
                    b.call # c.call
             PROVE  Apart(b, c)
  BY DEF BlocksApart
<1>1. KernelOK /\ Packed /\ BlockOK(b) /\ BlockOK(c)
  BY DEF UserHeapInv
<1>2. PICK s \in held : Inside(b, s)
  BY DEF Mapped
<1>3. PICK t \in held : Inside(c, t)
  BY Zenon DEF Mapped
<1>4. CASE s = t
  BY <1>1, <1>2, <1>3, <1>4, Zenon DEF Packed
<1>5. CASE s # t
  <2>1. /\ b.at \in Nat /\ b.size \in Nat /\ c.at \in Nat /\ c.size \in Nat
    BY <1>1, BlockFacts, Zenon
  <2>2. s \in Spans /\ s.start + s.pages - 1 \in Heap /\ t \in Spans /\ t.start + t.pages - 1 \in Heap
        /\ Ordered(s, t)
    BY <1>1, <1>5, HeldSpan, Zenon
  <2>3. /\ s.start \in Nat /\ s.pages \in Nat /\ t.start \in Nat /\ t.pages \in Nat
        /\ s.start * PAGE_SIZE \in Nat /\ (s.start + s.pages) * PAGE_SIZE \in Nat
        /\ t.start * PAGE_SIZE \in Nat /\ (t.start + t.pages) * PAGE_SIZE \in Nat
    BY <2>2, SpanBytes, Zenon
  <2>4. \/ (s.start + s.pages) * PAGE_SIZE <= t.start * PAGE_SIZE
        \/ (t.start + t.pages) * PAGE_SIZE <= s.start * PAGE_SIZE
    BY <2>2, <2>3, ByteOrder
  <2> QED
    BY <1>2, <1>3, <2>1, <2>3, <2>4 DEF Inside, Apart
<1> QED
  BY <1>4, <1>5

\* Two blocks of malloc in mapped memory never share a byte.
THEOREM UserHeapBlocksApart == UserHeapSpec => []BlocksApart
BY ApartBlocks, HeapInvariance, PTL

\* A block of malloc is aligned, mapped unless the kernel has refused a
\* request, and no part of the pages of a frame buffer.
THEOREM UserHeapBlocksUsable == UserHeapSpec => []BlocksUsable
<1>1. UserHeapInv => BlocksUsable
  <2> SUFFICES ASSUME UserHeapInv, NEW b \in blocks
               PROVE  /\ b.at % AlignFor(b.size) = 0
                      /\ Mapped(b) \/ (refused /\ \A p \in Heap : b.at + b.size <= p * PAGE_SIZE)
                      /\ \A f \in buffers :
                           Apart(b, [f EXCEPT !.size = PagesFor(f.size) * PAGE_SIZE])
    BY Zenon DEF BlocksUsable
  <2>1. KernelOK /\ BlockOK(b) /\ \A f \in buffers : BufferOK(f)
    BY DEF UserHeapInv
  <2>2. b.at \in Nat /\ b.size \in Nat
    BY <2>1, BlockFacts, Zenon
  <2>3. b.at % AlignFor(b.size) = 0
    BY <2>1, Zenon DEF BlockOK
  <2>4. Mapped(b) \/ (refused /\ \A p \in Heap : b.at + b.size <= p * PAGE_SIZE)
    <3>1. ASSUME b.at + b.size <= 64 * PAGE_SIZE, NEW p \in Heap
          PROVE  b.at + b.size <= p * PAGE_SIZE
      <4>1. 64 * PAGE_SIZE <= p * PAGE_SIZE /\ p * PAGE_SIZE \in Nat /\ 64 * PAGE_SIZE \in Nat
        BY HeapPage, Constants
      <4> QED
        BY <2>2, <3>1, <4>1
    <3> QED
      BY <2>1, <3>1 DEF BlockOK, Mapped
  <2>5. ASSUME NEW f \in buffers
        PROVE  Apart(b, [f EXCEPT !.size = PagesFor(f.size) * PAGE_SIZE])
    <3>1. b.at + b.size <= f.at \/ f.at + PagesFor(f.size) * PAGE_SIZE <= b.at
      BY <2>1, BlockAndBuffer
    <3>2. f \in [call : 0 .. MaxCalls, at : Nat \ {0}, size : Nat]
      BY <2>1, Zenon DEF BufferOK, Block
    <3>3. /\ [f EXCEPT !.size = PagesFor(f.size) * PAGE_SIZE].at = f.at
          /\ [f EXCEPT !.size = PagesFor(f.size) * PAGE_SIZE].size = PagesFor(f.size) * PAGE_SIZE
      BY <3>2, Zenon
    <3> QED
      BY <3>1, <3>3, Zenon DEF Apart
  <2> QED
    BY <2>3, <2>4, <2>5, Zenon
<1> QED
  BY <1>1, HeapInvariance, PTL

\* A frame buffer is short of less than a page, and a block in that rest of
\* it was returned later.
THEOREM UserHeapOverrunConfined == UserHeapSpec => []OverrunConfined
<1>1. UserHeapInv => OverrunConfined
  <2> SUFFICES ASSUME UserHeapInv, NEW f \in buffers, NEW b \in blocks, ~Apart(b, f)
               PROVE  b.call > f.call /\ f.at + f.size - b.at < PAGE_SIZE
    BY DEF OverrunConfined
  <2>1. KernelOK /\ ReachedLater /\ BlockOK(b) /\ BufferOK(f)
    BY DEF UserHeapInv
  <2>2. b.at \in Nat /\ b.size \in Nat /\ f.at \in Nat /\ f.size \in Nat /\ PAGE_SIZE \in Nat
    BY <2>1, BlockFacts, BufferSpan, Constants, Zenon
  <2>3. /\ b.at + b.size <= f.at \/ f.at + PagesFor(f.size) * PAGE_SIZE <= b.at
        /\ f.at + f.size < f.at + PagesFor(f.size) * PAGE_SIZE + PAGE_SIZE
        /\ PagesFor(f.size) * PAGE_SIZE \in Nat
    BY <2>1, BlockAndBuffer, Zenon
  <2> QED
    BY <2>1, <2>2, <2>3 DEF ReachedLater, Apart
<1> QED
  BY <1>1, HeapInvariance, PTL

------------------------------------------------------------------------------
(* Screen *)

\* The sizes as the proofs use them.
LEMMA ScreenSizes ==
  /\ Width \in Nat /\ Height \in Nat /\ Side \in Nat /\ Header \in Nat /\ MaxLogs \in Nat
  /\ Side > 0 /\ Side < Width /\ Side < Height /\ Header > 0 /\ Width > 0
  /\ Total \in Nat /\ Total > 0 /\ Whole \in Int /\ Rest \in Int
  /\ Rest = Total - Whole /\ Rest <= Whole
  /\ Pixels = 0 .. Total - 1 /\ Glyphs \subseteq Pixels
<1>1. /\ Width \in Nat \ {0} /\ Height \in Nat \ {0} /\ Side \in Nat \ {0}
      /\ Header \in Nat \ {0} /\ MaxLogs \in Nat \ {0} /\ PagePixels \in Nat \ {0}
  BY ScreenAssumption
<1>2. Total \in Nat /\ Total > 0
  BY <1>1 DEF Total
<1>3. Total \div PagePixels \in Int
  BY <1>1, <1>2
<1>4. Whole \in Int
  BY <1>1, <1>3 DEF Whole
<1> QED
  BY <1>1, <1>2, <1>4, ScreenAssumption DEF Rest, Pixels

\* Whole pages of the frame buffer are no more than all of it.
LEMMA WholeFits == Whole <= Total /\ Rest >= 0
<1>1. ASSUME NEW n \in Nat, NEW k \in Nat \ {0} PROVE (n \div k) * k <= n
  OBVIOUS
<1>2. PagePixels \in Nat \ {0}
  BY ScreenAssumption, Zenon
<1>3. Whole <= Total
  BY <1>1, <1>2, ScreenSizes, Zenon DEF Whole
<1> QED
  BY <1>3, ScreenSizes

------------------------------------------------------------------------------
(* The square: one coordinate *)

\* The coordinate at, moving by d, has a step of room before it in a line of
\* the given length.
Heading(at, d, room) ==
  /\ at \in 0 .. room - Side
  /\ d \in {-1, 1}
  /\ at = 0 => d = 1
  /\ at = room - Side => d = -1

\* A step and the bounce after it keep the square inside (Main.c: the bounce
\* is tested with the position that is drawn next).
LEMMA BounceKeeps ==
  ASSUME NEW at, NEW d, NEW room \in Nat, Side < room, Heading(at, d, room)
  PROVE  Heading(at + d, Bounce(at + d, d, room), room)
<1>1. Side \in Nat /\ Side > 0
  BY ScreenSizes
<1>2. at \in Int /\ d \in {-1, 1}
  BY <1>1 DEF Heading
<1>3. CASE d = 1
  BY <1>1, <1>2, <1>3 DEF Heading, Bounce
<1>4. CASE d # 1
  <2>1. d \in Int /\ d + 1 = 0
    BY <1>2, <1>4
  <2>2. at > 0 /\ at <= room - Side
    BY <1>1, <1>2, <1>4 DEF Heading
  <2>3. -d = 1
    BY <2>1
  <2>4. Bounce(at + d, d, room) = IF at = 1 THEN 1 ELSE -1
    BY <1>1, <1>2, <2>1, <2>2, <2>3 DEF Bounce
  <2> QED
    BY <1>1, <1>2, <2>1, <2>2, <2>4 DEF Heading
<1> QED
  BY <1>2, <1>3, <1>4, Zenon

------------------------------------------------------------------------------
(* The inductive invariant *)

Picture == [Pixels -> Colours]

Types ==
  /\ screen \in Picture /\ BACKBUFFER \in Picture
  /\ original \in Picture /\ backbuffer \in Picture /\ shot \in Picture
  /\ Heading(x, dx, Width) /\ Heading(y, dy, Height)
  /\ pc \in {"shoot", "draw", "show", "move"} /\ i \in Pixels
  /\ logs \in 0 .. MaxLogs /\ text \subseteq Pixels /\ disturbed \in BOOLEAN

KernelKept ==
  \A p \in Pixels : p + Header >= Rest =>
       BACKBUFFER[p] = IF p \in text THEN "text" ELSE "background"

OriginalKept ==
  pc # "shoot" => \A p \in Pixels : p >= Rest => original[p] = shot[p]

EdgeKept == \A p \in Pixels : p >= Whole => screen[p] = "firmware"

\* How far the memcpy to the screen has come.
CopyKept ==
  /\ pc \in {"draw", "move"} => i = 0
  /\ pc \in {"show", "move"} =>
       \A p \in Pixels : p >= Rest =>
         backbuffer[p] = IF InSquare(p) THEN "square" ELSE shot[p]
  /\ ~disturbed /\ pc \in {"show", "move"} =>
       \A p \in Pixels : p < Whole /\ (p < i \/ pc = "move") => screen[p] = backbuffer[p]

ScreenInv == Types /\ KernelKept /\ OriginalKept /\ EdgeKept /\ CopyKept

\* The invariant holds when the program starts.
LEMMA ScreenInitInv == ScreenInit => ScreenInv
<1> SUFFICES ASSUME ScreenInit PROVE ScreenInv
  OBVIOUS
<1>1. Blank \in Picture
  BY DEF Blank, Picture, Colours
<1>2. screen \in Picture
  BY Zenon DEF ScreenInit, Picture, Colours
<1>3. Heading(x, dx, Width) /\ Heading(y, dy, Height)
  BY ScreenSizes DEF ScreenInit, Heading
<1>4. Types
  <2>1. i \in Pixels /\ logs \in 0 .. MaxLogs
    BY ScreenSizes DEF ScreenInit
  <2>2. /\ pc \in {"shoot", "draw", "show", "move"} /\ text \subseteq Pixels
        /\ disturbed \in BOOLEAN
    BY Zenon DEF ScreenInit
  <2>3. {BACKBUFFER, original, backbuffer, shot} \subseteq Picture
    BY <1>1 DEF ScreenInit
  <2> QED
    BY <1>2, <1>3, <2>1, <2>2, <2>3, Zenon DEF Types
<1>5. KernelKept
  BY Zenon DEF ScreenInit, KernelKept, Blank
<1>6. EdgeKept
  BY ScreenSizes DEF ScreenInit, EdgeKept
<1>7. OriginalKept /\ CopyKept
  BY DEF ScreenInit, OriginalKept, CopyKept
<1> QED
  BY <1>4, <1>5, <1>6, <1>7 DEF ScreenInv

\* swapBuffers keeps the rows of the buffer that lie behind the damage, and
\* never reaches the last pixels of the screen.
LEMMA SwapKeeps ==
  ASSUME NEW buffer \in Picture, Types, EdgeKept, swapBuffers(buffer)
  PROVE  /\ screen' \in Picture /\ BACKBUFFER' \in Picture
         /\ \A p \in Pixels : p + Header >= Rest => BACKBUFFER'[p] = buffer[p]
         /\ EdgeKept'
<1>1. screen' \in Picture
  BY ScreenSizes DEF swapBuffers, Picture, Types
<1>2. \A p \in Pixels : p + Header < Rest => Whole + Header + p \in Pixels
  BY ScreenSizes
<1>3. BACKBUFFER' \in Picture
  BY <1>2, Zenon DEF swapBuffers, PastBack, Picture
<1>4. \A p \in Pixels : p + Header >= Rest => BACKBUFFER'[p] = buffer[p]
  BY ScreenSizes DEF swapBuffers, PastBack
<1>5. EdgeKept'
  BY ScreenSizes DEF swapBuffers, EdgeKept
<1> QED
  BY <1>1, <1>3, <1>4, <1>5, Zenon

\* What a handler that logs changes.
KernelPart ==
  /\ screen \in Picture /\ BACKBUFFER \in Picture /\ text \subseteq Pixels
  /\ EdgeKept /\ KernelKept

\* A handler that logs keeps the invariant.
LEMMA LogInv ==
  ASSUME ScreenInv, Log
  PROVE  ScreenInv'
<1>1. Types /\ KernelKept /\ OriginalKept /\ EdgeKept /\ CopyKept
  BY Zenon DEF ScreenInv
<1>2. UNCHANGED <<original, backbuffer, x, y, dx, dy, pc, i, shot>> /\ disturbed'
  BY Zenon DEF Log, square
<1>3. KernelPart'
  <2>1. ASSUME NEW q \in Glyphs, Render(q)
        PROVE  KernelPart'
    <3> DEFINE buffer == [BACKBUFFER EXCEPT ![q] = "text"]
    <3>1. q \in Pixels
      BY ScreenSizes, Zenon
    <3>2. buffer \in Picture /\ swapBuffers(buffer) /\ text' = text \cup {q}
      BY <1>1, <2>1, <3>1, Zenon DEF Types, Picture, Colours, Render
    <3>3. \A p \in Pixels : buffer[p] = IF p = q THEN "text" ELSE BACKBUFFER[p]
      BY <1>1, Zenon DEF Types, Picture
    <3> HIDE DEF buffer
    <3>4. /\ screen' \in Picture /\ BACKBUFFER' \in Picture /\ EdgeKept'
          /\ \A p \in Pixels : p + Header >= Rest => BACKBUFFER'[p] = buffer[p]
      BY <1>1, <3>2, SwapKeeps, Zenon
    <3>5. KernelKept'
      BY <1>1, <3>2, <3>3, <3>4, Zenon DEF KernelKept
    <3> QED
      BY <1>1, <3>1, <3>2, <3>4, <3>5, Zenon DEF Types, KernelPart
  <2>2. ASSUME Scroll
        PROVE  KernelPart'
    <3> DEFINE buffer == ScrollUp(BACKBUFFER)
    <3>1. buffer \in Picture /\ swapBuffers(buffer)
      BY <2>2 DEF Scroll, ScrollUp, Picture, Colours
    <3>2. \A p \in Pixels :
            buffer[p] = IF p + Width < Total /\ BACKBUFFER[p + Width] = "text"
                        THEN "text" ELSE "background"
      BY DEF ScrollUp
    <3>3. text' = {p \in Pixels : p + Width \in text}
      BY <2>2, Zenon DEF Scroll
    <3> HIDE DEF buffer
    <3>4. /\ screen' \in Picture /\ BACKBUFFER' \in Picture /\ EdgeKept'
          /\ \A p \in Pixels : p + Header >= Rest => BACKBUFFER'[p] = buffer[p]
      BY <1>1, <3>1, SwapKeeps, Zenon
    <3>5. ASSUME NEW p \in Pixels, p + Header >= Rest
          PROVE  BACKBUFFER'[p] = IF p \in text' THEN "text" ELSE "background"
      <4>1. p + Width \in Pixels <=> p + Width < Total
        BY ScreenSizes
      <4>2. p + Width + Header >= Rest
        BY <3>5, ScreenSizes
      <4>3. p + Width \in text => p + Width < Total
        BY <1>1, <4>1, Zenon DEF Types
      <4>4. p + Width < Total => (BACKBUFFER[p + Width] = "text" <=> p + Width \in text)
        BY <1>1, <4>1, <4>2, Zenon DEF KernelKept
      <4> QED
        BY <3>2, <3>3, <3>4, <3>5, <4>3, <4>4, Zenon
    <3>6. KernelKept'
      BY <3>5, Zenon DEF KernelKept
    <3> QED
      BY <3>3, <3>4, <3>6, Zenon DEF KernelPart
  <2> QED
    BY <2>1, <2>2, Zenon DEF Log
<1>4. Types'
  BY <1>1, <1>2, <1>3, ScreenSizes, SMTT(15) DEF Types, Log, Heading, KernelPart
<1>5. OriginalKept' /\ CopyKept'
  BY <1>1, <1>2 DEF OriginalKept, CopyKept, InSquare
<1> QED
  BY <1>1, <1>3, <1>4, <1>5 DEF ScreenInv, KernelPart

\* Every step of the program keeps the invariant.
LEMMA ProgramInv ==
  ASSUME ScreenInv, dvd_bounce
  PROVE  ScreenInv'
<1>1. Types /\ KernelKept /\ OriginalKept /\ EdgeKept /\ CopyKept
  BY DEF ScreenInv
<1>2. i \in 0 .. Total - 1 /\ i \in Pixels
  BY <1>1, ScreenSizes, Zenon DEF Types
<1>3. ASSUME Shoot PROVE ScreenInv'
  <2>1. /\ pc = "shoot"
        /\ UNCHANGED <<screen, BACKBUFFER, text, logs, backbuffer, x, y, dx, dy, disturbed>>
    BY <1>3, Zenon DEF Shoot, console, square
  <2>2. FrameAt(i) \in Colours
    BY <1>1, <1>2, ScreenSizes DEF FrameAt, Types, Picture
  <2>3. original' \in Picture
    BY <1>1, <1>2, <1>3, <2>2, Zenon DEF Shoot, Types, Picture
  <2>4. \/ i + 1 < Total /\ i' = i + 1 /\ pc' = pc /\ shot' = shot
        \/ i' = 0 /\ pc' = "draw" /\ shot' = original'
    BY <1>3, Zenon DEF Shoot
  <2>5. i' \in Pixels /\ shot' \in Picture
    BY <1>1, <1>2, <2>3, <2>4, ScreenSizes DEF Types
  <2>6. Types'
    BY <1>1, <2>1, <2>3, <2>4, <2>5, Zenon DEF Types, Heading
  <2>7. KernelKept' /\ EdgeKept'
    BY <1>1, <2>1, Zenon DEF KernelKept, EdgeKept
  <2>8. OriginalKept' /\ CopyKept'
    BY <2>1, <2>4, Zenon DEF OriginalKept, CopyKept
  <2> QED
    BY <2>6, <2>7, <2>8, Zenon DEF ScreenInv
<1>4. ASSUME Draw PROVE ScreenInv'
  <2>1. /\ pc = "draw" /\ pc' = "show" /\ disturbed' = FALSE
        /\ UNCHANGED <<screen, BACKBUFFER, text, logs, original, x, y, dx, dy, i, shot>>
    BY <1>4, Zenon DEF Draw, console, square
  <2>2. backbuffer' = [p \in Pixels |-> IF InSquare(p) THEN "square" ELSE original[p]]
    BY <1>4, Zenon DEF Draw
  <2>3. backbuffer' \in Picture
    BY <1>1, <2>2 DEF Types, Picture, Colours
  <2>4. Types'
    BY <1>1, <2>1, <2>3, Zenon DEF Types, Heading
  <2>5. KernelKept' /\ EdgeKept' /\ OriginalKept'
    BY <1>1, <2>1, Zenon DEF KernelKept, EdgeKept, OriginalKept
  <2>6. \A p \in Pixels : InSquare(p)' <=> InSquare(p)
    BY <2>1, Zenon DEF InSquare
  <2>7. \A p \in Pixels : p >= Rest =>
          backbuffer'[p] = IF InSquare(p)' THEN "square" ELSE shot'[p]
    BY <1>1, <2>1, <2>2, <2>6, Zenon DEF OriginalKept
  <2>8. i' = 0
    BY <1>1, <2>1, Zenon DEF CopyKept
  <2>9. \A p \in Pixels : ~(p < i' \/ pc' = "move")
    BY <2>1, <2>8, ScreenSizes
  <2>10. CopyKept'
    BY <2>1, <2>7, <2>8, <2>9, Zenon DEF CopyKept
  <2> QED
    BY <2>4, <2>5, <2>10, Zenon DEF ScreenInv
<1>5. ASSUME Show PROVE ScreenInv'
  <2>1. /\ pc = "show"
        /\ UNCHANGED <<BACKBUFFER, text, logs, backbuffer, x, y, dx, dy, shot, disturbed>>
    BY <1>5, Zenon DEF Show, console, square
  <2>2. \/ i + 1 < Total /\ i' = i + 1 /\ pc' = pc
        \/ i + 1 >= Total /\ i' = 0 /\ pc' = "move"
    BY <1>2, <1>5, ScreenSizes DEF Show
  <2>3. \/ /\ i < Whole /\ original' = original
           /\ screen' = [screen EXCEPT ![i] = backbuffer[i]]
        \/ /\ i >= Whole /\ screen' = screen
           /\ original' = [original EXCEPT ![i - Whole] = backbuffer[i]]
    BY <1>2, <1>5, ScreenSizes DEF Show, PutFrame
  <2>4. backbuffer[i] \in Colours
    BY <1>1, <1>2, Zenon DEF Types, Picture
  <2>5. screen' \in Picture /\ original' \in Picture
    BY <1>1, <1>2, <2>3, <2>4, Zenon DEF Types, Picture
  <2>6. i' \in Pixels
    BY <1>2, <2>2, ScreenSizes
  <2>7. Types'
    BY <1>1, <2>1, <2>2, <2>5, <2>6, Zenon DEF Types, Heading
  <2>8. KernelKept'
    BY <1>1, <2>1, Zenon DEF KernelKept
  <2>9. EdgeKept'
    BY <1>1, <1>2, <2>3, ScreenSizes DEF EdgeKept, Types, Picture
  <2>10. \A p \in Pixels : p >= Rest => original'[p] = original[p]
    BY <1>1, <1>2, <2>3, ScreenSizes DEF Types, Picture
  <2>11. OriginalKept'
    BY <1>1, <2>1, <2>10, Zenon DEF OriginalKept
  <2>12. \A p \in Pixels : InSquare(p)' <=> InSquare(p)
    BY <2>1, Zenon DEF InSquare
  <2>13. \A p \in Pixels : p >= Rest =>
           backbuffer'[p] = IF InSquare(p)' THEN "square" ELSE shot'[p]
    BY <1>1, <2>1, <2>12, Zenon DEF CopyKept
  <2>14. ASSUME ~disturbed, NEW p \in Pixels, p < Whole, p < i' \/ pc' = "move"
         PROVE  screen'[p] = backbuffer[p]
    <3>1. p < i \/ p = i
      BY <1>2, <2>2, <2>14, <2>1, ScreenSizes
    <3>2. p < i => screen[p] = backbuffer[p]
      BY <1>1, <2>1, <2>14, Zenon DEF CopyKept
    <3> QED
      BY <1>1, <1>2, <2>3, <2>14, <3>1, <3>2, ScreenSizes DEF Types, Picture
  <2>15. CopyKept'
    BY <2>1, <2>2, <2>13, <2>14, Zenon DEF CopyKept
  <2> QED
    BY <2>7, <2>8, <2>9, <2>11, <2>15, Zenon DEF ScreenInv
<1>6. ASSUME Move PROVE ScreenInv'
  <2>1. /\ pc = "move" /\ pc' = "draw"
        /\ UNCHANGED <<screen, BACKBUFFER, text, logs, original, backbuffer, i, shot, disturbed>>
    BY <1>6, Zenon DEF Move, console
  <2>2. Heading(x', dx', Width) /\ Heading(y', dy', Height)
    BY <1>1, <1>6, BounceKeeps, ScreenSizes, Zenon DEF Move, Types
  <2>3. Types'
    BY <1>1, <2>1, <2>2, Zenon DEF Types
  <2>4. KernelKept' /\ EdgeKept' /\ OriginalKept'
    BY <1>1, <2>1 DEF KernelKept, EdgeKept, OriginalKept
  <2>5. CopyKept'
    BY <1>1, <2>1 DEF CopyKept
  <2> QED
    BY <2>3, <2>4, <2>5 DEF ScreenInv
<1> QED
  BY <1>3, <1>4, <1>5, <1>6, Zenon DEF dvd_bounce

\* The invariant holds throughout.
LEMMA ScreenInvariance == ScreenSafety => []ScreenInv
<1>1. ScreenInit => ScreenInv
  BY ScreenInitInv
<1>2. ScreenInv /\ [ScreenNext]_picture => ScreenInv'
  <2> SUFFICES ASSUME ScreenInv, [ScreenNext]_picture PROVE ScreenInv'
    BY Zenon
  <2>1. CASE UNCHANGED picture
    BY <2>1 DEF picture, console, square, ScreenInv, Types, KernelKept, OriginalKept,
                EdgeKept, CopyKept, Heading, InSquare
  <2> QED
    BY <2>1, LogInv, ProgramInv DEF ScreenNext
<1> QED
  BY <1>1, <1>2, PTL DEF ScreenSafety

------------------------------------------------------------------------------

\* Every variable keeps its type, and the square of dvd_bounce is always whole
\* on the screen.
THEOREM ScreenTypeCorrect == ScreenSafety => []ScreenTypeOK
<1>1. ScreenInv => ScreenTypeOK
  BY ScreenSizes, Zenon DEF ScreenInv, Types, ScreenTypeOK, Heading, Picture
<1> QED
  BY <1>1, ScreenInvariance, PTL

\* The copies of swapBuffers and dvd_bounce that overrun their mapping of the
\* frame buffer damage only what lies right behind it.
THEOREM ScreenBuffersKept == ScreenSafety => []BuffersKept
<1>1. ScreenInv => BuffersKept
  BY Zenon DEF ScreenInv, BuffersKept, KernelKept, OriginalKept, EdgeKept
<1> QED
  BY <1>1, ScreenInvariance, PTL

\* A frame of dvd_bounce that no handler disturbed is on the screen.
THEOREM ScreenFrameShown == ScreenSafety => []FrameShown
<1>1. ScreenInv => FrameShown
  <2> SUFFICES ASSUME ScreenInv, pc = "move", ~disturbed, NEW p \in Rest .. Whole - 1
               PROVE  screen[p] = IF InSquare(p) THEN "square" ELSE shot[p]
    BY Zenon DEF FrameShown
  <2>1. p \in Int /\ p >= Rest /\ p < Whole
    BY ScreenSizes
  <2>2. Whole <= Total /\ Rest >= 0
    BY WholeFits, Zenon
  <2>3. p \in Pixels
    BY <2>1, <2>2, ScreenSizes
  <2> QED
    BY <2>1, <2>3, Zenon DEF ScreenInv, CopyKept
<1> QED
  BY <1>1, ScreenInvariance, PTL

------------------------------------------------------------------------------
(* The program *)

\* Every step of the program is a call of UserHeap, or leaves the heap alone.
LEMMA HeapStep == [UserNext]_<<vars, picture>> => [UserHeapNext]_vars
<1> SUFFICES ASSUME [UserNext]_<<vars, picture>> PROVE [UserHeapNext]_vars
  OBVIOUS
<1>1. CASE AnyCall
  BY <1>1, Zenon DEF AnyCall
<1>2. CASE MallocBackbuffer
  <2>1. calls = 2 /\ calls' = calls + 1 /\ malloc(FB_SIZE)
    BY <1>2, Zenon DEF MallocBackbuffer, HasBuffers
  <2>2. 2 < MaxCalls /\ FB_SIZE \in Sizes
    BY UserProgramAssumption, UserHeapAssumption
  <2> QED
    BY <2>1, <2>2, Zenon DEF UserHeapNext
<1>3. CASE Paint \/ HandlerLogs
  BY <1>3 DEF Paint, HandlerLogs
<1>4. CASE UNCHANGED <<vars, picture>>
  BY <1>4
<1> QED
  BY <1>1, <1>2, <1>3, <1>4 DEF UserNext

\* Every step of the program is a step of Screen, or leaves the picture alone.
LEMMA ScreenStep == [UserNext]_<<vars, picture>> => [ScreenNext]_picture
<1> SUFFICES ASSUME [UserNext]_<<vars, picture>> PROVE [ScreenNext]_picture
  OBVIOUS
<1>1. CASE AnyCall
  BY <1>1 DEF AnyCall
<1>2. CASE Paint \/ MallocBackbuffer \/ HandlerLogs
  BY <1>2 DEF Paint, MallocBackbuffer, HandlerLogs, ScreenNext
<1>3. CASE UNCHANGED <<vars, picture>>
  BY <1>3
<1> QED
  BY <1>1, <1>2, <1>3 DEF UserNext

\* Whatever dvd_bounce draws meanwhile, its calls of malloc and mmap are those
\* that UserHeap allows: the theorems about UserHeapSpec hold of the program.
THEOREM ProgramUsesHeap == UserSpec => UserHeapSpec
<1>1. UserInit => UserHeapInit
  BY DEF UserInit
<1> QED
  BY <1>1, HeapStep, PTL DEF UserSpec, UserHeapSpec

\* Whatever the program calls, it draws as Screen allows: the theorems about
\* ScreenSafety hold of the program.
THEOREM ProgramDraws == UserSpec => ScreenSafety
<1>1. UserInit => ScreenInit
  BY DEF UserInit
<1> QED
  BY <1>1, ScreenStep, PTL DEF UserSpec, ScreenSafety
------------------------------------------------------------------------------
(* Where the buffers of dvd_bounce lie *)

FramePages == PagesFor(FB_SIZE)

\* The whole pages of the frame buffer, in bytes as Screen and as mmap count.
LEMMA FrameBytes == Whole * PixelSize = FramePages * PAGE_SIZE
<1> DEFINE q == Total \div PagePixels
           r == Total % PagePixels
<1>1. Total \in Nat /\ PagePixels \in Nat \ {0} /\ PAGE_SIZE \in Nat \ {0}
  BY ScreenSizes, ScreenAssumption, Constants
<1>2. q \in Int /\ r \in 0 .. PagePixels - 1 /\ Total = q * PagePixels + r
  BY <1>1, DivMod
<1>3. PixelSize \in Int /\ PAGE_SIZE = PixelSize * PagePixels
  <2>1. PAGE_SIZE % PagePixels = 0 /\ PAGE_SIZE \in Int
    BY <1>1, UserProgramAssumption
  <2> QED
    BY <1>1, <2>1, DivMod DEF PixelSize
<1>4. PixelSize \in Nat \ {0}
  BY <1>1, <1>3
<1>5. Whole = q * PagePixels
  BY DEF Whole
<1> HIDE DEF q, r
<1>6. FB_SIZE = q * PAGE_SIZE + r * PixelSize
  <2>1. (q * PagePixels + r) * PixelSize = q * (PixelSize * PagePixels) + r * PixelSize
    BY <1>1, <1>2, <1>4
  <2> QED
    BY <1>2, <1>3, <2>1 DEF FB_SIZE
<1>7. r * PixelSize \in 0 .. PAGE_SIZE - 1
  <2>1. r * PixelSize <= (PagePixels - 1) * PixelSize /\ r * PixelSize \in Nat
    BY <1>1, <1>2, <1>4, Order
  <2>2. (PagePixels - 1) * PixelSize = PAGE_SIZE - PixelSize
    BY <1>1, <1>3, <1>4
  <2> QED
    BY <1>1, <1>4, <2>1, <2>2
<1>8. FramePages = q
  BY <1>1, <1>2, <1>6, <1>7, DivModUnique DEF FramePages, PagesFor
<1>9. (q * PagePixels) * PixelSize = q * (PixelSize * PagePixels)
  BY <1>1, <1>2, <1>4
<1> QED
  BY <1>3, <1>5, <1>8, <1>9, Zenon

\* A request of k pages when all are free is served with the first ones.
LEMMA FirstPages ==
  ASSUME NEW k \in Nat \ {0}, free = Heap, Kernel!Serve(k), answer' # NULL
  PROVE  /\ answer' \in Heap /\ \A q \in Heap : answer' <= q
         /\ free' = Heap \ (answer' .. answer' + k - 1)
<1>1. PICK a : a = answer'
  BY Zenon
<1>2. /\ a \in Heap /\ a .. a + k - 1 \subseteq Heap /\ free' = Heap \ (a .. a + k - 1)
      /\ \A q \in Heap : q .. q + k - 1 \subseteq Heap => a <= q
  BY <1>1, Zenon DEF Kernel!Serve, Kernel!Fits
<1>3. a \in Nat /\ a + k - 1 \in Heap
  BY <1>2, HeapPage
<1>4. ASSUME NEW q \in Heap PROVE a <= q
  <2>1. q \in Nat /\ q .. a + k - 1 \subseteq Heap
    BY <1>3, HeapPage, UserProgramAssumption, Zenon
  <2>2. ~(a <= q) => q .. q + k - 1 \subseteq q .. a + k - 1
    BY <1>3, <2>1
  <2> QED
    BY <1>2, <2>1, <2>2, Zenon
<1> QED
  BY <1>1, <1>2, <1>4, Zenon

\* With only the first k pages in use, a request is served right behind them.
LEMMA PagesBehind ==
  ASSUME NEW k \in Nat \ {0}, NEW m \in Nat \ {0}, NEW p \in Heap, \A q \in Heap : p <= q,
         free = Heap \ (p .. p + k - 1), Kernel!Serve(m), answer' # NULL
  PROVE  answer' = p + k
<1>1. PICK a : a = answer'
  BY Zenon
<1>2. /\ a \in Heap /\ a .. a + m - 1 \subseteq free
      /\ \A q \in Heap : q .. q + m - 1 \subseteq free => a <= q
  BY <1>1, Zenon DEF Kernel!Serve, Kernel!Fits
<1>3. a \in Nat /\ p \in Nat /\ p <= a
  BY <1>2, HeapPage
<1>4. a \in free /\ a + m - 1 \in free
  BY <1>2, <1>3
<1>5. p + k <= a
  BY <1>3, <1>4
<1>6. p .. a + m - 1 \subseteq Heap
  BY <1>4, UserProgramAssumption
<1>7. p + k \in Heap
  BY <1>3, <1>5, <1>6
<1>8. p + k .. p + k + m - 1 \subseteq free
  BY <1>3, <1>5, <1>6
<1>9. a <= p + k
  BY <1>2, <1>7, <1>8, Zenon
<1> QED
  BY <1>1, <1>3, <1>5, <1>9
\* What is new carries the number of the call.
NewNumbered(new) == \A b \in new : b.call = calls

\* A block of the current area: the kernel is not asked.
FromArea == end # 0 /\ UNCHANGED <<free, refused>>

\* A block of new pages.
FromPages ==
  \E k \in Nat \ {0} :
    /\ Kernel!Serve(k)
    /\ answer' # NULL => refused' = refused
    /\ \A b \in blocks' \ blocks : answer' # NULL /\ b.at = answer' * PAGE_SIZE

\* Where malloc takes a block from.
LEMMA MallocPlaces ==
  ASSUME UserHeapInv, NEW n \in Sizes, malloc(n)
  PROVE  /\ buffers' = buffers /\ blocks \subseteq blocks' /\ NewNumbered(blocks' \ blocks)
         /\ FromArea \/ FromPages
<1>1. buffers' = buffers
  BY Zenon DEF malloc
<1>2. PICK m \in 1 .. Ints, at \in Nat : Asked(m, at)
  BY MallocAsks, Zenon
<1>3. /\ cur <= at /\ at <= end /\ Sub(end, at) = end - at /\ simple_malloc(m, at)
  BY <1>2, Zenon DEF Asked
<1>4. StaticsOK
  BY Zenon DEF UserHeapInv
<1>5. end \in Nat /\ m \in Nat /\ m > 0 /\ mmap_step \in 0 .. 12 /\ refused \in BOOLEAN
  BY <1>4, Constants DEF StaticsOK
<1>6. CASE Bump(m, at)
  <2>1. end # 0
    BY <1>3, <1>5, <1>6 DEF Bump
  <2>2. Record(at, m) /\ UNCHANGED <<free, refused>>
    BY <1>6 DEF Bump, kernel
  <2>3. blocks \subseteq blocks' /\ NewNumbered(blocks' \ blocks)
    BY <2>2 DEF Record, NewNumbered
  <2> QED
    BY <1>1, <2>1, <2>2, <2>3, Zenon DEF FromArea
<1>7. CASE Mapping(m)
  <2>1. PICK b \in 0 .. Longs - 1, to \in 0 .. Longs - 1, from \in Nat :
          from <= to /\ GrowMap(m, b, from, to)
    BY <1>7, Zenon DEF Mapping
  <2>2. Sub(to, from) \in Nat
    BY <2>1, Constants DEF Sub
  <2>3. PICK size : size = AreaSize(m, Sub(to, from))
    BY Zenon
  <2>4. PagesFor(size) \in Nat \ {0}
    BY <1>5, <2>2, <2>3, AreaSizes, Zenon
  <2>5. SysMmap(size) /\ Record(Address(answer'), m)
    BY <2>1, <2>3, Zenon DEF GrowMap
  <2>6. Kernel!Serve(PagesFor(size)) /\ (answer' # NULL => refused' = refused)
    BY <1>5, <2>5, Zenon DEF SysMmap
  <2>7. blocks \subseteq blocks' /\ NewNumbered(blocks' \ blocks)
    BY <2>5 DEF Record, NewNumbered
  <2>8. ASSUME NEW c \in blocks' \ blocks
        PROVE  answer' # NULL /\ c.at = answer' * PAGE_SIZE
    BY <2>5, <2>8 DEF Record, Address
  <2>9. FromPages
    BY <2>4, <2>6, <2>8, Zenon DEF FromPages
  <2> QED
    BY <1>1, <2>7, <2>9, Zenon
<1> QED
  BY <1>3, <1>6, <1>7, MallocServed, Zenon

\* What mmap leaves for its caller.
LEMMA MmapPlaces ==
  ASSUME UserHeapInv, NEW length \in Lengths, mmap(length)
  PROVE  /\ cur' = cur /\ end' = end /\ blocks' = blocks
         /\ Kernel!Serve(PagesFor(length)) /\ PagesFor(length) \in Nat \ {0}
         /\ answer' # NULL => refused' = refused
         /\ buffers \subseteq buffers' /\ NewNumbered(buffers' \ buffers)
         /\ \A f \in buffers' \ buffers :
              answer' # NULL /\ f.size = length /\ f.at = answer' * PAGE_SIZE
<1>1. /\ SysMmap(length) /\ cur' = cur /\ end' = end /\ blocks' = blocks
      /\ buffers' = (IF answer' = NULL THEN buffers
                     ELSE buffers \cup {[call |-> calls, at |-> Address(answer'), size |-> length]})
  BY DEF mmap, statics
<1>2. refused \in BOOLEAN
  BY DEF UserHeapInv, StaticsOK
<1>3. Kernel!Serve(PagesFor(length)) /\ (answer' # NULL => refused' = refused)
  BY <1>1, <1>2, Zenon DEF SysMmap
<1>4. PagesFor(length) \in Nat \ {0}
  BY FrameLength, Zenon
<1>5. buffers \subseteq buffers' /\ NewNumbered(buffers' \ buffers)
  BY <1>1 DEF NewNumbered
<1>6. ASSUME NEW f \in buffers' \ buffers
      PROVE  answer' # NULL /\ f.size = length /\ f.at = answer' * PAGE_SIZE
  BY <1>1, <1>6 DEF Address
<1> QED
  BY <1>1, <1>3, <1>4, <1>5, <1>6, Zenon

\* What other calls return is no answer to call c.
LEMMA ServedBefore ==
  ASSUME NEW old, NEW now, NEW c, old \subseteq now, \A b \in now \ old : b.call # c
  PROVE  Served(now, c) = Served(old, c)
BY DEF Served

------------------------------------------------------------------------------

\* The first request of dvd_bounce gets the first pages of the heap, the second
\* the pages behind them: nothing is in use then, and no area is open.
FramePlaced ==
  /\ cur = 0 /\ end = 0 /\ refused = FALSE /\ blocks = {}
  /\ \E p \in Heap : /\ \A q \in Heap : p <= q
                     /\ free = Heap \ (p .. p + FramePages - 1)
                     /\ \A f \in Served(buffers, 0) : f.at = p * PAGE_SIZE

OriginalPlaced ==
  \A f \in Served(buffers, 0), o \in Served(blocks, 1) : o.at = f.at + FramePages * PAGE_SIZE

PlaceInv ==
  /\ calls = 0 => /\ free = Heap /\ cur = 0 /\ end = 0 /\ refused = FALSE
                  /\ blocks = {} /\ buffers = {}
  /\ calls = 1 /\ Served(buffers, 0) # {} => FramePlaced
  /\ OriginalPlaced
  /\ HasBuffers(2) \/ HasBuffers(3) => refused = FALSE
\* Before the first call.
LEMMA PlaceInit == UserHeapInit => PlaceInv
<1> SUFFICES ASSUME UserHeapInit PROVE PlaceInv
  OBVIOUS
<1>1. /\ calls = 0 /\ free = Heap /\ cur = 0 /\ end = 0 /\ refused = FALSE
      /\ blocks = {} /\ buffers = {}
  BY DEF UserHeapInit, Kernel!Init
<1>2. calls # 1 /\ calls # 2 /\ calls # 3
  BY <1>1
<1>3. OriginalPlaced
  BY <1>1, Zenon DEF OriginalPlaced, Served
<1> QED
  BY <1>1, <1>2, <1>3, Zenon DEF PlaceInv, HasBuffers

\* The first call.
LEMMA FirstCall ==
  ASSUME UserHeapInv, PlaceInv, calls = 0, calls' = 1,
         \/ \E n \in Sizes : malloc(n)
         \/ \E l \in Lengths : mmap(l)
  PROVE  PlaceInv'
<1>1. /\ free = Heap /\ cur = 0 /\ end = 0 /\ refused = FALSE /\ blocks = {} /\ buffers = {}
  BY Zenon DEF PlaceInv
<1>2. calls' # 0 /\ calls' # 2 /\ calls' # 3
  OBVIOUS
<1>3. CASE Served(buffers', 0) = {}
  BY <1>2, <1>3, Zenon DEF PlaceInv, OriginalPlaced, HasBuffers, Served
<1>4. ASSUME NEW n \in Sizes, malloc(n) PROVE Served(buffers', 0) = {}
  BY <1>1, <1>4, MallocPlaces, Zenon DEF Served
<1>5. ASSUME NEW l \in Lengths, mmap(l), Served(buffers', 0) # {} PROVE PlaceInv'
  <2>1. /\ cur' = 0 /\ end' = 0 /\ blocks' = {}
        /\ Kernel!Serve(PagesFor(l)) /\ PagesFor(l) \in Nat \ {0}
        /\ answer' # NULL => refused' = FALSE
        /\ \A f \in buffers' : answer' # NULL /\ f.size = l /\ f.at = answer' * PAGE_SIZE
    BY <1>1, <1>5, MmapPlaces, Zenon
  <2>2. l = FB_SIZE /\ answer' # NULL
    BY <1>5, <2>1, Zenon DEF Served
  <2>3. PagesFor(l) = FramePages
    BY <2>2, Zenon DEF FramePages
  <2>4. PICK p : p = answer'
    BY Zenon
  <2>5. /\ p \in Heap /\ \A q \in Heap : p <= q
        /\ free' = Heap \ (p .. p + FramePages - 1)
    BY <1>1, <2>1, <2>2, <2>3, <2>4, FirstPages, Zenon
  <2>6. \A f \in Served(buffers', 0) : f.at = p * PAGE_SIZE
    BY <2>1, <2>4, Zenon DEF Served
  <2>7. FramePlaced'
    BY <2>1, <2>2, <2>5, <2>6, Zenon DEF FramePlaced, Served, FramePages, PagesFor
  <2>8. OriginalPlaced'
    BY <2>1, Zenon DEF OriginalPlaced, Served
  <2> QED
    BY <1>2, <2>7, <2>8, Zenon DEF PlaceInv, HasBuffers
<1> QED
  BY <1>3, <1>4, <1>5, Zenon

\* The second call.
LEMMA SecondCall ==
  ASSUME UserHeapInv, PlaceInv, calls = 1, calls' = 2,
         \/ \E n \in Sizes : malloc(n)
         \/ \E l \in Lengths : mmap(l)
  PROVE  PlaceInv'
<1>1. calls' # 0 /\ calls' # 1 /\ calls' # 3 /\ 1 \in 1 .. 2 - 1 /\ calls # 0
  OBVIOUS
<1>2. Served(buffers', 0) = Served(buffers, 0)
  <2>1. buffers \subseteq buffers' /\ NewNumbered(buffers' \ buffers)
    BY MallocPlaces, MmapPlaces, Zenon DEF NewNumbered
  <2>2. \A b \in buffers' \ buffers : b.call # 0
    BY <1>1, <2>1, Zenon DEF NewNumbered
  <2> QED
    BY <2>1, <2>2, ServedBefore, Zenon
<1>3. CASE Served(buffers', 0) = {} \/ Served(blocks', 1) = {}
  BY <1>1, <1>3, Zenon DEF PlaceInv, OriginalPlaced, HasBuffers, Served
<1>4. ASSUME Served(buffers', 0) # {}, Served(blocks', 1) # {} PROVE PlaceInv'
  <2>1. FramePlaced
    BY <1>2, <1>4, Zenon DEF PlaceInv
  <2>2. end = 0 /\ refused = FALSE /\ blocks = {} /\ blocks' # {}
    BY <1>4, <2>1, Zenon DEF FramePlaced, Served
  <2>3. ~\E l \in Lengths : mmap(l)
    BY <2>2, MmapPlaces, Zenon
  <2>4. PICK k \in Nat \ {0} :
          /\ Kernel!Serve(k)
          /\ answer' # NULL => refused' = refused
          /\ \A b \in blocks' \ blocks : answer' # NULL /\ b.at = answer' * PAGE_SIZE
    BY <2>2, <2>3, MallocPlaces, Zenon DEF FromArea, FromPages
  <2>5. PICK p \in Heap : /\ \A q \in Heap : p <= q
                          /\ free = Heap \ (p .. p + FramePages - 1)
                          /\ \A f \in Served(buffers, 0) : f.at = p * PAGE_SIZE
    BY <2>1, Zenon DEF FramePlaced
  <2>6. answer' # NULL /\ refused' = FALSE
    BY <2>2, <2>4, Zenon
  <2>7. FramePages \in Nat \ {0} /\ PAGE_SIZE \in Nat /\ p \in Nat
    <3>1. FB_SIZE \in Lengths
      BY UserProgramAssumption, Zenon
    <3>2. FramePages \in Nat \ {0}
      BY <3>1, FrameLength, Zenon DEF FramePages
    <3> QED
      BY <3>2, HeapPage, Constants
  <2>8. answer' = p + FramePages
    BY <2>4, <2>5, <2>6, <2>7, PagesBehind, Zenon
  <2>9. (p + FramePages) * PAGE_SIZE = p * PAGE_SIZE + FramePages * PAGE_SIZE
    BY <2>7, Distribute
  <2>10. OriginalPlaced'
    <3> SUFFICES ASSUME NEW f \in Served(buffers', 0), NEW o \in Served(blocks', 1)
                 PROVE  o.at = f.at + FramePages * PAGE_SIZE
      BY Zenon DEF OriginalPlaced, Served, FramePages, PagesFor
    <3>1. f.at = p * PAGE_SIZE
      BY <1>2, <2>5, Zenon
    <3>2. o \in blocks' \ blocks
      BY <2>2, Zenon DEF Served
    <3> QED
      BY <2>4, <2>8, <2>9, <3>1, <3>2, Zenon
  <2> QED
    BY <1>1, <2>6, <2>10, Zenon DEF PlaceInv
<1> QED
  BY <1>3, <1>4, Zenon

\* A later call.
LEMMA LaterCall ==
  ASSUME UserHeapInv, PlaceInv, calls \in Nat, calls > 1, calls' = calls + 1,
         \/ \E n \in Sizes : malloc(n)
         \/ \E l \in Lengths : mmap(l)
  PROVE  PlaceInv'
<1>1. calls # 0 /\ calls # 1 /\ calls' # 0 /\ calls' # 1 /\ calls' # 2 /\ (calls' = 3 => calls = 2)
  OBVIOUS
<1>2. /\ buffers \subseteq buffers' /\ NewNumbered(buffers' \ buffers)
      /\ blocks \subseteq blocks' /\ NewNumbered(blocks' \ blocks)
  BY MallocPlaces, MmapPlaces, Zenon DEF NewNumbered
<1>3. Served(buffers', 0) = Served(buffers, 0) /\ Served(blocks', 1) = Served(blocks, 1)
  <2>1. (\A b \in buffers' \ buffers : b.call # 0) /\ (\A b \in blocks' \ blocks : b.call # 1)
    BY <1>1, <1>2, Zenon DEF NewNumbered
  <2> QED
    BY <1>2, <2>1, ServedBefore, Zenon
<1>4. OriginalPlaced'
  <2>1. OriginalPlaced
    BY Zenon DEF PlaceInv
  <2> SUFFICES ASSUME NEW f \in Served(buffers', 0), NEW o \in Served(blocks', 1)
               PROVE  o.at = f.at + FramePages * PAGE_SIZE
    BY Zenon DEF OriginalPlaced, Served, FramePages, PagesFor
  <2> QED
    BY <1>3, <2>1, Zenon DEF OriginalPlaced
<1>5. ASSUME HasBuffers(3)' PROVE refused' = FALSE
  <2>1. /\ calls = 2 /\ Served(buffers, 0) # {} /\ Served(blocks, 1) # {}
        /\ Served(blocks', 2) # {}
    <3>1. 1 \in 1 .. 3 - 1 /\ 2 \in 1 .. 3 - 1
      OBVIOUS
    <3> QED
      BY <1>1, <1>3, <1>5, <3>1, Zenon DEF HasBuffers, Served
  <2>2. \A c \in 1 .. 2 - 1 : c = 1
    OBVIOUS
  <2>3. refused = FALSE
    BY <2>1, <2>2, Zenon DEF PlaceInv, HasBuffers
  <2>4. PICK o \in blocks' : o.call = 2
    BY <2>1, Zenon DEF Served
  <2>5. o \notin blocks
    <3>1. \A b \in blocks : b.call \in Nat /\ b.call < calls
      BY BlockFacts, Zenon DEF UserHeapInv
    <3> QED
      BY <2>1, <2>4, <3>1
  <2>6. ~\E l \in Lengths : mmap(l)
    BY <2>4, <2>5, MmapPlaces, Zenon
  <2> QED
    BY <2>3, <2>4, <2>5, <2>6, MallocPlaces, Zenon DEF FromArea, FromPages
<1> QED
  BY <1>1, <1>4, <1>5, Zenon DEF PlaceInv, HasBuffers

\* Every call keeps the buffers in their places.
LEMMA PlaceStep ==
  ASSUME UserHeapInv, PlaceInv, [UserHeapNext]_vars
  PROVE  PlaceInv'
<1>1. CASE UNCHANGED vars
  <2>1. /\ calls' = calls /\ free' = free /\ cur' = cur /\ end' = end /\ refused' = refused
        /\ blocks' = blocks /\ buffers' = buffers
    BY <1>1 DEF vars, statics, kernel
  <2> QED
    BY <2>1, Zenon DEF PlaceInv, FramePlaced, OriginalPlaced, HasBuffers, Served, FramePages
<1>2. CASE UserHeapNext
  <2>1. /\ calls' = calls + 1
        /\ \/ \E n \in Sizes : malloc(n)
           \/ \E l \in Lengths : mmap(l)
    BY <1>2, Zenon DEF UserHeapNext
  <2>2. calls \in Nat
    BY Zenon DEF UserHeapInv, StaticsOK
  <2>3. \/ calls = 0 /\ calls' = 1
        \/ calls = 1 /\ calls' = 2
        \/ calls > 1
    BY <2>1, <2>2
  <2> QED
    BY <2>1, <2>2, <2>3, FirstCall, SecondCall, LaterCall, Zenon
<1> QED
  BY <1>1, <1>2, Zenon
\* With every buffer in its place, what dvd_bounce draws with is mapped and apart.
LEMMA PlacesSuffice ==
  ASSUME UserHeapInv, PlaceInv
  PROVE  BuffersPlaced
<1> SUFFICES ASSUME Running, NEW f \in Served(buffers, 0), NEW o \in Served(blocks, 1)
             PROVE  /\ o.at = f.at + Whole * PixelSize /\ Mapped(o)
                    /\ \A b \in Served(blocks, 2) : Mapped(b) /\ Apart(b, f) /\ Apart(b, o)
  BY Zenon DEF BuffersPlaced
<1>1. refused = FALSE /\ OriginalPlaced
  BY Zenon DEF PlaceInv, Running
<1>2. o.at = f.at + FramePages * PAGE_SIZE
  BY <1>1, Zenon DEF OriginalPlaced
<1>3. KernelOK /\ (\A b \in blocks : BlockOK(b)) /\ (\A g \in buffers : BufferOK(g)) /\ BlocksApart
  BY ApartBlocks, Zenon DEF UserHeapInv
<1>4. ASSUME NEW b \in blocks PROVE Mapped(b)
  BY <1>1, <1>3, Zenon DEF BlockOK, Mapped
<1>5. o \in blocks /\ o.call = 1 /\ o.size = FB_SIZE /\ f \in buffers /\ f.size = FB_SIZE
  BY Zenon DEF Served
<1>6. ASSUME NEW b \in Served(blocks, 2)
      PROVE  Mapped(b) /\ Apart(b, f) /\ Apart(b, o)
  <2>1. b \in blocks /\ b.call # o.call
    <3>1. b \in blocks /\ b.call = 2
      BY Zenon DEF Served
    <3> QED
      BY <1>5, <3>1
  <2>2. Mapped(b) /\ Apart(b, o)
    BY <1>3, <1>4, <1>5, <2>1, Zenon DEF BlocksApart
  <2>3. /\ b.at + b.size <= f.at \/ f.at + FramePages * PAGE_SIZE <= b.at
        /\ FramePages * PAGE_SIZE \in Nat
    BY <1>3, <1>5, <2>1, BlockAndBuffer, Zenon DEF FramePages
  <2>4. b.at \in Nat /\ b.size \in Nat \ {0} /\ o.size \in Nat /\ f.at \in Nat
    BY <1>3, <1>5, <2>1, BlockFacts, BufferSpan, Zenon
  <2>5. b.at + b.size <= o.at \/ o.at + o.size <= b.at
    BY <2>2, Zenon DEF Apart
  <2>6. b.at + b.size <= f.at \/ f.at + f.size <= b.at
    BY <1>2, <1>5, <2>3, <2>4, <2>5
  <2> QED
    BY <2>2, <2>6, Zenon DEF Apart
<1> QED
  BY <1>2, <1>4, <1>5, <1>6, FrameBytes, Zenon

\* Whenever dvd_bounce draws, original begins where the whole pages of the
\* frame buffer end, and backbuffer shares no byte with either.
THEOREM ProgramBuffersPlaced == UserSpec => []BuffersPlaced
<1>1. UserHeapSpec => []PlaceInv
  BY HeapInvariance, PlaceInit, PlaceStep, PTL DEF UserHeapSpec
<1> QED
  BY <1>1, ProgramUsesHeap, HeapInvariance, PlacesSuffice, PTL
=============================================================================
