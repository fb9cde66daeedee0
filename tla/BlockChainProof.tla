-------------------------- MODULE BlockChainProof --------------------------
(***************************************************************************)
(* Proofs about BlockChain: the list of free blocks is well formed between *)
(* calls, every page of the heap has one owner, and first fit on the list  *)
(* implements AddressSpace.                                                *)
(*                                                                         *)
(* Which nodes the list reaches is not said by following links.  The       *)
(* blocks in use are separated, so their addresses order them, and a link  *)
(* is right when it names the neighbour in that order.                     *)
(***************************************************************************)
EXTENDS BlockChain, TLAPS

Before(b, c) == node[b].start < node[c].start

\* A block has pages, they are pages of the heap, and it touches no other one.
BlocksOK ==
  \A b \in used :
    /\ node[b].size > 0
    /\ HEAP_START <= node[b].start
    /\ EndOf(b) <= HEAP_START + MAX_HEAP_SIZE
    /\ \A c \in used : c # b => EndOf(b) < node[c].start \/ EndOf(c) < node[b].start

\* The links name the neighbours in the order of addresses.
NextOK(b) ==
  IF node[b].next = NULL
  THEN \A c \in used : ~Before(b, c)
  ELSE /\ node[b].next \in used
       /\ Before(b, node[b].next)
       /\ \A c \in used : ~(Before(b, c) /\ Before(c, node[b].next))

PrevOK(b) ==
  IF node[b].prev = NULL
  THEN \A c \in used : ~Before(c, b)
  ELSE /\ node[b].prev \in used
       /\ Before(node[b].prev, b)
       /\ \A c \in used : ~(Before(node[b].prev, c) /\ Before(c, b))

LinksOK == \A b \in used : NextOK(b) /\ PrevOK(b)

\* The head is the first block, except from the end of vmm_free_pages until
\* print_blockchain has gone back to the first block.
HeadOK ==
  /\ blockchain = NULL => used = {}
  /\ blockchain # NULL => blockchain \in used
  /\ pc # "rewind" => \A c \in used : ~Before(c, blockchain)

\* The spans of the callers are spans of the heap, apart from each other and
\* from the free blocks.
SpansOK ==
  /\ held \subseteq [start : Nat, pages : Nat]
  /\ \A s \in held :
       /\ s.pages > 0
       /\ HEAP_START <= s.start
       /\ s.start + s.pages <= HEAP_START + MAX_HEAP_SIZE
       /\ \A t \in held : t # s => s.start + s.pages <= t.start \/ t.start + t.pages <= s.start
       /\ \A b \in used : s.start + s.pages <= node[b].start \/ EndOf(b) <= s.start

\* No page is lost.
CoverOK ==
  IF first_alloc
  THEN used = {} /\ held = {} /\ pc = "idle"
  ELSE \A p \in Heap :
         \/ \E b \in used : node[b].start <= p /\ p < EndOf(b)
         \/ \E s \in held : s.start <= p /\ p < s.start + s.pages

\* What the call in progress knows: the blocks that the search has passed are
\* too short, and the walk stays on the left of the span that is freed.
CallOK ==
  /\ pc = "search" =>
       /\ req.pages \in Sizes
       /\ cur # NULL => cur \in used
       /\ \A b \in used : (cur = NULL \/ Before(b, cur)) => node[b].size < req.pages
  /\ pc \in {"walk", "link"} => req \in held /\ blockchain # NULL
  /\ pc = "walk" => cur \in used /\ node[cur].start < req.start
  /\ pc = "link" =>
       IF cur = NULL
       THEN node[blockchain].start > req.start
       ELSE /\ cur \in used
            /\ node[cur].start < req.start
            /\ node[cur].next # NULL => node[node[cur].next].start > req.start
  /\ pc = "rewind" => cur \in used

ChainInv ==
  /\ ChainTypeOK
  /\ BlocksOK
  /\ LinksOK
  /\ HeadOK
  /\ SpansOK
  /\ CoverOK
  /\ CallOK

------------------------------------------------------------------------------
(* ChainInv is inductive. *)

\* The fields of a node have the types that the arithmetic below needs.
LEMMA NodeTypes ==
  ASSUME ChainTypeOK
  PROVE  \A b \in Nodes :
           /\ b # NULL
           /\ node[b].start \in Nat /\ node[b].size \in Nat /\ EndOf(b) \in Nat
           /\ node[b].prev \in Nodes \cup {NULL} /\ node[b].next \in Nodes \cup {NULL}
BY BlockChainAssumption DEF ChainTypeOK, EndOf, NULL

\* The addresses order the blocks strictly and totally.
LEMMA BlockOrder ==
  ASSUME ChainInv
  PROVE  /\ \A b, c \in used : /\ b # c => Before(b, c) \/ Before(c, b)
                               /\ ~(Before(b, c) /\ Before(c, b))
         /\ \A b, c, d \in used : Before(b, c) /\ Before(c, d) => Before(b, d)
         /\ \A b \in used : b # NULL /\ NextOK(b) /\ PrevOK(b)
<1>1. \A b \in used : /\ b # NULL /\ node[b].start \in Nat /\ node[b].size \in Nat
                      /\ node[b].size > 0
  BY NodeTypes DEF ChainInv, ChainTypeOK, BlocksOK
<1>2. \A b, c \in used : b # c => EndOf(b) < node[c].start \/ EndOf(c) < node[b].start
  BY DEF ChainInv, BlocksOK
<1>3. \A b, c \in used : b # c => Before(b, c) \/ Before(c, b)
  BY <1>1, <1>2 DEF EndOf, Before
<1>4. /\ \A b, c \in used : ~(Before(b, c) /\ Before(c, b))
      /\ \A b, c, d \in used : Before(b, c) /\ Before(c, d) => Before(b, d)
  BY <1>1 DEF Before
<1> QED BY <1>1, <1>3, <1>4 DEF ChainInv, LinksOK

\* The two links are inverse to each other.
LEMMA LinksInverse ==
  ASSUME ChainInv, NEW b \in used
  PROVE  /\ node[b].next # NULL => node[b].next \in used /\ node[node[b].next].prev = b
         /\ node[b].prev # NULL => node[b].prev \in used /\ node[node[b].prev].next = b
<1>1. ASSUME node[b].next # NULL
      PROVE  node[b].next \in used /\ node[node[b].next].prev = b
  <2>1. PICK n : n = node[b].next
    OBVIOUS
  <2>2. n \in used /\ Before(b, n) /\ \A c \in used : ~(Before(b, c) /\ Before(c, n))
    BY <1>1, <2>1, BlockOrder DEF NextOK
  <2>3. PrevOK(n)
    BY <2>2, BlockOrder
  <2>4. node[n].prev \in used /\ Before(node[n].prev, n) /\ ~Before(node[n].prev, b)
    BY <2>2, <2>3 DEF PrevOK
  <2>5. node[n].prev = b
    BY <2>2, <2>4, BlockOrder
  <2> QED BY <2>1, <2>2, <2>5
<1>2. ASSUME node[b].prev # NULL
      PROVE  node[b].prev \in used /\ node[node[b].prev].next = b
  <2>1. PICK n : n = node[b].prev
    OBVIOUS
  <2>2. n \in used /\ Before(n, b) /\ \A c \in used : ~(Before(n, c) /\ Before(c, b))
    BY <1>2, <2>1, BlockOrder DEF PrevOK
  <2>3. NextOK(n)
    BY <2>2, BlockOrder
  <2>4. node[n].next \in used /\ Before(n, node[n].next) /\ ~Before(b, node[n].next)
    BY <2>2, <2>3 DEF NextOK
  <2>5. node[n].next = b
    BY <2>2, <2>4, BlockOrder
  <2> QED BY <2>1, <2>2, <2>5
<1> QED BY <1>1, <1>2

\* Nothing is free and nothing is owned before the first call.
LEMMA InitChain == Init => ChainInv
<1> SUFFICES ASSUME Init PROVE ChainInv
  OBVIOUS
<1>1. ChainTypeOK
  BY BlockChainAssumption DEF Init, ChainTypeOK, Span, NoBlock, Block, NULL
<1>2. BlocksOK /\ LinksOK /\ HeadOK /\ SpansOK /\ CoverOK /\ CallOK
  BY DEF Init, BlocksOK, LinksOK, HeadOK, SpansOK, CoverOK, CallOK, NULL
<1> QED
  BY <1>1, <1>2 DEF ChainInv

\* The steps that only move the local variables of a call: the list, the spans
\* and the head stay as they are.
LEMMA WalkSteps ==
  ASSUME ChainInv,
         \/ \E pages \in Sizes : MmapNoBlocks(pages) \/ MmapCall(pages)
         \/ SearchNext \/ SearchFail
         \/ \E s \in held : FreeCall(s)
         \/ WalkLeft \/ Rewind
  PROVE  ChainInv'
<1> USE DEF ChainInv
<1>1. UNCHANGED <<node, used, first_alloc, held>>
  BY Zenon DEF MmapNoBlocks, MmapCall, SearchNext, SearchFail, FreeCall, WalkLeft, Rewind
<1>2. BlocksOK' /\ LinksOK' /\ SpansOK'
  BY <1>1 DEF BlocksOK, LinksOK, SpansOK, EndOf, NextOK, PrevOK, Before
<1>3. ChainTypeOK' /\ HeadOK' /\ CoverOK' /\ CallOK'
  <2>1. CASE \E pages \in Sizes : MmapNoBlocks(pages)
    BY <2>1 DEF MmapNoBlocks, ChainTypeOK, HeadOK, CoverOK, CallOK, EndOf, Before
  <2>2. CASE \E pages \in Sizes : MmapCall(pages)
    <3> PICK pages \in Sizes : MmapCall(pages)
      BY <2>2
    <3>1. ChainTypeOK'
      BY BlockChainAssumption DEF MmapCall, ChainTypeOK, Span, NULL
    <3>2. HeadOK' /\ CoverOK'
      BY DEF MmapCall, HeadOK, CoverOK, EndOf, Before
    <3>3. CallOK'
      BY DEF MmapCall, HeadOK, CallOK, Before, Span
    <3> QED BY <3>1, <3>2, <3>3
  <2>3. CASE SearchNext
    <3>0. cur \in used
      BY <2>3 DEF SearchNext, CallOK
    <3>1. ChainTypeOK'
      BY <2>3, <3>0, NodeTypes, Zenon DEF SearchNext, ChainTypeOK
    <3>2. HeadOK' /\ CoverOK'
      BY <2>3, Zenon DEF SearchNext, HeadOK, CoverOK, EndOf, Before
    <3>3. CallOK'
      BY <2>3, <3>0, NodeTypes DEF SearchNext, CallOK, Before, Enough, LinksOK, NextOK, BlocksOK, EndOf, ChainTypeOK
    <3> QED BY <3>1, <3>2, <3>3
  <2>4. CASE SearchFail
    BY <2>4 DEF SearchFail, Return, ChainTypeOK, HeadOK, CoverOK, CallOK, EndOf, Before, Span, NULL
  <2>5. CASE \E s \in held : FreeCall(s)
    <3> PICK s \in held : FreeCall(s)
      BY <2>5
    <3>0. blockchain \in used /\ s \in [start : Nat, pages : Nat]
      BY DEF FreeCall, HeadOK, SpansOK
    <3>1. ChainTypeOK'
      BY <3>0, Zenon DEF FreeCall, ChainTypeOK
    <3>2. HeadOK' /\ CoverOK'
      BY DEF FreeCall, HeadOK, CoverOK, EndOf, Before
    <3>3. node[blockchain].start # s.start
      BY <3>0, NodeTypes DEF SpansOK, BlocksOK, ChainTypeOK, EndOf
    <3>4. CallOK'
      BY <3>0, <3>3, NodeTypes DEF FreeCall, CallOK, Before, NULL, ChainTypeOK
    <3> QED BY <3>1, <3>2, <3>4
  <2>6. CASE WalkLeft
    <3>0. /\ cur \in used /\ req \in held /\ node[cur].start < req.start
          /\ node[cur].next # NULL => node[cur].next \in used
          /\ pc = "walk" /\ cur # NULL
      BY <2>6, NodeTypes DEF WalkLeft, CallOK, LinksOK, NextOK, ChainTypeOK
    <3>1. ChainTypeOK'
      BY <2>6, <3>0, NodeTypes, Zenon DEF WalkLeft, ChainTypeOK
    <3>2. HeadOK' /\ CoverOK'
      BY <2>6, <3>0 DEF WalkLeft, HeadOK, CoverOK, EndOf, Before
    <3>3. node[cur].next # NULL => node[node[cur].next].start # req.start
      BY <3>0, NodeTypes DEF SpansOK, BlocksOK, ChainTypeOK, EndOf
    <3>4. CallOK'
      BY <2>6, <3>0, <3>3, NodeTypes DEF WalkLeft, CallOK, Before, ChainTypeOK
    <3> QED BY <3>1, <3>2, <3>4
  <2>7. CASE Rewind
    <3>0. cur \in used /\ cur # NULL /\ pc = "rewind"
      BY <2>7, NodeTypes, Zenon DEF Rewind, CallOK, ChainTypeOK
    <3>1. ChainTypeOK'
      BY <2>7, <3>0, NodeTypes DEF Rewind, Return, ChainTypeOK, Span, NULL
    <3>2. HeadOK' /\ CoverOK'
      BY <2>7, <3>0 DEF Rewind, Return, HeadOK, CoverOK, EndOf, Before, LinksOK, PrevOK
    <3>3. CallOK'
      BY <2>7, <3>0 DEF Rewind, Return, CallOK, Before, LinksOK, PrevOK
    <3> QED BY <3>1, <3>2, <3>3
  <2> QED BY <2>1, <2>2, <2>3, <2>4, <2>5, <2>6, <2>7, Zenon
<1> QED BY <1>2, <1>3

\* The first call: the first pages of the heap go to kmalloc, the rest is one
\* block.
LEMMA BootstrapStep ==
  ASSUME ChainInv, NEW pages \in Sizes, MmapBootstrap(pages)
  PROVE  ChainInv'
<1> USE DEF ChainInv
<1> PICK n \in Nodes \ used :
       /\ blockchain' = n
       /\ used' = used \cup {n}
       /\ node' = [node EXCEPT ![n] =
            Block(HEAP_START + BasePages, MAX_HEAP_SIZE - BasePages, NULL, NULL)]
       /\ cur' = n
  BY Zenon DEF MmapBootstrap
<1>1. /\ used' = {n} /\ n # NULL /\ held' = {Span(HEAP_START, BasePages)}
      /\ first_alloc' = FALSE /\ pc' = "search" /\ req' = Span(NULL, pages) /\ ret' = HEAP_START
  BY BlockChainAssumption DEF MmapBootstrap, CoverOK, NULL
<1>2. /\ node'[n] = [start |-> HEAP_START + BasePages, size |-> MAX_HEAP_SIZE - BasePages,
                     prev |-> NULL, next |-> NULL]
      /\ node' \in [Nodes -> [start : Nat, size : Nat,
                         prev : Nodes \cup {NULL}, next : Nodes \cup {NULL}]]
  BY BlockChainAssumption DEF ChainTypeOK, Block
<1>3. HEAP_START \in Heap
  BY BlockChainAssumption DEF Heap
<1>4. ChainTypeOK'
  <2>1. req' \in [start : Nat, pages : Nat]
    BY <1>1, BlockChainAssumption DEF Span, NULL
  <2>2. \A s \in held' : s.start \in Heap /\ s.pages \in Nat \ {0}
    BY <1>1, <1>3, BlockChainAssumption DEF Span
  <2> QED BY <1>1, <1>2, <1>3, <2>1, <2>2, Zenon DEF ChainTypeOK
<1>5. BlocksOK'
  BY <1>1, <1>2, BlockChainAssumption DEF BlocksOK, EndOf
<1>9. LinksOK' /\ HeadOK'
  <2>1. ~Before(n, n)'
    BY <1>2, BlockChainAssumption DEF Before
  <2> QED BY <1>1, <1>2, <2>1 DEF LinksOK, HeadOK, NextOK, PrevOK
<1>6. SpansOK'
  BY <1>1, <1>2, BlockChainAssumption DEF SpansOK, EndOf, Span
<1>7. CoverOK'
  BY <1>1, <1>2, BlockChainAssumption DEF CoverOK, EndOf, Span, Heap
<1>8. CallOK'
  BY <1>1, <1>2, BlockChainAssumption DEF CallOK, EndOf, Span, Before
<1> QED BY <1>4, <1>5, <1>6, <1>7, <1>8, <1>9

\* The search has found a block that is long enough.
LEMMA FoundStep ==
  ASSUME ChainInv, SearchFound
  PROVE  ChainInv'
<1> USE DEF ChainInv
<1> DEFINE n == req.pages
<1>1. /\ cur \in used /\ cur \in Nodes /\ n \in Nat /\ n > 0 /\ node[cur].size >= n
      /\ first_alloc' = first_alloc /\ ~first_alloc /\ pc = "search" /\ pc' = "idle"
      /\ cur' = NULL /\ req' = Span(0, 0) /\ ret' = node[cur].start
      /\ held' = held \cup {Span(node[cur].start, n)}
      /\ used \subseteq Nodes
  BY BlockChainAssumption DEF SearchFound, Return, Enough, CallOK, CoverOK, ChainTypeOK
<1>2. /\ node[cur].start \in Heap
      /\ \A b \in used : node[b].start \in Nat /\ node[b].size \in Nat /\ EndOf(b) \in Nat
  BY <1>1, NodeTypes, BlockChainAssumption DEF Heap, BlocksOK, EndOf
<1> DEFINE shrunk == Shrink(node, cur, n)
           Records == [start : Nat, size : Nat, prev : Nodes \cup {NULL}, next : Nodes \cup {NULL}]
<1>3. /\ shrunk \in [Nodes -> Records]
      /\ \A b \in Nodes : b # cur => shrunk[b] = node[b]
      /\ shrunk[cur].start = node[cur].start + n /\ shrunk[cur].size = node[cur].size - n
      /\ shrunk[cur].prev = node[cur].prev /\ shrunk[cur].next = node[cur].next
  <2>1. node \in [Nodes -> Records] /\ node[cur] \in Records
    BY <1>1 DEF ChainTypeOK
  <2>2. \A b \in Nodes : b # cur => shrunk[b] = node[b]
    BY <2>1 DEF Shrink
  <2>3. /\ shrunk[cur].start = node[cur].start + n /\ shrunk[cur].size = node[cur].size - n
        /\ shrunk[cur].prev = node[cur].prev /\ shrunk[cur].next = node[cur].next
    BY <2>1, <1>1 DEF Shrink
  <2>4. shrunk[cur] \in Records
    <3>1. node[cur].start + n \in Nat /\ node[cur].size - n \in Nat
      BY <1>1, <1>2
    <3> QED BY <2>1, <3>1, <1>1, Zenon DEF Shrink
  <2>5. shrunk = [b \in Nodes |-> shrunk[b]]
    BY <2>1, Zenon DEF Shrink
  <2>6. \A b \in Nodes : shrunk[b] \in Records
    BY <2>1, <2>2, <2>4
  <2> HIDE DEF shrunk
  <2> QED BY <2>2, <2>3, <2>5, <2>6
<1> HIDE DEF shrunk
<1>4. ASSUME \A b \in used' :
                /\ b \in used
                /\ node'[b].start \in Nat
                /\ EndOf(b)' = EndOf(b) /\ node'[b].size > 0
                /\ b # cur => node'[b].start = node[b].start
                /\ b = cur => node'[b].start = node[cur].start + n,
             \A b \in used : b \notin used' => b = cur /\ node[cur].size = n
      PROVE  SpansOK' /\ CoverOK' /\ CallOK' /\ BlocksOK'
  <2>1. SpansOK'
    <3>1. held' \subseteq [start : Nat, pages : Nat]
      BY <1>1, <1>2 DEF SpansOK, Span
    <3>2. \A s \in held : \A b \in used' : s.start + s.pages <= node'[b].start \/ EndOf(b)' <= s.start
      BY <1>1, <1>2, <1>4 DEF SpansOK, EndOf
    <3>3. \A b \in used' : node[cur].start + n <= node'[b].start \/ EndOf(b)' <= node[cur].start
      BY <1>1, <1>2, <1>4 DEF BlocksOK, EndOf
    <3>4. \A s \in held : s.start + s.pages <= node[cur].start \/ node[cur].start + n <= s.start
      BY <1>1, <1>2 DEF SpansOK, EndOf
    <3>5. HEAP_START <= node[cur].start /\ node[cur].start + n <= HEAP_START + MAX_HEAP_SIZE
      BY <1>1, <1>2, BlockChainAssumption DEF BlocksOK, EndOf
    <3> QED
      BY <3>1, <3>2, <3>3, <3>4, <3>5, <1>1 DEF SpansOK, Span
  <2>2. CoverOK'
    <3> SUFFICES ASSUME NEW p \in Heap
                 PROVE  \/ \E b \in used' : node'[b].start <= p /\ p < EndOf(b)'
                        \/ \E s \in held' : s.start <= p /\ p < s.start + s.pages
      BY <1>1 DEF CoverOK
    <3>0. p \in Nat
      BY BlockChainAssumption DEF Heap
    <3>1. CASE \E s \in held : s.start <= p /\ p < s.start + s.pages
      BY <3>1, <1>1
    <3>2. CASE node[cur].start <= p /\ p < node[cur].start + n
      <4> DEFINE s == Span(node[cur].start, n)
      <4>1. s \in held' /\ s.start = node[cur].start /\ s.pages = n
        BY <1>1 DEF Span
      <4> QED BY <3>2, <4>1
    <3>3. CASE \E b \in used : node[b].start <= p /\ p < EndOf(b) /\ ~(b = cur /\ p < node[cur].start + n)
      <4> PICK b \in used : node[b].start <= p /\ p < EndOf(b) /\ ~(b = cur /\ p < node[cur].start + n)
        BY <3>3
      <4>1. b \in used'
        BY <1>1, <1>2, <1>4, <3>0, Zenon DEF EndOf
      <4> QED BY <4>1, <1>1, <1>2, <1>4, <3>0
    <3> QED
      BY <3>0, <3>1, <3>2, <3>3, <1>1, <1>2 DEF CoverOK
  <2>3. CallOK'
    BY <1>1 DEF CallOK
  <2>4. BlocksOK'
    <3> SUFFICES ASSUME NEW b \in used'
                 PROVE  /\ node'[b].size > 0
                        /\ HEAP_START <= node'[b].start
                        /\ EndOf(b)' <= HEAP_START + MAX_HEAP_SIZE
                        /\ \A c \in used' : c # b => EndOf(b)' < node'[c].start \/ EndOf(c)' < node'[b].start
      BY DEF BlocksOK
    <3>1. EndOf(b)' <= HEAP_START + MAX_HEAP_SIZE /\ HEAP_START <= node'[b].start
      BY <1>1, <1>2, <1>4, BlockChainAssumption DEF BlocksOK
    <3>2. \A c \in used' : c # b => EndOf(b)' < node'[c].start \/ EndOf(c)' < node'[b].start
      BY <1>1, <1>2, <1>4 DEF BlocksOK
    <3>3. node'[b].size > 0
      BY <1>4
    <3> QED BY <3>1, <3>2, <3>3
  <2> QED BY <2>1, <2>2, <2>3, <2>4, Zenon
<1>5. /\ \A s \in held' : s.start \in Heap /\ s.pages \in Nat \ {0}
      /\ first_alloc' \in BOOLEAN /\ pc' = "idle" /\ req' \in [start : Nat, pages : Nat]
      /\ cur' = NULL /\ ret' \in Heap \cup {NULL}
  BY <1>1, <1>2 DEF ChainTypeOK, Span
<1>6. CASE node[cur].size # n
  <2>1. /\ node' = shrunk /\ blockchain' = blockchain /\ used' = used
    BY <1>6, <1>1, <1>2, <1>3 DEF SearchFound, shrunk
  <2>2. /\ node'[cur].start = node[cur].start + n /\ node'[cur].size = node[cur].size - n
        /\ node'[cur].prev = node[cur].prev /\ node'[cur].next = node[cur].next
        /\ \A b \in Nodes : b # cur => node'[b] = node[b]
    BY <1>3, <2>1
  <2>3. SpansOK' /\ CoverOK' /\ CallOK' /\ BlocksOK'
    <3>1. \A b \in used' :
                /\ b \in used
                /\ node'[b].start \in Nat
                /\ EndOf(b)' = EndOf(b) /\ node'[b].size > 0
                /\ b # cur => node'[b].start = node[b].start
                /\ b = cur => node'[b].start = node[cur].start + n
      BY <1>1, <1>2, <1>6, <2>1, <2>2 DEF EndOf, BlocksOK
    <3> QED BY <1>4, <3>1, <2>1, Zenon
  <2>4. ChainTypeOK'
    BY <1>3, <1>5, <2>1, Zenon DEF ChainTypeOK
  <2>5. \A b, c \in used : Before(b, c)' <=> Before(b, c)
    BY <1>1, <1>2, <2>2 DEF Before, BlocksOK, EndOf
  <2>6. \A b \in used : node'[b].next = node[b].next /\ node'[b].prev = node[b].prev
    BY <1>1, <2>2, Zenon
  <2>7. LinksOK'
    BY <2>1, <2>5, <2>6 DEF LinksOK, NextOK, PrevOK
  <2>8. HeadOK'
    BY <2>1, <2>5, <1>1, Zenon DEF HeadOK
  <2> QED BY <2>3, <2>4, <2>7, <2>8, Zenon
<1>7. CASE node[cur].size = n
  <2>1. /\ node' = Unlink(shrunk, cur)
        /\ blockchain' = IF cur = blockchain THEN node[cur].next ELSE blockchain
        /\ used' = used \ {cur}
    BY <1>7, <1>1, <1>2, <1>3 DEF SearchFound, shrunk
  <2>2. \A b \in Nodes : b # cur =>
          node'[b] = IF b = node[cur].prev THEN [node[b] EXCEPT !.next = node[cur].next]
                     ELSE IF b = node[cur].next THEN [node[b] EXCEPT !.prev = node[cur].prev]
                     ELSE node[b]
    BY <1>1, <1>3, <2>1, Zenon DEF ChainTypeOK, Unlink
  <2>3. \A b \in used' :
          /\ b \in used /\ b \in Nodes /\ b # cur
          /\ node'[b].start = node[b].start /\ node'[b].size = node[b].size
          /\ node'[b].next = IF b = node[cur].prev THEN node[cur].next ELSE node[b].next
          /\ node'[b].prev = IF b = node[cur].next /\ b # node[cur].prev
                             THEN node[cur].prev ELSE node[b].prev
    <3>1. \A b \in Nodes : node[b] \in Records
      BY Zenon DEF ChainTypeOK
    <3> SUFFICES ASSUME NEW b \in Nodes, b # cur, b \in used
                 PROVE  /\ node'[b].start = node[b].start /\ node'[b].size = node[b].size
                        /\ node'[b].next = IF b = node[cur].prev THEN node[cur].next ELSE node[b].next
                        /\ node'[b].prev = IF b = node[cur].next /\ b # node[cur].prev
                                           THEN node[cur].prev ELSE node[b].prev
      BY <1>1, <2>1
    <3>2. CASE b = node[cur].prev
      BY <2>2, <3>1, <3>2, Zenon
    <3>3. CASE b # node[cur].prev /\ b = node[cur].next
      BY <2>2, <3>1, <3>3, Zenon
    <3>4. CASE b # node[cur].prev /\ b # node[cur].next
      BY <2>2, <3>4, Zenon
    <3> QED BY <3>2, <3>3, <3>4
  <2>4. SpansOK' /\ CoverOK' /\ CallOK' /\ BlocksOK'
    <3>1. \A b \in used' :
                /\ b \in used
                /\ node'[b].start \in Nat
                /\ EndOf(b)' = EndOf(b) /\ node'[b].size > 0
                /\ b # cur => node'[b].start = node[b].start
                /\ b = cur => node'[b].start = node[cur].start + n
      BY <1>2, <2>3, Zenon DEF EndOf, BlocksOK
    <3> QED BY <1>4, <3>1, <2>1, <1>7, Zenon
  <2>5. ChainTypeOK'
    <3>1. node'[cur] = NoBlock /\ DOMAIN node' = Nodes
      BY <1>1, <1>3, <2>1 DEF ChainTypeOK, Unlink
    <3>2. node' \in [Nodes -> [start : Nat, size : Nat,
                         prev : Nodes \cup {NULL}, next : Nodes \cup {NULL}]]
      <4>1. \A b \in Nodes : node'[b] \in [start : Nat, size : Nat,
                         prev : Nodes \cup {NULL}, next : Nodes \cup {NULL}]
        BY <1>1, <3>1, <2>2 DEF ChainTypeOK, NoBlock, Block
      <4>2. node' = [b \in Nodes |-> node'[b]]
        BY <1>3, <2>1 DEF ChainTypeOK, Unlink
      <4> QED BY <4>1, <4>2
    <3> QED BY <3>2, <1>1, <1>5, <2>1, NodeTypes DEF ChainTypeOK
  <2>6. \A b, c \in used' : Before(b, c)' <=> Before(b, c)
    BY <2>3 DEF Before
  <2>7. \A b \in used' : /\ node'[b].next = IF b = node[cur].prev THEN node[cur].next ELSE node[b].next
                         /\ node'[b].prev = IF b = node[cur].next /\ b # node[cur].prev
                                           THEN node[cur].prev ELSE node[b].prev
    BY <2>3
  <2>8. LinksOK'
    <3> SUFFICES ASSUME NEW b \in used' PROVE NextOK(b)' /\ PrevOK(b)'
      BY DEF LinksOK
    <3>0. cur \in used /\ used' = used \ {cur}
      BY <1>1, <2>1, Zenon
    <3>1. NextOK(b)'
      BY <3>0, <2>6, <2>7, BlockOrder DEF NextOK, PrevOK
    <3>2. PrevOK(b)'
      BY <3>0, <2>6, <2>7, BlockOrder DEF NextOK, PrevOK
    <3> QED BY <3>1, <3>2
  <2>9. HeadOK'
    BY <1>1, <2>1, <2>6, BlockOrder DEF HeadOK, NextOK
  <2> QED BY <2>4, <2>5, <2>8, <2>9
<1> QED BY <1>6, <1>7, Zenon

\* The first block after the list was empty is the span that is freed.
LEMMA FreeFirstStep ==
  ASSUME ChainInv, NEW s \in held, FreeFirst(s)
  PROVE  ChainInv'
<1> USE DEF ChainInv
<1> PICK n \in Nodes \ used :
       /\ blockchain' = n
       /\ used' = used \cup {n}
       /\ node' = [node EXCEPT ![n] = Block(s.start, s.pages, NULL, NULL)]
       /\ cur' = n
  BY Zenon DEF FreeFirst
<1>1. /\ used = {} /\ used' = {n} /\ n # NULL /\ held' = held \ {s} /\ ~first_alloc
      /\ first_alloc' = FALSE /\ pc' = "rewind" /\ req' = req /\ ret' = NULL
      /\ s \in [start : Nat, pages : Nat] /\ s.pages > 0
  BY BlockChainAssumption, Zenon DEF FreeFirst, CoverOK, HeadOK, SpansOK, ChainTypeOK, NULL
<1>2. /\ node'[n] = [start |-> s.start, size |-> s.pages, prev |-> NULL, next |-> NULL]
      /\ node' \in [Nodes -> [start : Nat, size : Nat,
                         prev : Nodes \cup {NULL}, next : Nodes \cup {NULL}]]
  BY <1>1 DEF ChainTypeOK, Block
<1>3. ChainTypeOK'
  BY <1>1, <1>2, Zenon DEF ChainTypeOK
<1>4. BlocksOK' /\ LinksOK' /\ HeadOK'
  BY <1>1, <1>2 DEF BlocksOK, LinksOK, HeadOK, SpansOK, EndOf, NextOK, PrevOK, Before
<1>5. SpansOK'
  BY <1>1, <1>2 DEF SpansOK, EndOf
<1>6. CoverOK'
  BY <1>1, <1>2 DEF CoverOK, EndOf
<1>7. CallOK'
  BY <1>1, Zenon DEF CallOK
<1> QED BY <1>3, <1>4, <1>5, <1>6, <1>7

\* When the walk is over, left and right are neighbours and the span that is
\* freed lies between them.
LEMMA Neighbours ==
  ASSUME ChainInv, pc = "link"
  PROVE  /\ ~first_alloc
         /\ req \in held /\ req.start \in Nat /\ req.pages \in Nat /\ req.pages > 0
         /\ Left # NULL =>
              /\ Left \in used
              /\ EndOf(Left) <= req.start
              /\ node[Left].next = Right
         /\ Right # NULL =>
              /\ Right \in used
              /\ req.start + req.pages <= node[Right].start
              /\ node[Right].prev = Left
         /\ \A b \in used :
              \/ Left # NULL /\ (b = Left \/ Before(b, Left))
              \/ Right # NULL /\ (b = Right \/ Before(Right, b))
<1> USE DEF ChainInv
<1>1. /\ ~first_alloc /\ req \in held /\ blockchain # NULL /\ blockchain \in used
      /\ req.start \in Nat /\ req.pages \in Nat /\ req.pages > 0
  BY Zenon DEF CallOK, CoverOK, HeadOK, SpansOK
<1>2. /\ \A b \in used : /\ node[b].start \in Nat /\ node[b].size \in Nat /\ EndOf(b) \in Nat
                         /\ b # NULL /\ node[b].size > 0 /\ node[b].start < EndOf(b)
                         /\ NextOK(b) /\ PrevOK(b)
      /\ \A b, c \in used : b # c => EndOf(b) < node[c].start \/ EndOf(c) < node[b].start
      /\ \A b \in used : ~Before(b, blockchain)
      /\ \A b \in used : req.start + req.pages <= node[b].start \/ EndOf(b) <= req.start
  <2>1. \A b \in used : /\ b \in Nodes /\ node[b].size > 0 /\ NextOK(b) /\ PrevOK(b)
                        /\ req.start + req.pages <= node[b].start \/ EndOf(b) <= req.start
    BY <1>1, Zenon DEF ChainTypeOK, BlocksOK, LinksOK, SpansOK
  <2>2. /\ \A b, c \in used : b # c => EndOf(b) < node[c].start \/ EndOf(c) < node[b].start
        /\ \A b \in used : ~Before(b, blockchain)
    BY DEF BlocksOK, HeadOK
  <2>3. \A b \in Nodes : b # NULL /\ node[b].start \in Nat /\ node[b].size \in Nat /\ EndOf(b) \in Nat
    BY NodeTypes, Zenon
  <2>4. \A b \in used : node[b].start < EndOf(b)
    BY <2>1, <2>3 DEF EndOf
  <2> QED BY <2>1, <2>2, <2>3, <2>4, Zenon
<1>3. CASE cur = NULL
  <2>1. Left = NULL /\ Right = blockchain /\ node[blockchain].start > req.start
    BY <1>3, Zenon DEF Left, Right, CallOK
  <2>2. req.start + req.pages <= node[blockchain].start
    BY <2>1, <1>1, <1>2
  <2>3. node[blockchain].prev = NULL
    BY <1>1, <1>2, Zenon DEF PrevOK
  <2>4. \A b \in used : b = blockchain \/ Before(blockchain, b)
    BY <1>1, <1>2 DEF Before
  <2> QED BY <1>1, <2>1, <2>2, <2>3, <2>4
<1>4. CASE cur # NULL
  <2>1. /\ Left = cur /\ Right = node[cur].next /\ cur \in used /\ node[cur].start < req.start
        /\ Right # NULL => node[Right].start > req.start
    BY <1>4, Zenon DEF Left, Right, CallOK
  <2>2. Right # NULL => Right \in used /\ Before(cur, Right)
    BY <2>1, <1>2, Zenon DEF NextOK
  <2>3. EndOf(cur) <= req.start
    BY <2>1, <1>1, <1>2
  <2>4. Right # NULL => req.start + req.pages <= node[Right].start
    BY <2>1, <2>2, <1>1, <1>2
  <2>5. Right # NULL => node[Right].prev = cur
    BY <2>1, <2>2, <1>2 DEF NextOK, PrevOK, Before
  <2>6. \A b \in used : b = cur \/ Before(b, cur) \/ (Right # NULL /\ (b = Right \/ Before(Right, b)))
    BY <2>1, <2>2, <1>2 DEF NextOK, Before
  <2> QED BY <1>1, <1>4, <2>1, <2>2, <2>3, <2>4, <2>5, <2>6, Zenon
<1> QED BY <1>3, <1>4, Zenon

\* What the branches of vmm_free_pages share: it is enough that the list is in
\* order again, that its blocks cover what they covered and the span, and that
\* they reach into no other span.
LEMMA FreedStep ==
  ASSUME ChainInv, Freed,
         node' \in [Nodes -> [start : Nat, size : Nat,
                              prev : Nodes \cup {NULL}, next : Nodes \cup {NULL}]],
         used' \subseteq Nodes, blockchain \in used',
         BlocksOK', LinksOK',
         \A b \in used : \E c \in used' : node'[c].start <= node[b].start /\ EndOf(b) <= EndOf(c)',
         \E c \in used' : node'[c].start <= req.start /\ req.start + req.pages <= EndOf(c)',
         \A s \in held : s # req =>
           \A c \in used' : s.start + s.pages <= node'[c].start \/ EndOf(c)' <= s.start
  PROVE  ChainInv'
<1> USE DEF ChainInv
<1>1. /\ held' = held \ {req} /\ ret' = NULL /\ cur' = blockchain /\ pc' = "rewind"
      /\ blockchain' = blockchain /\ first_alloc' = first_alloc /\ req' = req
      /\ ~first_alloc /\ req \in held
  BY Neighbours, Zenon DEF Freed
<1>2. /\ \A b \in Nodes : node[b].start \in Nat /\ EndOf(b) \in Nat
      /\ used \subseteq Nodes
  BY NodeTypes, Zenon DEF ChainTypeOK
<1>3. \A b \in Nodes : b # NULL /\ node'[b].start \in Nat /\ EndOf(b)' \in Nat
  BY BlockChainAssumption DEF EndOf, NULL
<1>4. ChainTypeOK'
  BY <1>1, Zenon DEF ChainTypeOK
<1>5. HeadOK' /\ CallOK'
  BY <1>1, <1>3, Zenon DEF HeadOK, CallOK
<1>6. SpansOK'
  BY <1>1, Zenon DEF SpansOK
<1>7. CoverOK'
  <2> SUFFICES ASSUME NEW p \in Heap
               PROVE  \/ \E c \in used' : node'[c].start <= p /\ p < EndOf(c)'
                      \/ \E s \in held' : s.start <= p /\ p < s.start + s.pages
    BY <1>1, Zenon DEF CoverOK
  <2>0. p \in Nat /\ req.start \in Nat /\ req.pages \in Nat
    BY BlockChainAssumption, <1>1 DEF Heap, ChainTypeOK
  <2>1. CASE \E b \in used : node[b].start <= p /\ p < EndOf(b)
    BY <2>0, <2>1, <1>2, <1>3
  <2>2. CASE req.start <= p /\ p < req.start + req.pages
    BY <2>0, <2>2, <1>3
  <2>3. CASE \E s \in held : s # req /\ s.start <= p /\ p < s.start + s.pages
    BY <2>3, <1>1
  <2> QED BY <2>1, <2>2, <2>3, <1>1, Zenon DEF CoverOK
<1> QED BY <1>4, <1>5, <1>6, <1>7, Zenon

\* The span extends the block on its right.
LEMMA MergeRightStep ==
  ASSUME ChainInv, MergeRight
  PROVE  ChainInv'
<1> USE DEF ChainInv
<1> DEFINE Records == [start : Nat, size : Nat, prev : Nodes \cup {NULL}, next : Nodes \cup {NULL}]
<1> PICK r : r = Right
  OBVIOUS
<1>1. /\ Freed /\ pc = "link" /\ ~LeftAdjacent /\ r # NULL /\ used' = used
      /\ req.start + req.pages = node[r].start
      /\ node' = [node EXCEPT ![r].size = @ + req.pages, ![r].start = @ - req.pages]
  BY DEF MergeRight, Freed, RightAdjacent
<1>2. /\ r \in used /\ r \in Nodes /\ req \in held /\ req.start \in Nat /\ req.pages \in Nat
      /\ Left # NULL => Left \in used /\ EndOf(Left) < req.start
      /\ \A b \in used : b # r => (Left # NULL /\ (b = Left \/ Before(b, Left))) \/ Before(r, b)
  BY <1>1, Neighbours, NodeTypes DEF LeftAdjacent, ChainTypeOK
<1>3. \A b \in used : b \in Nodes /\ node[b].start \in Nat /\ node[b].size \in Nat /\ EndOf(b) \in Nat
  BY NodeTypes DEF ChainTypeOK
<1>4. /\ node'[r].start = req.start /\ node'[r].size = node[r].size + req.pages
      /\ node'[r].prev = node[r].prev /\ node'[r].next = node[r].next
      /\ \A b \in Nodes : b # r => node'[b] = node[b]
      /\ node' \in [Nodes -> Records]
  <2>1. node \in [Nodes -> Records] /\ node[r] \in Records
    BY <1>2 DEF ChainTypeOK
  <2>2. \A b \in Nodes : b # r => node'[b] = node[b]
    BY <1>1, <2>1
  <2>3. /\ node'[r].start = node[r].start - req.pages /\ node'[r].size = node[r].size + req.pages
        /\ node'[r].prev = node[r].prev /\ node'[r].next = node[r].next
    BY <1>1, <1>2, <2>1
  <2>4. node[r].start - req.pages = req.start /\ req.start \in Nat /\ node[r].size + req.pages \in Nat
    BY <1>1, <1>2, <1>3
  <2>5. node'[r] \in Records
    BY <1>1, <1>2, <2>1, <2>4, Zenon
  <2>6. node' = [b \in Nodes |-> node'[b]]
    BY <1>1, <2>1, Zenon
  <2> QED BY <2>1, <2>2, <2>3, <2>4, <2>5, <2>6
<1>5. \A b \in used : b # r => (EndOf(b) < req.start \/ EndOf(r) < node[b].start)
  BY <1>2, <1>3 DEF Before, BlocksOK, EndOf
<1>6. EndOf(r)' = EndOf(r) /\ \A b \in used : b # r => EndOf(b)' = EndOf(b)
  BY <1>1, <1>2, <1>3, <1>4 DEF EndOf
<1>7. \A b, c \in used : Before(b, c)' <=> Before(b, c)
  BY <1>1, <1>2, <1>3, <1>4, <1>5 DEF Before, EndOf
<1>8. BlocksOK'
  <2>1. \A b \in used : /\ node'[b].size > 0 /\ HEAP_START <= node'[b].start
                        /\ EndOf(b)' <= HEAP_START + MAX_HEAP_SIZE
    BY <1>2, <1>3, <1>4, <1>6 DEF BlocksOK, SpansOK
  <2>2. \A b, c \in used : c # b => EndOf(b)' < node'[c].start \/ EndOf(c)' < node'[b].start
    BY <1>2, <1>3, <1>4, <1>5, <1>6 DEF BlocksOK
  <2> QED BY <1>1, <2>1, <2>2, Zenon DEF BlocksOK
<1>9. LinksOK'
  BY <1>1, <1>2, <1>3, <1>4, <1>7 DEF LinksOK, NextOK, PrevOK
<1>10. \A s \in held : s # req =>
           \A c \in used' : s.start + s.pages <= node'[c].start \/ EndOf(c)' <= s.start
  <2> SUFFICES ASSUME NEW s \in held, s # req, NEW c \in used
               PROVE  s.start + s.pages <= node'[c].start \/ EndOf(c)' <= s.start
    BY <1>1, Zenon
  <2>1. /\ s.start + s.pages <= node[c].start \/ EndOf(c) <= s.start
        /\ s.start + s.pages <= req.start \/ req.start + req.pages <= s.start
        /\ s.start \in Nat /\ s.pages \in Nat /\ s.pages > 0
    BY <1>2, Zenon DEF SpansOK
  <2>2. c = r => node[c].start < EndOf(c)
    BY <1>2, <1>3 DEF BlocksOK, EndOf
  <2> QED BY <1>1, <1>2, <1>3, <1>4, <1>6, <2>1, <2>2
<1>11. blockchain \in used'
  BY <1>1, <1>2 DEF HeadOK
<1>12. /\ \A b \in used : \E c \in used' : node'[c].start <= node[b].start /\ EndOf(b) <= EndOf(c)'
       /\ \E c \in used' : node'[c].start <= req.start /\ req.start + req.pages <= EndOf(c)'
  <2>1. \A b \in used : node'[b].start <= node[b].start /\ EndOf(b) <= EndOf(b)'
    BY <1>1, <1>2, <1>3, <1>4, <1>6
  <2>2. node'[r].start <= req.start /\ req.start + req.pages <= EndOf(r)'
    BY <1>1, <1>2, <1>3, <1>4, <1>6 DEF EndOf
  <2> QED BY <1>1, <1>2, <2>1, <2>2, Zenon
<1> QED
  <2>1. used' \subseteq Nodes
    BY <1>1 DEF ChainTypeOK
  <2> QED BY <1>1, <1>4, <1>8, <1>9, <1>10, <1>11, <1>12, <2>1, FreedStep, Zenon

\* The span extends the block on its left, and the block on its right follows
\* when they meet.
LEMMA MergeLeftStep ==
  ASSUME ChainInv, MergeLeft
  PROVE  ChainInv'
<1> USE DEF ChainInv
<1> DEFINE Records == [start : Nat, size : Nat, prev : Nodes \cup {NULL}, next : Nodes \cup {NULL}]
<1> PICK l, r : l = Left /\ r = Right
  OBVIOUS
<1>1. Freed /\ pc = "link" /\ l # NULL /\ EndOf(l) = req.start
  BY Zenon DEF MergeLeft, Freed, LeftAdjacent
<1>2. /\ l \in used /\ l \in Nodes /\ req \in held /\ req.start \in Nat /\ req.pages \in Nat /\ req.pages > 0
      /\ node[l].next = r
      /\ r # NULL => r \in used /\ r \in Nodes /\ req.start + req.pages <= node[r].start /\ node[r].prev = l
      /\ \A b \in used : b = l \/ Before(b, l) \/ (r # NULL /\ (b = r \/ Before(r, b)))
  BY <1>1, Neighbours, NodeTypes DEF ChainTypeOK
<1>0. node \in [Nodes -> Records] /\ used \subseteq Nodes
  BY Zenon DEF ChainTypeOK
<1>3. /\ \A b \in used : /\ b \in Nodes /\ b # NULL /\ node[b].start \in Nat /\ node[b].size \in Nat
                         /\ EndOf(b) \in Nat /\ node[b].start < EndOf(b)
                         /\ HEAP_START <= node[b].start /\ EndOf(b) <= HEAP_START + MAX_HEAP_SIZE
      /\ \A b, c \in used : c # b => EndOf(b) < node[c].start \/ EndOf(c) < node[b].start
  <2>1. \A b \in Nodes : b # NULL /\ node[b].start \in Nat /\ node[b].size \in Nat /\ EndOf(b) \in Nat
    BY NodeTypes
  <2>3. \A b \in used : /\ node[b].size > 0 /\ HEAP_START <= node[b].start
                        /\ EndOf(b) <= HEAP_START + MAX_HEAP_SIZE
    BY DEF BlocksOK
  <2>4. \A b \in used : node[b].start < EndOf(b)
    BY <2>1, <2>3, <1>0 DEF EndOf
  <2> QED BY <1>0, <2>1, <2>3, <2>4, Zenon DEF BlocksOK
<1>4. \A s \in held : s # req =>
        /\ s.start \in Nat /\ s.pages \in Nat /\ s.pages > 0
        /\ s.start + s.pages <= req.start \/ req.start + req.pages <= s.start
        /\ \A b \in used : s.start + s.pages <= node[b].start \/ EndOf(b) <= s.start
  BY <1>2, Zenon DEF SpansOK
<1>5. req.start + req.pages <= HEAP_START + MAX_HEAP_SIZE
  BY <1>2, Zenon DEF SpansOK
<1>6. CASE ~RightAdjacent
  <2>1. node' = [node EXCEPT ![l].size = @ + req.pages] /\ used' = used
    BY <1>6, Zenon DEF MergeLeft
  <2>2. r # NULL => req.start + req.pages < node[r].start
    BY <1>2, <1>3, <1>6 DEF RightAdjacent
  <2>3. /\ node' \in [Nodes -> Records]
        /\ \A b \in Nodes : /\ node'[b].start = node[b].start
                            /\ node'[b].next = node[b].next /\ node'[b].prev = node[b].prev
                            /\ b # l => node'[b].size = node[b].size
        /\ node'[l].size = node[l].size + req.pages
    <3>1. node[l].size + req.pages \in Nat
      BY <1>2, <1>3
    <3> QED BY <1>2, <1>0, <1>3, <2>1, <3>1
  <2>4. EndOf(l)' = req.start + req.pages /\ \A b \in used : b # l => EndOf(b)' = EndOf(b)
    BY <1>1, <1>2, <1>3, <2>3 DEF EndOf
  <2>5. \A b \in used : b # l => EndOf(b) < node[l].start \/ req.start + req.pages < node[b].start
    BY <1>1, <1>2, <1>3, <2>2 DEF Before
  <2>6. BlocksOK'
    <3>1. \A b \in used : /\ node'[b].size > 0 /\ HEAP_START <= node'[b].start
                          /\ EndOf(b)' <= HEAP_START + MAX_HEAP_SIZE
      BY <1>2, <1>3, <1>5, <2>3, <2>4 DEF BlocksOK
    <3>2. \A b, c \in used : c # b => EndOf(b)' < node'[c].start \/ EndOf(c)' < node'[b].start
      BY <1>2, <1>3, <2>3, <2>4, <2>5
    <3> QED BY <2>1, <3>1, <3>2, Zenon DEF BlocksOK
  <2>7. LinksOK'
    BY <1>3, <2>1, <2>3 DEF LinksOK, NextOK, PrevOK, Before
  <2>8. \A s \in held : s # req =>
           \A c \in used' : s.start + s.pages <= node'[c].start \/ EndOf(c)' <= s.start
    BY <1>1, <1>2, <1>3, <1>4, <2>1, <2>3, <2>4
  <2>9. blockchain \in used' /\ used' \subseteq Nodes
    BY <2>1, <1>2, <1>3 DEF HeadOK
  <2>10. \A b \in used : \E c \in used' : node'[c].start <= node[b].start /\ EndOf(b) <= EndOf(c)'
    BY <1>1, <1>2, <1>3, <2>1, <2>3, <2>4
  <2>11. \E c \in used' : node'[c].start <= req.start /\ req.start + req.pages <= EndOf(c)'
    BY <1>1, <1>2, <1>3, <2>1, <2>3, <2>4
  <2> QED BY <1>1, <2>3, <2>6, <2>7, <2>8, <2>9, <2>10, <2>11, FreedStep
<1>7. CASE RightAdjacent
  <2>1. r # NULL /\ r \in used /\ r \in Nodes /\ req.start + req.pages = node[r].start /\ l # r
    BY <1>1, <1>2, <1>3, <1>7 DEF RightAdjacent
  <2>2. used' = used \ {r}
    BY <1>7, Zenon DEF MergeLeft
  <2>0. node' = [n \in Nodes |->
              IF n = l THEN [node[n] EXCEPT !.size = @ + req.pages + node[r].size, !.next = node[r].next]
              ELSE IF n = node[r].next THEN [node[n] EXCEPT !.prev = l]
              ELSE IF n = r THEN NoBlock
              ELSE node[n]]
    BY <1>7, Zenon DEF MergeLeft
  <2>3. node[r].next \in Nodes \cup {NULL} /\ node[r].next # l /\ node[r].next # r
    <3>1. node[r].next \in Nodes \cup {NULL}
      BY <1>0, <2>1
    <3>2. NextOK(r)
      BY <2>1, Zenon DEF LinksOK
    <3> QED BY <3>1, <3>2, <1>1, <1>2, <1>3, <2>1 DEF NextOK, Before
  <2>4. /\ node' \in [Nodes -> Records]
        /\ \A b \in used : b # r =>
             /\ node'[b].start = node[b].start
             /\ node'[b].size = IF b = l THEN node[l].size + req.pages + node[r].size ELSE node[b].size
             /\ node'[b].next = IF b = l THEN node[r].next ELSE node[b].next
             /\ node'[b].prev = IF b = node[r].next THEN l ELSE node[b].prev
    <3>0. node[l].size + req.pages + node[r].size \in Nat
      BY <1>2, <1>3, <2>1
    <3>1. \A b \in Nodes : node[b] \in Records
      BY <1>0, Zenon
    <3>2. \A b \in Nodes : node'[b] \in Records
      <4> SUFFICES ASSUME NEW b \in Nodes PROVE node'[b] \in Records
        OBVIOUS
      <4>1. CASE b = l
        BY <4>1, <2>0, <2>3, <3>0, <3>1, Zenon
      <4>2. CASE b # l /\ b = node[r].next
        BY <4>2, <2>0, <1>2, <3>1, Zenon
      <4>3. CASE b # l /\ b # node[r].next
        BY <4>3, <2>0, <3>1, Zenon DEF NoBlock, Block
      <4> QED BY <4>1, <4>2, <4>3
    <3>3. ASSUME NEW b \in used, b # r
          PROVE  /\ node'[b].start = node[b].start
                 /\ node'[b].size = IF b = l THEN node[l].size + req.pages + node[r].size ELSE node[b].size
                 /\ node'[b].next = IF b = l THEN node[r].next ELSE node[b].next
                 /\ node'[b].prev = IF b = node[r].next THEN l ELSE node[b].prev
      <4>0. b \in Nodes /\ node[b] \in Records
        BY <1>0, <1>3
      <4>1. CASE b = l
        BY <4>0, <4>1, <2>0, <2>3, Zenon
      <4>2. CASE b # l /\ b = node[r].next
        BY <4>0, <4>2, <2>0, Zenon
      <4>3. CASE b # l /\ b # node[r].next
        BY <4>0, <4>3, <3>3, <2>0, Zenon
      <4> QED BY <4>1, <4>2, <4>3, Zenon
    <3>4. node' = [b \in Nodes |-> node'[b]]
      BY <2>0, Zenon
    <3> QED BY <3>2, <3>3, <3>4, Zenon
  <2>4a. \A b \in used' : b \in used /\ b # r /\ node'[b].start = node[b].start
    BY <2>2, <2>4, Zenon
  <2>4b. \A b \in used' : /\ node'[b].next = IF b = l THEN node[r].next ELSE node[b].next
                          /\ node'[b].prev = IF b = node[r].next THEN l ELSE node[b].prev
    BY <2>2, <2>4, Zenon
  <2>4c. /\ node'[l].start = node[l].start /\ node'[l].size = node[l].size + req.pages + node[r].size
         /\ \A b \in used' : b # l => node'[b].size = node[b].size
    BY <1>2, <2>1, <2>2, <2>4, Zenon
  <2>5. EndOf(l)' = EndOf(r) /\ \A b \in used' : b # l => EndOf(b)' = EndOf(b)
    <3>1. node[l].start + (node[l].size + req.pages + node[r].size) = node[r].start + node[r].size
      BY <1>1, <1>2, <1>3, <2>1 DEF EndOf
    <3> QED BY <3>1, <2>4a, <2>4c, Zenon DEF EndOf
  <2>6. \A b \in used : b # l /\ b # r => EndOf(b) < node[l].start \/ EndOf(r) < node[b].start
    BY <1>1, <1>2, <1>3, <2>1 DEF Before
  <2>6a. l \in used' /\ EndOf(l) < EndOf(r) /\ node[l].start < node[r].start
         /\ req.start + req.pages < EndOf(r) /\ node[l].start < req.start
    BY <1>1, <1>2, <1>3, <2>1, <2>2
  <2>7. BlocksOK'
    <3>1. \A b \in used' : HEAP_START <= node'[b].start /\ EndOf(b)' <= HEAP_START + MAX_HEAP_SIZE
      BY <1>3, <2>1, <2>4a, <2>5, Zenon
    <3>2. \A b \in used' : node'[b].size > 0
      <4>1. node[l].size + req.pages + node[r].size > 0
        BY <1>2, <1>3, <2>1
      <4> QED BY <4>1, <2>4a, <2>4c, Zenon DEF BlocksOK
    <3>3. ASSUME NEW b \in used', NEW c \in used', c # b
          PROVE  EndOf(b)' < node'[c].start \/ EndOf(c)' < node'[b].start
      <4>1. CASE b # l /\ c # l
        BY <3>3, <4>1, <1>3, <2>4a, <2>5, Zenon
      <4>2. CASE b = l
        BY <3>3, <4>2, <2>4a, <2>5, <2>6, Zenon
      <4>3. CASE c = l
        BY <3>3, <4>3, <2>4a, <2>5, <2>6, Zenon
      <4> QED BY <4>1, <4>2, <4>3, Zenon
    <3> QED BY <3>1, <3>2, <3>3, Zenon DEF BlocksOK
  <2>8. LinksOK'
    <3>1. \A b, c \in used' : Before(b, c)' <=> Before(b, c)
      BY <2>4a, Zenon DEF Before
    <3>2. l \in used' /\ r \in used /\ l # r /\ node[l].next = r /\ node[r].prev = l
      BY <1>2, <2>1, <2>2, Zenon
    <3>2a. /\ NextOK(r) /\ Before(l, r)
           /\ \A c \in used' : Before(l, c) => Before(r, c)
      <4>1. NextOK(r) /\ NextOK(l) /\ r # NULL
        BY <2>1, <2>4a, <3>2, BlockOrder, Zenon
      <4>2. Before(l, r) /\ \A c \in used : ~(Before(l, c) /\ Before(c, r))
        BY <3>2, <4>1, Zenon DEF NextOK
      <4>3. \A c \in used' : Before(c, r) \/ Before(r, c)
        BY <2>4a, <3>2, BlockOrder, Zenon
      <4> QED BY <2>4a, <4>1, <4>2, <4>3, Zenon
    <3>2b. \A b \in used' : b \in used /\ b # r /\ NextOK(b) /\ PrevOK(b)
      BY <2>4a, BlockOrder, Zenon
    <3>2c. PICK n : n = node[r].next
      BY Zenon
    <3>2d. n # NULL => n \in used' /\ Before(l, n)
      <4>1. n # NULL => n \in used /\ Before(r, n)
        BY <3>2a, <3>2c, Zenon DEF NextOK
      <4> QED BY <2>2, <2>3, <2>4a, <3>2, <3>2a, <3>2c, <4>1, BlockOrder, Zenon
    <3>2e. /\ n = NULL => \A c \in used' : ~Before(l, c)'
           /\ n # NULL => Before(l, n)' /\ \A c \in used' : ~(Before(l, c)' /\ Before(c, n)')
      <4>1. n = NULL => \A c \in used' : ~Before(r, c)
        BY <3>2a, <3>2b, <3>2c, Zenon DEF NextOK
      <4>2. n # NULL => \A c \in used' : ~(Before(r, c) /\ Before(c, n))
        BY <3>2a, <3>2b, <3>2c, Zenon DEF NextOK
      <4>3. l \in used'
        BY <3>2, Zenon
      <4> QED BY <3>1, <3>2a, <3>2d, <4>1, <4>2, <4>3, Zenon
    <3>3. ASSUME NEW b \in used' PROVE NextOK(b)'
      <4>2. CASE b = l
        <5>1. node'[b].next = n
          BY <4>2, <3>2c, <2>4b, Zenon
        <5> QED BY <4>2, <5>1, <3>2d, <3>2e DEF NextOK, Before
      <4>3. CASE b # l
        <5>1. node[b].next # r
          BY <3>2b, <4>3, <3>2, LinksInverse, BlockOrder
        <5>2. node'[b].next = node[b].next
          BY <4>3, <2>4b
        <5> QED BY <3>2b, <5>1, <5>2, <3>1, <2>2 DEF NextOK
      <4> QED BY <4>2, <4>3, Zenon
    <3>4. ASSUME NEW b \in used' PROVE PrevOK(b)'
      <4>2. CASE b = node[r].next
        <5>1. node'[b].prev = l /\ l # NULL /\ b = n /\ n # NULL
          BY <4>2, <1>1, <1>3, <2>4b, <3>2b, <3>2c, Zenon
        <5> QED BY <5>1, <3>2, <3>2e DEF PrevOK, Before
      <4>3. CASE b # node[r].next
        <5>1. node[b].prev # r
          BY <3>2b, <4>3, <3>2, LinksInverse, BlockOrder
        <5>2. node'[b].prev = node[b].prev
          BY <4>3, <2>4b
        <5> QED BY <3>2b, <5>1, <5>2, <3>1, <2>2, Zenon DEF PrevOK
      <4> QED BY <4>2, <4>3
    <3> QED BY <3>3, <3>4, Zenon DEF LinksOK
  <2>9. ASSUME NEW s \in held, s # req, NEW c \in used'
        PROVE  s.start + s.pages <= node'[c].start \/ EndOf(c)' <= s.start
    <3>1. CASE c # l
      BY <2>9, <3>1, <1>4, <2>4a, <2>5, Zenon
    <3>2. CASE c = l
      BY <2>9, <3>2, <1>1, <1>2, <1>3, <1>4, <2>1, <2>4c, <2>5
    <3> QED BY <3>1, <3>2, Zenon
  <2>10. blockchain \in used' /\ used' \subseteq Nodes
    <3>1. blockchain \in used /\ ~Before(l, blockchain)
      BY <1>1, <1>2, Zenon DEF HeadOK
    <3>2. Before(l, r)
      BY <2>6a DEF Before
    <3> QED BY <3>1, <3>2, <2>2, <1>0, Zenon
  <2>11. ASSUME NEW b \in used
         PROVE  \E c \in used' : node'[c].start <= node[b].start /\ EndOf(b) <= EndOf(c)'
    <3>1. CASE b = l \/ b = r
      <4>1. node'[l].start <= node[b].start /\ EndOf(b) <= EndOf(l)'
        BY <3>1, <1>2, <1>3, <2>1, <2>4c, <2>5, <2>6a
      <4> QED BY <4>1, <2>6a, Zenon
    <3>2. CASE b # l /\ b # r
      <4>1. b \in used' /\ node'[b].start <= node[b].start /\ EndOf(b) <= EndOf(b)'
        BY <3>2, <1>3, <2>2, <2>4a, <2>5
      <4> QED BY <4>1, Zenon
    <3> QED BY <3>1, <3>2, Zenon
  <2>12. \E c \in used' : node'[c].start <= req.start /\ req.start + req.pages <= EndOf(c)'
    <3>1. node'[l].start <= req.start /\ req.start + req.pages <= EndOf(l)'
      BY <1>2, <1>3, <2>1, <2>4c, <2>5, <2>6a
    <3> QED BY <3>1, <2>6a, Zenon
  <2> QED BY <1>1, <2>4, <2>7, <2>8, <2>9, <2>10, <2>11, <2>12, FreedStep, Zenon
<1> QED BY <1>6, <1>7

\* The span becomes a block of its own between its neighbours.
LEMMA InsertStep ==
  ASSUME ChainInv, InsertBlock
  PROVE  ChainInv'
<1> USE DEF ChainInv
<1> DEFINE Records == [start : Nat, size : Nat, prev : Nodes \cup {NULL}, next : Nodes \cup {NULL}]
<1> PICK l, r : l = Left /\ r = Right
  OBVIOUS
<1>1. Freed /\ pc = "link" /\ ~LeftAdjacent /\ ~RightAdjacent
  BY DEF InsertBlock, Freed
<1>2. PICK new \in Nodes \ used :
        /\ used' = used \cup {new}
        /\ node' = [n \in Nodes |->
              IF n = new THEN Block(req.start, req.pages, l, r)
              ELSE IF n = l THEN [node[n] EXCEPT !.next = new]
              ELSE IF n = r THEN [node[n] EXCEPT !.prev = new]
              ELSE node[n]]
  BY Zenon DEF InsertBlock, NewBlock
<1>3. used' = used \cup {new} /\ new \in Nodes /\ new # NULL /\ new \notin used
  BY <1>2, BlockChainAssumption DEF NULL
<1>4. /\ req \in held /\ req.start \in Nat /\ req.pages \in Nat /\ req.pages > 0
      /\ l # NULL => l \in used /\ EndOf(l) <= req.start /\ node[l].next = r
      /\ r # NULL => r \in used /\ req.start + req.pages <= node[r].start /\ node[r].prev = l
      /\ \A b \in used : \/ l # NULL /\ (b = l \/ Before(b, l))
                         \/ r # NULL /\ (b = r \/ Before(r, b))
  BY <1>1, Neighbours
<1>0. node \in [Nodes -> Records] /\ used \subseteq Nodes
  BY Zenon DEF ChainTypeOK
<1>5. /\ \A b \in used : /\ b \in Nodes /\ b # NULL /\ node[b].start \in Nat /\ node[b].size \in Nat
                         /\ EndOf(b) \in Nat /\ node[b].start < EndOf(b)
                         /\ HEAP_START <= node[b].start /\ EndOf(b) <= HEAP_START + MAX_HEAP_SIZE
      /\ \A b, c \in used : c # b => EndOf(b) < node[c].start \/ EndOf(c) < node[b].start
  <2>1. \A b \in Nodes : b # NULL /\ node[b].start \in Nat /\ node[b].size \in Nat /\ EndOf(b) \in Nat
    BY NodeTypes, Zenon
  <2>3. \A b \in used : /\ node[b].size > 0 /\ HEAP_START <= node[b].start
                        /\ EndOf(b) <= HEAP_START + MAX_HEAP_SIZE
    BY DEF BlocksOK
  <2>4. \A b \in used : node[b].start < EndOf(b)
    BY <2>1, <2>3, <1>0 DEF EndOf
  <2> QED BY <1>0, <2>1, <2>3, <2>4, Zenon DEF BlocksOK
<1>6. /\ l # NULL => EndOf(l) < req.start
      /\ r # NULL => req.start + req.pages < node[r].start
  BY <1>1, <1>4, <1>5 DEF LeftAdjacent, RightAdjacent
<1>7. l \in Nodes \cup {NULL} /\ r \in Nodes \cup {NULL} /\ new # l /\ new # r
      /\ (l # NULL /\ r # NULL => l # r)
  BY <1>3, <1>4, <1>5
<1>8. /\ node' \in [Nodes -> Records]
      /\ node'[new] = [start |-> req.start, size |-> req.pages, prev |-> l, next |-> r]
      /\ \A b \in used :
           /\ node'[b].start = node[b].start /\ node'[b].size = node[b].size
           /\ node'[b].next = IF b = l THEN new ELSE node[b].next
           /\ node'[b].prev = IF b = r THEN new ELSE node[b].prev
  <2>1. \A b \in Nodes : node[b] \in Records
    BY <1>0, Zenon
  <2>2. \A b \in Nodes : node'[b] \in Records
    <3> SUFFICES ASSUME NEW b \in Nodes PROVE node'[b] \in Records
      OBVIOUS
    <3>1. CASE b = new
      BY <3>1, <1>2, <1>4, <1>7 DEF Block
    <3>2. CASE b # new /\ b = l
      BY <3>2, <1>2, <2>1
    <3>3. CASE b # new /\ b # l
      BY <3>3, <1>2, <2>1, Zenon
    <3> QED BY <3>1, <3>2, <3>3, Zenon
  <2>3. ASSUME NEW b \in used
        PROVE  /\ node'[b].start = node[b].start /\ node'[b].size = node[b].size
               /\ node'[b].next = IF b = l THEN new ELSE node[b].next
               /\ node'[b].prev = IF b = r THEN new ELSE node[b].prev
    <3>0. b \in Nodes /\ node[b] \in Records /\ b # new /\ b # NULL
      BY <1>0, <1>3, <1>5
    <3>1. CASE b = l
      BY <3>0, <3>1, <1>2, <1>7
    <3>2. CASE b # l /\ b = r
      BY <3>0, <3>2, <1>2
    <3>3. CASE b # l /\ b # r
      BY <3>0, <3>3, <1>2
    <3> QED BY <3>1, <3>2, <3>3, Zenon
  <2>4. node' = [b \in Nodes |-> node'[b]]
    BY <1>2
  <2>5. node'[new] = [start |-> req.start, size |-> req.pages, prev |-> l, next |-> r]
    BY <1>2, Zenon DEF Block
  <2> QED BY <2>2, <2>3, <2>4, <2>5
<1>8a. /\ node'[new].start = req.start /\ node'[new].size = req.pages
       /\ \A b \in used : node'[b].start = node[b].start /\ node'[b].size = node[b].size
  BY <1>8
<1>8b. /\ node'[new].prev = l /\ node'[new].next = r
       /\ \A b \in used : /\ node'[b].next = IF b = l THEN new ELSE node[b].next
                          /\ node'[b].prev = IF b = r THEN new ELSE node[b].prev
  BY <1>8
<1>9. EndOf(new)' = req.start + req.pages /\ \A b \in used : EndOf(b)' = EndOf(b)
  BY <1>8a, Zenon DEF EndOf
<1>10. \A b \in used : EndOf(b) < req.start \/ req.start + req.pages < node[b].start
  <2>1. \A b \in used : l # NULL /\ Before(b, l) => EndOf(b) < req.start
    BY <1>4, <1>5, <1>6 DEF Before
  <2>2. \A b \in used : r # NULL /\ Before(r, b) => req.start + req.pages < node[b].start
    BY <1>4, <1>5, <1>6 DEF Before
  <2> QED BY <1>4, <1>6, <2>1, <2>2, Zenon
<1>11. BlocksOK'
  <2>1. /\ node'[new].size > 0 /\ HEAP_START <= req.start
        /\ req.start + req.pages <= HEAP_START + MAX_HEAP_SIZE
    BY <1>4, <1>8a, Zenon DEF SpansOK
  <2>2. \A b \in used' : /\ node'[b].size > 0 /\ HEAP_START <= node'[b].start
                         /\ EndOf(b)' <= HEAP_START + MAX_HEAP_SIZE
    BY <1>3, <1>5, <1>8a, <1>9, <2>1, Zenon DEF BlocksOK
  <2>3. ASSUME NEW b \in used', NEW c \in used', c # b
        PROVE  EndOf(b)' < node'[c].start \/ EndOf(c)' < node'[b].start
    <3>1. CASE b \in used /\ c \in used
      BY <2>3, <3>1, <1>5, <1>8a, <1>9, Zenon
    <3>2. CASE b = new /\ c \in used
      BY <3>2, <1>8a, <1>9, <1>10, Zenon
    <3>3. CASE c = new /\ b \in used
      BY <3>3, <1>8a, <1>9, <1>10, Zenon
    <3> QED BY <2>3, <3>1, <3>2, <3>3, <1>3, Zenon
  <2> QED BY <2>2, <2>3, Zenon DEF BlocksOK
<1>12. LinksOK'
  <2>1. /\ \A b, c \in used : Before(b, c)' <=> Before(b, c)
        /\ \A b \in used : Before(b, new)' <=> (l # NULL /\ (b = l \/ Before(b, l)))
        /\ \A b \in used : Before(new, b)' <=> (r # NULL /\ (b = r \/ Before(r, b)))
        /\ ~Before(new, new)'
    <3>1. \A b, c \in used : Before(b, c)' <=> Before(b, c)
      BY <1>8a, Zenon DEF Before
    <3>2. /\ \A b \in used : l # NULL /\ (b = l \/ Before(b, l)) => node[b].start < req.start
          /\ \A b \in used : r # NULL /\ (b = r \/ Before(r, b)) => req.start < node[b].start
      BY <1>4, <1>5, <1>6 DEF Before
    <3>3. /\ \A b \in used : Before(b, new)' <=> node[b].start < req.start
          /\ \A b \in used : Before(new, b)' <=> req.start < node[b].start
          /\ ~Before(new, new)'
      BY <1>4, <1>8a DEF Before
    <3>4. \A b \in used : ~(node[b].start < req.start /\ req.start < node[b].start)
      BY <1>4, <1>5
    <3> QED BY <1>4, <3>1, <3>2, <3>3, <3>4, Zenon
  <2>2. /\ l # NULL => l \in used /\ node[l].next = r
        /\ r # NULL => r \in used /\ node[r].prev = l
    BY <1>4, Zenon
  <2>6. l # NULL /\ r # NULL => Before(l, r)
    BY <2>2, BlockOrder DEF NextOK
  <2>3. NextOK(new)' /\ PrevOK(new)'
    <3>0. \A c \in used' : c = new \/ c \in used
      BY <1>3, Zenon
    <3>1. /\ r # NULL => Before(new, r)' /\ \A c \in used' : ~(Before(new, c)' /\ Before(c, r)')
          /\ r = NULL => \A c \in used' : ~Before(new, c)'
      <4>1. r = NULL => \A c \in used' : ~Before(new, c)'
        BY <2>1, <3>0, Zenon
      <4>2. r # NULL => Before(new, r)' /\ \A c \in used : ~(Before(new, c)' /\ Before(c, r)')
        BY <2>1, <2>2, BlockOrder
      <4> QED BY <4>1, <4>2, <2>1, <3>0, Zenon
    <3>2. /\ l # NULL => Before(l, new)' /\ \A c \in used' : ~(Before(l, c)' /\ Before(c, new)')
          /\ l = NULL => \A c \in used' : ~Before(c, new)'
      <4>1. l = NULL => \A c \in used' : ~Before(c, new)'
        BY <2>1, <3>0, Zenon
      <4>2. l # NULL => Before(l, new)' /\ \A c \in used : ~(Before(l, c)' /\ Before(c, new)')
        BY <2>1, <2>2, BlockOrder, Zenon
      <4> QED BY <4>1, <4>2, <2>1, <3>0, Zenon
    <3>3. NextOK(new)'
      BY <3>1, <2>2, <1>3, <1>8b DEF NextOK
    <3>4. PrevOK(new)'
      BY <3>2, <2>2, <1>3, <1>8b DEF PrevOK
    <3> QED BY <3>3, <3>4, Zenon
  <2>4. ASSUME NEW b \in used PROVE NextOK(b)'
    <3>1. CASE b = l
      <4>1. /\ node'[b].next = new /\ new # NULL /\ new \in used' /\ b # NULL
        BY <3>1, <1>3, <1>8b, BlockOrder, Zenon
      <4>2. Before(b, new)' /\ \A c \in used' : ~(Before(b, c)' /\ Before(c, new)')
        BY <3>1, <4>1, <2>1, <1>3, BlockOrder
      <4> QED BY <4>1, <4>2, Zenon DEF NextOK
    <3>2. CASE b # l
      <4>1. node'[b].next = node[b].next /\ NextOK(b)
        BY <3>2, <1>8b, BlockOrder
      <4>2. node[b].next = NULL => ~Before(b, new)'
        BY <3>2, <4>1, <2>1, <2>2, BlockOrder, Zenon DEF NextOK
      <4>3. ASSUME node[b].next # NULL, Before(b, new)', Before(new, node[b].next)'
            PROVE  FALSE
        <5>1. PICK n : n = node[b].next
          BY Zenon
        <5>2. n \in used /\ \A c \in used : ~(Before(b, c) /\ Before(c, n))
          BY <4>1, <4>3, <5>1, Zenon DEF NextOK
        <5>3. l \in used /\ Before(b, l)
          BY <4>3, <3>2, <2>1, <2>2, Zenon
        <5>5. Before(new, n)'
          BY <4>1, <4>3, <5>1 DEF Before
        <5>4. r \in used /\ (n = r \/ Before(r, n)) /\ Before(l, r)
          BY <5>2, <5>3, <5>5, <2>1, <2>2, <2>6, BlockOrder, Zenon
        <5> QED BY <5>2, <5>3, <5>4, BlockOrder
      <4> QED BY <4>1, <4>2, <4>3, <2>1, <1>3, Zenon DEF NextOK
    <3> QED BY <3>1, <3>2, Zenon
  <2>5. ASSUME NEW b \in used PROVE PrevOK(b)'
    <3>1. CASE b = r
      <4>1. /\ node'[b].prev = new /\ new # NULL /\ new \in used' /\ b # NULL
        BY <3>1, <1>3, <1>8b, BlockOrder, Zenon
      <4>2. Before(new, b)' /\ \A c \in used' : ~(Before(new, c)' /\ Before(c, b)')
        BY <3>1, <4>1, <2>1, <1>3, BlockOrder
      <4> QED BY <4>1, <4>2, Zenon DEF PrevOK
    <3>2. CASE b # r
      <4>1. node'[b].prev = node[b].prev /\ PrevOK(b)
        BY <3>2, <1>8b, BlockOrder
      <4>2. node[b].prev = NULL => ~Before(new, b)'
        BY <3>2, <4>1, <2>1, <2>2, BlockOrder, Zenon DEF PrevOK
      <4>3. ASSUME node[b].prev # NULL, Before(node[b].prev, new)', Before(new, b)'
            PROVE  FALSE
        <5>1. PICK n : n = node[b].prev
          BY Zenon
        <5>2. n \in used /\ \A c \in used : ~(Before(n, c) /\ Before(c, b))
          BY <4>1, <4>3, <5>1, Zenon DEF PrevOK
        <5>3. r \in used /\ Before(r, b)
          BY <4>3, <3>2, <2>1, <2>2, Zenon
        <5>5. Before(n, new)'
          BY <4>1, <4>3, <5>1, Zenon DEF Before
        <5>4. l \in used /\ (n = l \/ Before(n, l)) /\ Before(l, r)
          BY <5>2, <5>3, <5>5, <2>1, <2>2, <2>6, BlockOrder, Zenon
        <5> QED BY <5>2, <5>3, <5>4, BlockOrder, Zenon
      <4> QED BY <4>1, <4>2, <4>3, <2>1, <1>3, Zenon DEF PrevOK
    <3> QED BY <3>1, <3>2, Zenon
  <2> QED BY <2>3, <2>4, <2>5, <1>3, Zenon DEF LinksOK
<1>13. \A s \in held : s # req =>
           \A c \in used' : s.start + s.pages <= node'[c].start \/ EndOf(c)' <= s.start
  <2> SUFFICES ASSUME NEW s \in held, s # req, NEW c \in used'
               PROVE  s.start + s.pages <= node'[c].start \/ EndOf(c)' <= s.start
    BY Zenon
  <2>1. CASE c = new
    BY <2>1, <1>4, <1>8a, <1>9, Zenon DEF SpansOK
  <2>2. CASE c \in used
    BY <2>2, <1>8a, <1>9 DEF SpansOK
  <2> QED BY <2>1, <2>2, <1>3, Zenon
<1>14. blockchain \in used' /\ used' \subseteq Nodes
  <2>1. blockchain # NULL
    BY <1>1, Zenon DEF CallOK
  <2> QED BY <2>1, <1>0, <1>3, Zenon DEF HeadOK
<1>15. \A b \in used : \E c \in used' : node'[c].start <= node[b].start /\ EndOf(b) <= EndOf(c)'
  <2>1. \A b \in used : b \in used' /\ node'[b].start <= node[b].start /\ EndOf(b) <= EndOf(b)'
    BY <1>3, <1>5, <1>8a, <1>9
  <2> QED BY <2>1, Zenon
<1>16. \E c \in used' : node'[c].start <= req.start /\ req.start + req.pages <= EndOf(c)'
  <2>1. new \in used' /\ node'[new].start <= req.start /\ req.start + req.pages <= EndOf(new)'
    BY <1>3, <1>4, <1>8a, <1>9
  <2> QED BY <2>1, Zenon
<1> QED BY <1>1, <1>8, <1>11, <1>12, <1>13, <1>14, <1>15, <1>16, FreedStep

\* ChainInv holds in every reachable state.
LEMMA ChainInvariant == Spec => []ChainInv
<1>1. ChainInv /\ [Next]_chainVars => ChainInv'
  <2> SUFFICES ASSUME ChainInv, [Next]_chainVars PROVE ChainInv'
    OBVIOUS
  <2>1. CASE \E pages \in Sizes : vmm_mmap(pages)
    BY <2>1, BootstrapStep, WalkSteps DEF vmm_mmap
  <2>2. CASE \E s \in held : vmm_free_pages(s)
    BY <2>2, FreeFirstStep, WalkSteps DEF vmm_free_pages
  <2>3. CASE Step
    <3>1. CASE SearchNext \/ SearchFail \/ WalkLeft \/ Rewind
      BY <3>1, WalkSteps
    <3>2. CASE SearchFound
      BY <3>2, FoundStep
    <3>3. CASE MergeLeft
      BY <3>3, MergeLeftStep, Zenon
    <3>4. CASE MergeRight
      BY <3>4, MergeRightStep
    <3>5. CASE InsertBlock
      BY <3>5, InsertStep
    <3> QED BY <2>3, <3>1, <3>2, <3>3, <3>4, <3>5 DEF Step
  <2>4. CASE UNCHANGED chainVars
    <3> USE <2>4 DEF chainVars
    <3>1. ChainTypeOK'
      BY DEF ChainInv, ChainTypeOK
    <3>2. BlocksOK' /\ LinksOK'
      BY Zenon DEF ChainInv, BlocksOK, LinksOK, NextOK, PrevOK, Before, EndOf
    <3>3. HeadOK' /\ SpansOK' /\ CoverOK'
      BY Zenon DEF ChainInv, HeadOK, SpansOK, CoverOK, Before, EndOf
    <3>4. CallOK'
      BY DEF ChainInv, CallOK, Before
    <3> QED BY <3>1, <3>2, <3>3, <3>4, Zenon DEF ChainInv
  <2> QED BY <2>1, <2>2, <2>3, <2>4 DEF Next
<1> QED BY <1>1, InitChain, PTL DEF Spec

------------------------------------------------------------------------------
(* The theorems. *)

\* Between two calls of vmm_mmap and vmm_free_pages the nodes in use are a
\* doubly linked list from the head, sorted by address, and no two blocks touch.
THEOREM ChainIsWellFormed == Spec => []ChainWellFormed
<1>1. ChainInv => ChainWellFormed
  <2> SUFFICES ASSUME ChainInv, pc = "idle"
               PROVE  /\ (blockchain = NULL) = (used = {})
                      /\ blockchain # NULL => blockchain \in used
                      /\ \A b \in used :
                           LET p == node[b].prev
                               n == node[b].next
                           IN  /\ node[b].size > 0
                               /\ (b = blockchain) = (p = NULL)
                               /\ p # NULL => p \in used /\ node[p].next = b /\ EndOf(p) < node[b].start
                               /\ n # NULL => n \in used /\ node[n].prev = b /\ EndOf(b) < node[n].start
    BY DEF ChainInv, ChainWellFormed
  <2>1. /\ (blockchain = NULL) = (used = {})
        /\ blockchain # NULL => blockchain \in used
        /\ \A c \in used : ~Before(c, blockchain)
    BY Zenon DEF ChainInv, HeadOK
  <2>2. /\ \A b \in used : /\ node[b].start \in Nat /\ node[b].size \in Nat /\ EndOf(b) \in Nat
                           /\ node[b].size > 0 /\ b # NULL /\ NextOK(b) /\ PrevOK(b)
        /\ \A b, c \in used : c # b => EndOf(b) < node[c].start \/ EndOf(c) < node[b].start
    BY NodeTypes, BlockOrder, Zenon DEF ChainInv, ChainTypeOK, BlocksOK
  <2>3. \A b, c \in used : /\ Before(b, c) => EndOf(b) < node[c].start
                           /\ b # c => Before(b, c) \/ Before(c, b)
                           /\ ~(Before(b, c) /\ Before(c, b))
    <3>1. \A b, c \in used : Before(b, c) => EndOf(b) < node[c].start
      <4> SUFFICES ASSUME NEW b \in used, NEW c \in used, node[b].start < node[c].start
                   PROVE  EndOf(b) < node[c].start
        BY Zenon DEF Before
      <4>1. node[c].start < EndOf(c)
        BY <2>2 DEF EndOf
      <4> QED BY <2>2, <4>1
    <3> QED BY <3>1, BlockOrder, Zenon
  <2> SUFFICES ASSUME NEW b \in used
               PROVE  /\ (b = blockchain) = (node[b].prev = NULL)
                      /\ node[b].prev # NULL =>
                           /\ node[b].prev \in used /\ node[node[b].prev].next = b
                           /\ EndOf(node[b].prev) < node[b].start
                      /\ node[b].next # NULL =>
                           /\ node[b].next \in used /\ node[node[b].next].prev = b
                           /\ EndOf(b) < node[node[b].next].start
    BY <2>1, <2>2, Zenon
  <2>4. (b = blockchain) = (node[b].prev = NULL)
    BY <2>1, <2>2, <2>3, Zenon DEF PrevOK
  <2>5. node[b].prev # NULL =>
          /\ node[b].prev \in used /\ node[node[b].prev].next = b
          /\ EndOf(node[b].prev) < node[b].start
    <3> SUFFICES ASSUME NEW p, p = node[b].prev, p # NULL
                 PROVE  p \in used /\ node[p].next = b /\ EndOf(p) < node[b].start
      BY Zenon
    <3>1. p \in used /\ Before(p, b) /\ \A c \in used : ~(Before(p, c) /\ Before(c, b))
      BY <2>2, Zenon DEF PrevOK
    <3>2. node[p].next # NULL
      BY <2>2, <3>1, Zenon DEF NextOK
    <3>3. /\ node[p].next \in used /\ Before(p, node[p].next)
          /\ \A c \in used : ~(Before(p, c) /\ Before(c, node[p].next))
      BY <2>2, <3>1, <3>2, Zenon DEF NextOK
    <3> QED BY <2>3, <3>1, <3>3
  <2>6. node[b].next # NULL =>
          /\ node[b].next \in used /\ node[node[b].next].prev = b
          /\ EndOf(b) < node[node[b].next].start
    <3> SUFFICES ASSUME NEW n, n = node[b].next, n # NULL
                 PROVE  n \in used /\ node[n].prev = b /\ EndOf(b) < node[n].start
      BY Zenon
    <3>1. n \in used /\ Before(b, n) /\ \A c \in used : ~(Before(b, c) /\ Before(c, n))
      BY <2>2, Zenon DEF NextOK
    <3>2. node[n].prev # NULL
      BY <2>2, <3>1, Zenon DEF PrevOK
    <3>3. /\ node[n].prev \in used /\ Before(node[n].prev, n)
          /\ \A c \in used : ~(Before(node[n].prev, c) /\ Before(c, n))
      BY <2>2, <3>1, <3>2 DEF PrevOK
    <3> QED BY <2>3, <3>1, <3>3
  <2> QED BY <2>4, <2>5, <2>6, Zenon
<1> QED BY <1>1, ChainInvariant, PTL

------------------------------------------------------------------------------
(* The refinement of AddressSpace. *)

\* The free pages of the address space.
FreePages == IF first_alloc THEN Heap ELSE UNION {BlockPages(b) : b \in used}

\* The free pages are the pages of the heap that no caller owns.
FreeIsRest == FreePages = {p \in Heap : \A s \in held : p \notin SpanPages(s)}

\* ChainInv says so.
LEMMA FreeIsTheRest == ChainInv => FreeIsRest
<1> SUFFICES ASSUME ChainInv
             PROVE  FreePages = {p \in Heap : \A s \in held : p \notin SpanPages(s)}
  BY DEF FreeIsRest
<1>1. CASE first_alloc
  BY <1>1 DEF FreePages, ChainInv, CoverOK
<1>2. CASE ~first_alloc
  <2>1. /\ \A b \in used : node[b].start \in Nat /\ EndOf(b) \in Nat
        /\ \A s \in held : s.start \in Nat /\ s.pages \in Nat
        /\ Heap \subseteq Nat
    BY NodeTypes, BlockChainAssumption DEF ChainInv, ChainTypeOK, SpansOK, Heap
  <2>2. \A b \in used : BlockPages(b) \subseteq Heap
    BY <2>1, BlockChainAssumption DEF ChainInv, BlocksOK, BlockPages, Heap
  <2>3. \A b \in used : \A p \in BlockPages(b) : \A s \in held : p \notin SpanPages(s)
    BY <2>1 DEF ChainInv, SpansOK, BlockPages, SpanPages
  <2>4. \A p \in Heap : (\E b \in used : p \in BlockPages(b)) \/ (\E s \in held : p \in SpanPages(s))
    BY <1>2, <2>1 DEF ChainInv, CoverOK, BlockPages, SpanPages
  <2> QED BY <1>2, <2>2, <2>3, <2>4, Zenon DEF FreePages
<1> QED BY <1>1, <1>2

\* A run of free pages lies in one block: the page after a block is not free.
LEMMA RunInBlock ==
  ASSUME ChainInv, ~first_alloc, NEW p \in Heap, NEW n \in Nat, n > 0,
         p .. p + n - 1 \subseteq FreePages
  PROVE  \E b \in used : node[b].start <= p /\ p + n <= EndOf(b)
<1>1. /\ \A b \in used : node[b].start \in Nat /\ EndOf(b) \in Nat
      /\ p \in Nat
      /\ \A b, c \in used : c # b => EndOf(b) < node[c].start \/ EndOf(c) < node[b].start
  BY NodeTypes, BlockChainAssumption DEF ChainInv, ChainTypeOK, BlocksOK, Heap
<1>2. \A q \in p .. p + n - 1 : \E b \in used : node[b].start <= q /\ q < EndOf(b)
  BY <1>1 DEF FreePages, BlockPages
<1>3. p \in p .. p + n - 1
  BY <1>1
<1>4. PICK b \in used : node[b].start <= p /\ p < EndOf(b)
  BY <1>2, <1>3, Zenon
<1>5. ASSUME EndOf(b) < p + n PROVE FALSE
  <2>1. EndOf(b) \in p .. p + n - 1
    BY <1>1, <1>4, <1>5
  <2>2. PICK c \in used : node[c].start <= EndOf(b) /\ EndOf(b) < EndOf(c)
    BY <1>2, <2>1
  <2> QED BY <1>1, <1>4, <2>2
<1> QED BY <1>1, <1>4, <1>5

\* The first block that is long enough holds the lowest free run of the length.
LEMMA BlockFits ==
  ASSUME ChainInv, ~first_alloc, NEW b \in used, NEW n \in Sizes, node[b].size >= n,
         \A c \in used : Before(c, b) => node[c].size < n
  PROVE  /\ node[b].start \in Heap
         /\ node[b].start .. node[b].start + n - 1 \subseteq FreePages
         /\ \A p \in Heap : p .. p + n - 1 \subseteq FreePages => node[b].start <= p
<1>1. /\ \A c \in used : node[c].start \in Nat /\ node[c].size \in Nat /\ EndOf(c) \in Nat
      /\ n \in Nat /\ n > 0
  BY NodeTypes, BlockChainAssumption DEF ChainInv, ChainTypeOK
<1>2. node[b].start \in Heap
  <2>1. HEAP_START <= node[b].start /\ EndOf(b) <= HEAP_START + MAX_HEAP_SIZE
    BY DEF ChainInv, BlocksOK
  <2> QED BY <1>1, <2>1, BlockChainAssumption DEF EndOf, Heap
<1>3. node[b].start .. node[b].start + n - 1 \subseteq FreePages
  <2>1. node[b].start .. node[b].start + n - 1 \subseteq BlockPages(b)
    BY <1>1 DEF BlockPages, EndOf
  <2> QED BY <2>1, Zenon DEF FreePages
<1>4. ASSUME NEW p \in Heap, p .. p + n - 1 \subseteq FreePages
      PROVE  node[b].start <= p
  <2>1. PICK c \in used : node[c].start <= p /\ p + n <= EndOf(c)
    BY <1>1, <1>4, RunInBlock
  <2>2. p \in Nat
    BY BlockChainAssumption DEF Heap
  <2>3. ~Before(c, b)
    BY <1>1, <2>1, <2>2 DEF EndOf
  <2> QED BY <1>1, <2>1, <2>2, <2>3 DEF Before
<1> QED
  BY <1>2, <1>3, <1>4

\* First fit serves the lowest run, a failing search means that there is no
\* run, and a freed span can be served again: every step of vmm_mmap and
\* vmm_free_pages is a step of AddressSpace, or leaves its state alone.
THEOREM ChainImplementsAddressSpace == Spec => ImplementsAddressSpace
<1>1. Init => Space!Init
  BY DEF Init, Space!Init
<1>2. /\ ChainInv /\ ChainInv' /\ FreeIsRest /\ FreeIsRest' /\ [Next]_chainVars
      => [Space!Next]_<<FreePages, held, ret>>
  <2> SUFFICES ASSUME ChainInv, ChainInv', FreeIsRest, FreeIsRest', [Next]_chainVars
               PROVE  [Space!Next]_<<FreePages, held, ret>>
    OBVIOUS
  <2>1. /\ FreePages = {p \in Heap : \A s \in held : p \notin SpanPages(s)}
        /\ FreePages' = {p \in Heap : \A s \in held' : p \notin SpanPages(s)}
        /\ FreePages \subseteq Heap
    BY Zenon DEF FreeIsRest, SpanPages
  <2>2. /\ \A s \in held : s \in [start : Nat, pages : Nat] /\ SpanPages(s) \subseteq Heap
        /\ \A s, t \in held : s # t => SpanPages(s) \cap SpanPages(t) = {}
    BY BlockChainAssumption DEF ChainInv, SpansOK, SpanPages, Heap
  \* A step that changes neither the spans nor the answer is a stuttering step.
  <2>3. ASSUME held' = held, ret' = ret
        PROVE  UNCHANGED <<FreePages, held, ret>>
    BY <2>1, <2>3, Zenon
  \* A request fails.
  <2>4. ASSUME NEW n \in Sizes, held' = held, ret' = NULL, ~first_alloc,
               \A b \in used : node[b].size < n
        PROVE  Space!Serve(n)
    <3>1. n \in Nat /\ n > 0
      BY BlockChainAssumption
    <3>2. ASSUME NEW p \in Heap, p .. p + n - 1 \subseteq FreePages
          PROVE  FALSE
      <4>1. PICK b \in used : node[b].start <= p /\ p + n <= EndOf(b)
        BY <2>4, <3>1, <3>2, RunInBlock
      <4> QED BY <2>4, <3>1, <4>1, NodeTypes, BlockChainAssumption
              DEF EndOf, Heap, ChainInv, ChainTypeOK
    <3>3. ~ \E p \in Heap : Space!Fits(p, n)
      BY <3>2 DEF Space!Fits, FreePages
    <3>4. FreePages' = FreePages
      BY <2>1, <2>4, Zenon
    <3> QED BY <2>4, <3>3, <3>4 DEF Space!Serve, FreePages
  \* A request is served.
  <2>5. ASSUME NEW n \in Sizes, ret' \in Heap, ret' .. ret' + n - 1 \subseteq FreePages,
               held' = held \cup {Span(ret', n)},
               \A p \in Heap : p .. p + n - 1 \subseteq FreePages => ret' <= p
        PROVE  Space!Serve(n)
    <3>1. FreePages' = FreePages \ (ret' .. ret' + n - 1)
      <4>1. SpanPages(Span(ret', n)) = ret' .. ret' + n - 1
        BY DEF SpanPages, Span
      <4> QED BY <2>1, <2>5, <4>1, Zenon
    <3>2. \A p : Space!Fits(p, n) <=> p \in Heap /\ p .. p + n - 1 \subseteq FreePages
      BY DEF Space!Fits, FreePages
    <3>3. \E p \in Heap : Space!Fits(p, n)
      BY <2>5, <3>2
    <3>4. Space!Fits(ret', n) /\ \A p \in Heap : Space!Fits(p, n) => ret' <= p
      BY <2>5, <3>2
    <3> QED BY <2>5, <3>1, <3>3, <3>4 DEF Space!Serve, FreePages, Span
  \* A span is freed.
  <2>6. ASSUME NEW s \in held, held' = held \ {s}, ret' = NULL
        PROVE  Space!Free(s)
    <3>1. FreePages' = FreePages \cup SpanPages(s)
      BY <2>1, <2>2, <2>6
    <3> QED BY <2>6, <3>1 DEF Space!Free, Space!Pages, SpanPages, FreePages
  <2>7. ASSUME NEW n \in Sizes, MmapBootstrap(n)
        PROVE  Space!Serve(BasePages)
    <3>1. first_alloc /\ ret' = HEAP_START /\ held' = held \cup {Span(HEAP_START, BasePages)}
      BY <2>7 DEF MmapBootstrap
    <3>2. /\ HEAP_START \in Heap
          /\ HEAP_START .. HEAP_START + BasePages - 1 \subseteq FreePages
          /\ \A p \in Heap : HEAP_START <= p
      BY <3>1, BlockChainAssumption DEF FreePages, Heap
    <3> QED BY <2>5, <3>1, <3>2, BlockChainAssumption
  <2>8. CASE \E n \in Sizes : vmm_mmap(n)
    <3> PICK n \in Sizes : vmm_mmap(n)
      BY <2>8
    <3>1. CASE MmapBootstrap(n)
      BY <3>1, <2>7, BlockChainAssumption DEF Space!Next
    <3>2. CASE MmapNoBlocks(n)
      <4>1. used = {}
        BY <3>2, Zenon DEF MmapNoBlocks, ChainInv, HeadOK
      <4>2. Space!Serve(n)
        BY <3>2, <4>1, <2>4, Zenon DEF MmapNoBlocks
      <4> QED BY <4>2 DEF Space!Next
    <3>3. CASE MmapCall(n)
      BY <3>3, <2>3 DEF MmapCall, FreePages
    <3> QED BY <3>1, <3>2, <3>3 DEF vmm_mmap
  <2>9. CASE \E s \in held : vmm_free_pages(s)
    <3> PICK s \in held : vmm_free_pages(s)
      BY <2>9
    <3>1. CASE FreeFirst(s)
      <4>1. Space!Free(s)
        BY <3>1, <2>6, Zenon DEF FreeFirst
      <4> QED BY <4>1, Zenon DEF Space!Next
    <3>2. CASE FreeCall(s)
      BY <3>2, <2>3, Zenon DEF FreeCall
    <3> QED BY <3>1, <3>2 DEF vmm_free_pages
  <2>10. CASE SearchFail
    <3>1. req.pages \in Sizes /\ held' = held /\ ret' = NULL /\ ~first_alloc
          /\ \A b \in used : node[b].size < req.pages
      BY <2>10, Zenon DEF SearchFail, ChainInv, CallOK, CoverOK
    <3>2. Space!Serve(req.pages)
      BY <3>1, <2>4, Zenon
    <3> QED BY <3>1, <3>2 DEF Space!Next
  <2>11. CASE SearchFound
    <3>1. /\ req.pages \in Sizes /\ cur \in used /\ node[cur].size >= req.pages /\ ~first_alloc
          /\ ret' = node[cur].start /\ held' = held \cup {Span(node[cur].start, req.pages)}
          /\ \A b \in used : Before(b, cur) => node[b].size < req.pages
      BY <2>11, Zenon DEF SearchFound, Enough, ChainInv, CallOK, CoverOK
    <3>3. /\ ret' \in Heap
          /\ ret' .. ret' + req.pages - 1 \subseteq FreePages
          /\ \A p \in Heap : p .. p + req.pages - 1 \subseteq FreePages => ret' <= p
      BY <3>1, BlockFits, Zenon
    <3>6. Space!Serve(req.pages)
      BY <3>1, <3>3, <2>5, Zenon
    <3> QED BY <3>1, <3>6 DEF Space!Next
  <2>12. CASE MergeLeft \/ MergeRight \/ InsertBlock
    <3>1. pc = "link" /\ held' = held \ {req} /\ ret' = NULL
      BY <2>12, Zenon DEF MergeLeft, MergeRight, InsertBlock, Freed
    <3>2. req \in held
      BY <3>1 DEF ChainInv, CallOK
    <3>3. Space!Free(req)
      BY <3>1, <3>2, <2>6
    <3> QED BY <3>2, <3>3 DEF Space!Next
  <2>13. CASE SearchNext \/ WalkLeft \/ Rewind \/ UNCHANGED chainVars
    BY <2>13, <2>3, Zenon DEF SearchNext, WalkLeft, Rewind, chainVars
  <2> QED BY <2>8, <2>9, <2>10, <2>11, <2>12, <2>13 DEF Next, Step
<1> QED
  BY <1>1, <1>2, ChainInvariant, FreeIsTheRest, PTL
     DEF Spec, ImplementsAddressSpace, Space!Spec, FreePages

------------------------------------------------------------------------------
(* The partition of the heap, which counts blocks. *)

INSTANCE FiniteSetTheorems

\* Also in the middle of a call, every page of the heap is in one free block or
\* in one span that vmm_mmap has served.
THEOREM ChainPartition == Spec => []PagePartition
<1>1. ChainInv => PagePartition
  <2> SUFFICES ASSUME ChainInv, ~first_alloc, NEW p \in Heap
               PROVE  Cardinality({b \in used : p \in BlockPages(b)})
                        + Cardinality({s \in held : p \in SpanPages(s)}) = 1
    BY DEF PagePartition
  <2> DEFINE blocks == {b \in used : p \in BlockPages(b)}
             spans  == {s \in held : p \in SpanPages(s)}
  <2>1. p \in Nat
    BY BlockChainAssumption DEF Heap
  <2>2. /\ \A b \in used : node[b].start \in Nat /\ EndOf(b) \in Nat
        /\ \A s \in held : s.start \in Nat /\ s.pages \in Nat
    BY NodeTypes, Zenon DEF ChainInv, ChainTypeOK, SpansOK
  <2>3. /\ blocks = {b \in used : node[b].start <= p /\ p < EndOf(b)}
        /\ spans = {s \in held : s.start <= p /\ p < s.start + s.pages}
    BY <2>1, <2>2 DEF BlockPages, SpanPages
  <2> HIDE DEF blocks, spans
  <2>4. (\E b : blocks = {b} /\ spans = {}) \/ (\E s : blocks = {} /\ spans = {s})
    <3>1. \A b, c \in blocks : b = c
      BY <2>1, <2>2, <2>3 DEF ChainInv, BlocksOK
    <3>2. \A s, t \in spans : s = t
      BY <2>1, <2>2, <2>3 DEF ChainInv, SpansOK
    <3>3. \A b \in blocks, s \in spans : FALSE
      BY <2>1, <2>2, <2>3 DEF ChainInv, SpansOK
    <3>4. blocks # {} \/ spans # {}
      BY <2>3 DEF ChainInv, CoverOK
    <3> QED BY <3>1, <3>2, <3>3, <3>4
  <2>5. Cardinality({}) = 0 /\ \A x : Cardinality({x}) = 1
    BY FS_EmptySet, FS_Singleton, Zenon
  <2>6. Cardinality(blocks) + Cardinality(spans) = 1
    <3>1. CASE \E b : blocks = {b} /\ spans = {}
      <4>1. Cardinality(blocks) = 1 /\ Cardinality(spans) = 0
        BY <3>1, <2>5, Zenon
      <4> QED BY <4>1
    <3>2. CASE \E s : blocks = {} /\ spans = {s}
      <4>1. Cardinality(blocks) = 0 /\ Cardinality(spans) = 1
        BY <3>2, <2>5, Zenon
      <4> QED BY <4>1
    <3> QED BY <2>4, <3>1, <3>2, Zenon
  <2> QED BY <2>6, Zenon DEF blocks, spans
<1> QED BY <1>1, ChainInvariant, PTL
=============================================================================
