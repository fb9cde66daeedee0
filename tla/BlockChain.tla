----------------------------- MODULE BlockChain -----------------------------
(***************************************************************************)
(* The free blocks of the virtual memory manager: vmm_mmap, vmm_free_pages *)
(* and print_blockchain of src/src/kernel/src/memory/VMM.c.                *)
(*                                                                         *)
(* The free pages of the heap are a doubly linked list of blocks sorted by *)
(* address.  The loops that walk the list are modelled one iteration per   *)
(* step.  Addresses are page numbers.  A list node is memory from kmalloc; *)
(* here kmalloc and kfree serve nodes from a pool and do not call back     *)
(* into the manager; the calls they really make are in KernelHeap.         *)
(***************************************************************************)
EXTENDS Integers, FiniteSetsExt

CONSTANTS
  HEAP_START,     \* first page of the heap (0x200)
  MAX_HEAP_SIZE,  \* pages of the heap (256 * 126)
  BasePages,      \* pages kmalloc asks for while the first node is made (16)
  Sizes,          \* the numbers of pages that callers ask for
  Nodes           \* the addresses kmalloc can return for a free_block

ASSUME BlockChainAssumption ==
  /\ HEAP_START \in Nat \ {0}
  /\ MAX_HEAP_SIZE \in Nat
  /\ BasePages \in Nat \ {0}
  /\ BasePages < MAX_HEAP_SIZE
  /\ BasePages \in Sizes
  /\ Sizes \subseteq Nat \ {0}
  /\ 0 \notin Nodes

VARIABLES
  blockchain,   \* head of the list
  node,         \* the free_block at each address
  used,         \* the addresses that kmalloc has given for nodes
  first_alloc,  \* no block has been made yet
  pc,           \* where the call in progress is
  req,          \* the arguments of the call in progress
  cur,          \* the local variable that walks the list
  held,         \* history: the spans that callers own
  ret           \* history: what the last call returned

chainVars == <<blockchain, node, used, first_alloc, pc, req, cur, held, ret>>

NULL == 0

Heap == HEAP_START .. HEAP_START + MAX_HEAP_SIZE - 1

Span(start, pages) == [start |-> start, pages |-> pages]

SpanPages(s) == s.start .. s.start + s.pages - 1

Block(start, size, prev, next) == [start |-> start, size |-> size, prev |-> prev, next |-> next]

\* The page after the last one of the block at b.
EndOf(b) == node[b].start + node[b].size

\* What an address holds that is not a node: nothing reads it.
NoBlock == Block(0, 0, NULL, NULL)

\* The local variables of a call are gone when it returns.
Return == pc' = "idle" /\ cur' = NULL /\ req' = Span(0, 0)

Init ==
  /\ blockchain = NULL
  /\ node = [n \in Nodes |-> NoBlock]
  /\ used = {}
  /\ first_alloc = TRUE
  /\ pc = "idle"
  /\ req = Span(0, 0)
  /\ cur = NULL
  /\ held = {}
  /\ ret = NULL

------------------------------------------------------------------------------
(* vmm_mmap *)

\* The first call of all: the node of the first block is made by kmalloc, which
\* calls vmm_mmap itself and is given the first BasePages pages of the heap.
MmapBootstrap(pages) ==
  /\ pc = "idle"
  /\ blockchain = NULL
  /\ first_alloc
  /\ first_alloc' = FALSE
  /\ \E n \in Nodes \ used :
       /\ blockchain' = n
       /\ used' = used \cup {n}
       /\ node' = [node EXCEPT ![n] =
            Block(HEAP_START + BasePages, MAX_HEAP_SIZE - BasePages, NULL, NULL)]
       /\ cur' = n
  /\ held' = held \cup {Span(HEAP_START, BasePages)}
  /\ ret' = HEAP_START
  /\ req' = Span(NULL, pages)
  /\ pc' = "search"

\* No block is left: NULL at once.
MmapNoBlocks(pages) ==
  /\ pc = "idle"
  /\ blockchain = NULL
  /\ ~first_alloc
  /\ ret' = NULL
  /\ UNCHANGED <<blockchain, node, used, first_alloc, pc, req, cur, held>>

MmapCall(pages) ==
  /\ pc = "idle"
  /\ blockchain # NULL
  /\ req' = Span(NULL, pages)
  /\ cur' = blockchain
  /\ pc' = "search"
  /\ UNCHANGED <<blockchain, node, used, first_alloc, held, ret>>

\* The block is as long as the request.
Enough == node[cur].size >= req.pages

\* while (block && block->size < pages) block = block->next;
SearchNext ==
  /\ pc = "search"
  /\ cur # NULL
  /\ ~Enough
  /\ cur' = node[cur].next
  /\ UNCHANGED <<blockchain, node, used, first_alloc, pc, req, held, ret>>

SearchFail ==
  /\ pc = "search"
  /\ cur = NULL
  /\ ret' = NULL
  /\ Return
  /\ UNCHANGED <<blockchain, node, used, first_alloc, held>>

\* Mutant of Unlink: the block after b keeps its link back to b.
UnlinkForward(nd, b) ==
  [n \in DOMAIN nd |->
     IF n = b THEN NoBlock
     ELSE IF n = nd[b].prev THEN [nd[n] EXCEPT !.next = nd[b].next]
     ELSE nd[n]]

\* An empty block leaves the list: its neighbours are linked to each other.
Unlink(nd, b) ==
  [n \in DOMAIN nd |->
     IF n = b THEN NoBlock
     ELSE IF n = nd[b].prev THEN [nd[n] EXCEPT !.next = nd[b].next]
     ELSE IF n = nd[b].next THEN [nd[n] EXCEPT !.prev = nd[b].prev]
     ELSE nd[n]]

\* Mutant of Shrink: the block keeps its last page.
ShrinkTooLittle(nd, b, pages) == [nd EXCEPT ![b].start = @ + pages - 1, ![b].size = @ - pages + 1]

\* The block gives its first pages away.
Shrink(nd, b, pages) == [nd EXCEPT ![b].start = @ + pages, ![b].size = @ - pages]

\* The span is the start of the block found; a block that becomes empty is
\* deleted and its node freed.
SearchFound ==
  LET shrunk == Shrink(node, cur, req.pages)
  IN  /\ pc = "search"
      /\ cur # NULL
      /\ Enough
      /\ IF shrunk[cur].size = 0
         THEN /\ node' = Unlink(shrunk, cur)
              /\ blockchain' = IF cur = blockchain THEN shrunk[cur].next ELSE blockchain
              /\ used' = used \ {cur}
         ELSE node' = shrunk /\ UNCHANGED <<blockchain, used>>
      /\ ret' = node[cur].start
      /\ held' = held \cup {Span(node[cur].start, req.pages)}
      /\ Return
      /\ UNCHANGED first_alloc

------------------------------------------------------------------------------
(* vmm_free_pages *)

\* There are no free blocks at all: the span becomes the only one.
FreeFirst(s) ==
  /\ pc = "idle"
  /\ blockchain = NULL
  /\ \E n \in Nodes \ used :
       /\ blockchain' = n
       /\ used' = used \cup {n}
       /\ node' = [node EXCEPT ![n] = Block(s.start, s.pages, NULL, NULL)]
       /\ cur' = n
  /\ held' = held \ {s}
  /\ ret' = NULL
  /\ pc' = "rewind"
  /\ UNCHANGED <<first_alloc, req>>

\* The search for the blocks on the left and on the right starts at the head,
\* unless the head is already on the right.
FreeCall(s) ==
  /\ pc = "idle"
  /\ blockchain # NULL
  /\ req' = s
  /\ IF node[blockchain].start > s.start
     THEN cur' = NULL /\ pc' = "link"
     ELSE cur' = blockchain /\ pc' = "walk"
  /\ UNCHANGED <<blockchain, node, used, first_alloc, held, ret>>

\* while (left->next && left->next->start < start) left = left->next;
WalkLeft ==
  LET next == node[cur].next
  IN  /\ pc = "walk"
      /\ IF next # NULL /\ node[next].start < req.start
         THEN cur' = next /\ UNCHANGED pc
         ELSE pc' = "link" /\ UNCHANGED cur
      /\ UNCHANGED <<blockchain, node, used, first_alloc, req, held, ret>>

\* The local variables left and right when the search is over.
Left == cur
Right == IF cur = NULL THEN blockchain ELSE node[cur].next

LeftAdjacent == Left # NULL /\ EndOf(Left) = req.start
RightAdjacent == Right # NULL /\ req.start + req.pages = node[Right].start

\* What every branch of vmm_free_pages ends with: the span is free, and
\* print_blockchain starts from the head.
Freed ==
  /\ pc = "link"
  /\ held' = held \ {req}
  /\ ret' = NULL
  /\ cur' = blockchain
  /\ pc' = "rewind"
  /\ UNCHANGED <<blockchain, first_alloc, req>>

\* Mutant of MergeLeft: a gap of no pages is left between two blocks.
MergeLeftOnly ==
  /\ Freed
  /\ LeftAdjacent
  /\ node' = [node EXCEPT ![Left].size = @ + req.pages]
  /\ UNCHANGED used

\* The span extends the block on its left, which swallows the block on its
\* right if they meet.
MergeLeft ==
  LET meet == RightAdjacent
      r    == node[Right]
  IN  /\ Freed
      /\ LeftAdjacent
      /\ IF meet
         THEN /\ node' = [n \in Nodes |->
                    IF n = Left THEN [node[n] EXCEPT !.size = @ + req.pages + r.size, !.next = r.next]
                    ELSE IF n = r.next THEN [node[n] EXCEPT !.prev = Left]
                    ELSE IF n = Right THEN NoBlock
                    ELSE node[n]]
              /\ used' = used \ {Right}
         ELSE /\ node' = [node EXCEPT ![Left].size = @ + req.pages]
              /\ UNCHANGED used

MergeRight ==
  /\ Freed
  /\ ~LeftAdjacent
  /\ RightAdjacent
  /\ node' = [node EXCEPT ![Right].size = @ + req.pages, ![Right].start = @ - req.pages]
  /\ UNCHANGED used

\* Mutant of NewBlock: the links of the new node are the wrong way round.
NewBlockSwapped == Block(req.start, req.pages, Right, Left)

\* The node of the span that is freed, between left and right.
NewBlock == Block(req.start, req.pages, Left, Right)

\* The span becomes a block between left and right.  The head is not moved.
InsertBlock ==
  /\ Freed
  /\ ~LeftAdjacent
  /\ ~RightAdjacent
  /\ \E new \in Nodes \ used :
       /\ used' = used \cup {new}
       /\ node' = [n \in Nodes |->
            IF n = new THEN NewBlock
            ELSE IF n = Left THEN [node[n] EXCEPT !.next = new]
            ELSE IF n = Right THEN [node[n] EXCEPT !.prev = new]
            ELSE node[n]]

\* print_blockchain looks for the first block and makes it the head.
Rewind ==
  /\ pc = "rewind"
  /\ IF node[cur].prev # NULL
     THEN cur' = node[cur].prev /\ UNCHANGED <<blockchain, pc, req>>
     ELSE blockchain' = cur /\ Return
  /\ UNCHANGED <<node, used, first_alloc, held, ret>>

------------------------------------------------------------------------------
vmm_mmap(pages) == MmapBootstrap(pages) \/ MmapNoBlocks(pages) \/ MmapCall(pages)

vmm_free_pages(s) == FreeFirst(s) \/ FreeCall(s)

\* The steps of a call in progress.
Step ==
  \/ SearchNext \/ SearchFail \/ SearchFound
  \/ WalkLeft \/ MergeLeft \/ MergeRight \/ InsertBlock \/ Rewind

Next ==
  \/ \E pages \in Sizes : vmm_mmap(pages)
  \/ \E s \in held : vmm_free_pages(s)
  \/ Step

\* The kernel runs a call to its end: interrupts are off or do not come here.
Spec == Init /\ [][Next]_chainVars /\ WF_chainVars(Step)

------------------------------------------------------------------------------
(* Properties. *)

\* The types, at any time.
ChainTypeOK ==
  /\ blockchain \in Nodes \cup {NULL}
  /\ node \in [Nodes -> [start : Nat, size : Nat,
                         prev : Nodes \cup {NULL}, next : Nodes \cup {NULL}]]
  /\ used \subseteq Nodes
  /\ first_alloc \in BOOLEAN
  /\ pc \in {"idle", "search", "walk", "link", "rewind"}
  /\ req \in [start : Nat, pages : Nat]
  /\ cur \in Nodes \cup {NULL}
  /\ \A s \in held : s.start \in Heap /\ s.pages \in Nat \ {0}
  /\ ret \in Heap \cup {NULL}

BlockPages(b) == node[b].start .. EndOf(b) - 1

\* The types, and between two calls the list is well formed: the nodes in use
\* are exactly a doubly linked list that starts at blockchain, its blocks are
\* not empty, they lie in the order of their addresses, and no two of them
\* touch, so vmm_free_pages has merged everything that can be merged.
ChainWellFormed ==
  /\ ChainTypeOK
  /\ pc = "idle" =>
    /\ (blockchain = NULL) = (used = {})
    /\ blockchain # NULL => blockchain \in used
    /\ \A b \in used :
         LET p == node[b].prev
             n == node[b].next
         IN  /\ node[b].size > 0
             /\ (b = blockchain) = (p = NULL)
             /\ p # NULL => p \in used /\ node[p].next = b /\ EndOf(p) < node[b].start
             /\ n # NULL => n \in used /\ node[n].prev = b /\ EndOf(b) < node[n].start

\* Every page of the heap is in exactly one free block or in exactly one span
\* that a caller owns: vmm_mmap never serves a page twice, and no page is lost.
\* This holds in the middle of calls too.
PagePartition ==
  ~first_alloc =>
    \A p \in Heap :
      LET blocks == {b \in used : p \in BlockPages(b)}
          spans  == {s \in held : p \in SpanPages(s)}
      IN  Cardinality(blocks) + Cardinality(spans) = 1

\* First fit on the sorted and merged list implements the address space: the
\* lowest run is served, and a request fails only when no run is long enough.
Space == INSTANCE AddressSpace WITH
           Heap  <- Heap,
           Sizes <- Sizes,
           NULL  <- NULL,
           free  <- IF first_alloc THEN Heap ELSE UNION {BlockPages(b) : b \in used},
           held  <- held,
           ret   <- ret
ImplementsAddressSpace == Space!Spec

\* Every call returns: no walk over the list goes on for ever.
CallsReturn == (pc # "idle") ~> (pc = "idle")
==============================================================================
