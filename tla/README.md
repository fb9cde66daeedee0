# A TLA+ model of bootable-stuff

bootable-stuff is a boot loader, a small x86-64 kernel and one program in ring 3.
This directory models the parts of it whose correctness depends on sequences of
calls, on interrupts or on shared state: physical memory, the virtual heap,
liballoc, page tables, the text console, interrupts and system calls, and the
user program with its heap and its picture. TLC checks the models on small
instances; TLAPS proves the physical memory manager, the list of free heap
blocks, the page tables, the interrupt and system call paths, and the user
program with its heap and its picture for all sizes.

## The system

| Part | State | Operations | What is hard about it |
|---|---|---|---|
| Boot loader (`src/src/boot`) | descriptor tables, first page tables, video mode | feature checks, `setup_paging`, `vbe_set_mode` | builds what the kernel takes for granted |
| PMM (`memory/PMM.c`) | bitmap of frames | `pmm_allocate_page`, `pmm_allocate_page_table` | two callers share one bitmap; bit and word boundaries; exhaustion |
| VMM (`memory/VMM.c`) | page tables, list of free heap blocks | `vmm_mmap`, `vmm_free_pages`, `vmm_set_page_permissions` | list surgery, merging, flags of shared directories, stale TLB entries |
| liballoc (`ports/liballoc`) | lists of majors and minors | `kmalloc`, `kfree`, `krealloc` | it and the VMM call each other |
| Console (`VGA/VGA.c`) | cursor, back buffer, frame buffer | `log`, `log_n`, `clearScreen` | handlers log while the thread logs |
| Interrupts, PIC, keyboard | IDT, masks, lines in service, subscribers | `PIC_remap`, `PIC_send_EOI`, `irq0_handler`, `irq1_handler`, ... | run between any two instructions of the thread |
| Ring 3, system calls | TSS, saved stack pointers | `jump_usermode`, `syscall_handler`, `handle_syscall` | interrupt flag, stacks, registers, result widths |
| User program (`os/src/Main.c`, musl's `malloc`) | malloc's area, two buffers, position of a square | `malloc`, `mmap`, `dvd_bounce` | lengths rounded down, unsigned differences, a screen shared with the kernel |

The kernel boots with interrupts off, calls `vga_init` (which maps the frame
buffer and allocates two buffers through VMM and liballoc), remaps the PICs,
fills the IDT, sets permissions, enables interrupts, prints two lines and enters
ring 3. From then on the kernel runs in system calls, with interrupts masked by
SFMASK, and in handlers. The user program maps the frame buffer a second time
and draws into it while handlers may log to the same screen.

## Modules

- **FramePool** – what a frame allocator promises: a set of free frames, the
  lowest one at or above a base is handed out, never given back.
- **PMM** – `PMM.c`. A word of the bitmap is the set of its one bits; frames are
  page numbers; the unsigned subtraction that finds the first word wraps at
  `AddressPages`. One action per entry point. `ImplementsPool` instantiates
  FramePool with the frames whose bits are set, and with bases that are counted
  in frames: `pmm_allocate_page` asks for frames from `MEM_START` on and may get
  one that is less than a word before it.
- **AddressSpace** – what the heap promises: a set of free pages, the lowest run
  that is long enough is served, pages come back.
- **BlockChain** – `vmm_mmap`, `vmm_free_pages` and `print_blockchain`, one loop
  iteration per step. Nodes come from a pool here, so this module shows the list
  algorithm alone. `ImplementsAddressSpace` maps the list to its set of pages.
- **KernelHeap** – the same two functions and liballoc calling each other. Every
  operator maps the memory before a call to the memory after it, nested calls
  included. `Call` stands for a call by name; all the recursion goes through it.
  Structures have their real sizes in words. A step that touches freed memory,
  writes through NULL or drops a major is recorded in `fault` and ends the
  behaviour; that is why this run does not check for deadlock. The memory is what
  liballoc and the VMM write. In the running kernel `swapBuffers` also writes
  over the header of the major that holds `BACKBUFFER` (Screen, `BuffersKept`),
  so what this module says of the lists is about the allocators alone.
- **Paging** – the four table levels, composed with FramePool's allocation rule
  and an instance of AddressSpace. The initial tables are those of
  `setup_paging`. The TLB (external) may load any translation and keep it until
  an `invlpg` of that page. `set_page_permission` flushes the address that it
  reads from the changed entry. That is the page itself only for an executable
  page of the first 2 MB (`Flushed`); the entries of the others have bit 63 set.
  `recycled` is history: the pages that `liballoc_free` has freed at some time,
  whose entries nobody clears.
- **Console** – `VGA.c`, `kmemcpy_128` and the handlers. The thread's `putChar`,
  cursor increments and copy are steps of their own; a handler is one action,
  because interrupt gates clear the flag. A cell is a character instead of
  9 x 13 pixels, and scrolling is one step. `render` does not look at the cursor's
  range. A cursor right of the last column draws into the margin, a column that
  is 8 pixels wide with 800 pixels; the ninth column of pixels falls on the next
  line and is left out. A cursor below the last row draws behind `BACKBUFFER`;
  `past` records at which step of the thread a handler did that. A row stands for the 128 bytes that
  the copy holds in registers. Only letters and newlines are stepwise: no other
  character is logged by the thread while interrupts are on. The thread may log
  any number of such texts in that phase; the code logs two.
- **Machine** – `PIC.c`, `IDT.h`, `idt.asm`, `isr.asm`, `Interrupts.c`,
  `KbController.c`, `Ring3.c`, `ring3.asm` and the order of their calls in
  `kmain`. The two 8259 chips, the devices and the way the processor enters a
  handler are external: they are modelled as the code uses them, byte by byte
  for `PIC_remap`. A byte written to a port is the set of its bits. A stack
  pointer is a stack and a depth; `push_all` pushes one value. The thread is one
  step per instruction that matters (the two saved stack pointers, `SYSCALL`,
  `SYSRET`, the interrupt flag); handlers are four steps: entry, end of
  interrupt, body, return. Exceptions come from ring 3 and end in the endless
  loop of `isr_handler`. Faults inside that report are not modelled, and vector
  registers are Console's subject: `reg` stands for what `push_all` and
  `syscall_handler` save.
- **UserHeap** – `lite_malloc.c` of musl, which is the `malloc` of this program
  because it never calls `free`, on top of `brk`, `mmap` and `handle_syscall`.
  Sizes are in bytes, differences are unsigned, and `handle_syscall` returns an
  int, whose sign may or may not fill the upper half of the register. The
  kernel below is an instance of AddressSpace. The program always passes a NULL
  address to `mmap`, and -1 or what `open` returned as file; the refusals of
  other arguments (`syscalls.c:75-83`) do not occur.
- **Screen** – `dvd_bounce` and the kernel's `swapBuffers` on one frame buffer.
  Memory is counted in pixels. Both map the frame buffer with its pages rounded
  down and both copy all its bytes, so the copies run on into what lies behind:
  the header and first pixels of `BACKBUFFER` for the kernel, `original` for the
  program. The program's copies from and to the frame buffer are a pixel per
  step; a handler's `log` is one step and may come between any two.
- **UserProgram** – UserHeap and Screen together: `dvd_bounce` draws with the
  buffers that its own calls of `mmap` and `malloc` returned. The second `malloc`
  comes after the screen was copied, and the kernel logs in it. Other sequences of
  calls are explored too; nothing is drawn then.

The `MC` modules only extend these for the runs. `PMMProof`, `BlockChainProof`,
`PagingInvProof`, `PagingMapProof`, `PagingProof`, `MachineProof`,
`MachineMaskProof` and `UserProgramProof` hold the proofs.

Definitions that are introduced as a mutant, a variant or a fault are plausible
bugs of the definition that follows them. They are never used by a
specification; each one breaks the property it is listed with.

## Runs

| Run | Result | Shows |
|---|---|---|
| `pmm` | holds | `FramePartition`: the bitmap and the frames given to both callers partition memory. `NoDoubleAllocation`. `ImplementsPool`: every request gets the lowest free frame from its base on. |
| `blockchain` | holds | The list is well typed, sorted, doubly linked and fully merged between calls; with the spans of callers it partitions the heap; it implements AddressSpace; every call returns. |
| `heap` | holds | Objects are disjoint, liballoc's lists and counters agree, no page is lost, and a fault has a cause (`FaultHasCause`): freed memory is touched only after a request used up a free block exactly, and a free writes through NULL only when no free block has the `l_pageCount` pages that liballoc takes at a time. |
| `heap_stale` | violated | A call goes on with a node that a nested call freed. |
| `heap_free` | violated | `vmm_free_pages` writes through NULL when the free blocks are too short for liballoc. |
| `paging` | holds | Tables stay in identity-mapped memory, frames are exclusive, served spans are mapped, ring 3 reaches nothing but its own pages even through a stale TLB, and reaches those as long as the kernel maps nothing for itself once ring 3 runs (such a mapping takes the user bit from shared directories), through the tables and through the TLB, but for the stale translations described below (`UserReaches`). In the tables nothing is writable and executable in the heap and the named sections. |
| `paging_reuse` | violated | A reused span keeps its old frames although it is mapped to the frame buffer. |
| `console` | holds | Without interrupts the screen is the text laid out on endless paper; with them the cursor returns into range after every character, and only a handler that comes between the steps of `ensureCursorInRange` draws below the last row (`CursorInRange`). |
| `console_early` | violated | `log` copies to the screen before the buffers are ready. |
| `console_copy` | violated | A handler changes the vector registers of an interrupted copy. |
| `machine` | holds | Every interrupt runs the handler of its line and is retired by its own end of interrupt (`ServesItsLine`); ring 0 is interruptible only on a stack of its own (`InterruptibleStack`); the kernel stack is back at its base whenever ring 3 runs (`StacksUnwound`); the masks stay the firmware's but for the clock's, which the keys switch, and stack pointers never exceed what was pushed (`MasksKept`); scan codes are neither lost, repeated nor reordered (`KeysInOrder`); a system call returns to its caller with its registers (`SyscallResumes`); nothing runs after an exception (`ExceptionIsFinal`); a reset happens only in the window described below (`ResetOnlyAtFirstEntry`); keys are served (`KeyServed`). |
| `user_program` | holds | Blocks of `malloc` never overlap (`BlocksApart`), are aligned and mapped (`BlocksUsable`), and only the block behind a frame buffer is reached by its missing rest (`OverrunConfined`), which for `dvd_bounce` is the beginning of `original` (`BuffersPlaced`). The square stays on the screen (`ScreenTypeOK`) and comes to every edge for ever (`BouncesForever`); the copies damage exactly the pixels right behind the mappings (`BuffersKept`), and a frame that no handler disturbed is on the screen (`FrameShown`). |

### What the violations mean

- `heap_stale`: the trace needs kernel code that calls `kfree` or `krealloc`.
  Today only `VMM.c` calls `kfree` and nobody `krealloc`, so this is a trap for
  the next caller.
- `heap_free`: calls of `mmap` and `kmalloc` that use up the heap exactly suffice.
  The node of the last free block is freed then, and with it the major in which
  it was alone; its pages are to be a free block again, but there is no page for
  the node of that block. The same happens when other pages are freed that touch
  no free block while the free blocks are shorter than what kmalloc takes. In the
  kernel the room that is left in existing majors may serve the node and hide it.
- `paging_reuse`: needs a major to be freed by exact exhaustion and its pages to
  be mapped to the frame buffer.
- `console_early`: happens on every boot, for as long as `vga_init` runs; the
  screen shows memory that is not text until `clearScreen`.
- `console_copy`: needs a key press during one of the log calls between
  `enable_interrupts` and ring 3. The wrong bytes stay until the next copy.

### What the passing runs say between the lines

Some properties hold only with an exception, and the exception is what the code
does:

- `InterruptibleStack`, `ResetOnlyAtFirstEntry`: `jump_usermode` loads
  `user_stack_save`, which is still 0, with interrupts on. An interrupt between
  that and `SYSRET` pushes to address 0; the model takes it as a reset.
- An interrupt in ring 3. A remark in `ring3.asm:115` says "interrupts in ring 3
  cause #GP pointing to the TSS". Nothing in this code explains that, and the
  model does not have it. The processor takes the stack of ring 0 from bytes 4 to
  11 of the TSS (`RSP0`). `setup_tss` gives the descriptor the limit 15, the size
  of a descriptor less one and not of a TSS, but these bytes are within it
  (`TSSLimit`); the gates name no interrupt stack; and `SYSRET` loads the user
  selectors that the GDT holds at 0x18 and 0x20. So an interrupt finds its stack,
  and `ServesItsLine`, `StacksUnwound` and `ResetOnlyAtFirstEntry` speak of
  interrupts in ring 3 as well. Only the permission bitmap for ports is beyond
  the limit: ring 3 cannot use ports, and does not. `setup_tss` in Machine
  compares the two, so a shorter limit would show as a reset.
- `KeyServed`: the first byte of `PIC_remap` clears requests. A key that was
  pressed before is then never read, and the keyboard controller sends nothing
  more (`lost`). It also needs the clock to leave room, since line 0 has the
  higher priority: again and again interrupts are on and the clock is not
  waiting with its line open. A clock that is masked may wait for ever.
- `UserReaches`: a translation that the TLB kept can deny ring 3 a page of its
  own in two cases. The data of the OS is not flushed when its permissions are
  set (`VMM.c:336`), so a translation from before lacks the user bit. And a page
  that the kernel's heap had used and freed may keep the kernel's translation
  when `mmap` serves it again, since `vmm_map_memory` flushes a frame's address
  (`VMM.c:109`). Ring 3 then faults although the tables let it in.
- `WriteXorExecute` is about the tables. For the same reason the TLB may keep a
  translation of a section's data, from before its permissions were set, that is
  both writable and executable.
- `BlocksUsable`: when the kernel has no pages `mmap` returns 0, which is not
  `MAP_FAILED`. `lite_malloc` may then open its area at address 0 and hand out
  blocks there. They are not mapped.
- `BuffersKept`: 800 x 600 x 4 bytes are 468.75 pages; 468 are mapped, both by
  the kernel and for the program. Every `swapBuffers` overwrites liballoc's
  header of `BACKBUFFER` and its first pixels, every frame of the program
  overwrites the first pixels of `original`, and the last pixels of the screen
  are never drawn.

### Bounds

- `pmm`: 4 words of 4 bits; the first data frame is in the middle of a word, so
  the search starts below it; runs to exhaustion.
- `blockchain`: a heap of 6 pages and 3 nodes: blocks with neighbours on neither,
  either and both sides, and a full heap.
- `heap`: 11 pages of 32 words, of which kmalloc takes two at a time (16 in the
  code), spans of 1 and 2 pages, objects of 50 words (which fill two pages with
  their headers) and of 28 (which leave too little room for a list node, by less
  than its header), 3 objects, 2 spans. With a single page per major every free
  block would be long enough for kmalloc; with two, pages can be free and
  useless. All five kinds of fault occur. For `major_lost` a nested `kmalloc`
  appends a major of its own, which the outer call then overwrites.
- `paging`: tables of 14 entries, a heap of 15 pages that needs two of them, and
  two watched TLB pages: page 4, a page of the OS's text, and page 26 of the
  heap, which the kernel and the OS can both come to use.
- `console`: 2 columns and the margin, 2 rows, tabs of 2, 5 characters before
  interrupts are on: enough to wrap, scroll and step back over a line. After that
  texts have any length.
- `machine`: the clock (above the keyboard in priority) and line 12 (on the
  slave), 2 scan codes out of four kinds, a user stack of up to one value. One
  mapped page stands for all that a system call maps. Interrupts, system calls
  and faults are unbounded.
- `user_program`: pages of 32 bytes, ints of 13 bits, longs of 16 bits, a heap of 9 pages
  and 5 calls: areas that are opened, left and used up, and a request that is
  refused. The screen has 7 x 3 pixels of 4 bytes and a square of side 2; it
  takes 2 pages and five eighths of a third, a size for which `malloc` maps a
  span of its own, as it does for 468.75 pages. Three texts are logged,
  one of them by the system call behind the second `malloc` and the others by
  handlers, with glyphs inside and behind the mapped part, or by scrolling. Calls are bounded, so other
  programs than `dvd_bounce` stop: this run does not check for deadlock.

### Fairness

- `BlockChain`: weak fairness of the steps of a call in progress. The kernel has
  one thread and no scheduler, so a call that can take a step takes it. Callers
  are not required to call.
- `Machine`: weak fairness of the handler and of the thread, for the same reason,
  and strong fairness of taking an interrupt of the keyboard: the processor looks
  for interrupts after every instruction, so it takes one that is on offer again
  and again. Devices are not required to interrupt.
- `UserProgram`: weak fairness of `dvd_bounce`. Its loop does not wait for
  anything, handlers return, and the model bounds how often they run.

## Proofs

All theorems are for every value of the constants that the named assumptions
allow. The assumptions are evaluated by the runs.

**PMMProof** (`PMMAssumption`: sizes are positive, the pool ends inside the
address space, and the image ends at or before `MEM_START`). `PMMTypeCorrect`, `PMMPartition`, `PMMNeverTwice` and
`PMMImplementsPool`. The inductive invariant is `PMMInv`, the type invariant and
the partition together: the partition is kept only because the frame returned
was free, and that needs the bitmap to be well typed. The argument rests on the
map from bits to frames: it is injective and monotone in (word, reversed bit)
(`FrameOrder`, from division by the word width), so the first nonzero word and
its highest bit are the lowest free frame at or above the start
(`AllocateContract`), the start is less than a word before the frame asked for
(`StartWordBase`), and clearing the bit removes exactly that frame
(`ClearBitFrees`).

**MachineProof** (`MachineAssumption`: devices are lines other than 1 and 2, the
firmware's masks are sets of lines, depths and the number of keys are naturals).
`MachineServesItsLine`, `MachineInterruptibleStack`, `MachineStacksUnwound`,
`MachineKeysInOrder`, `MachineResets`, `MachineSyscallResumes`,
`MachineExceptionIsFinal`. None of these is inductive: that a handler returns to
where it came from depends on what lies on the stack it was entered with. The
invariant `MachineInv` says so in four parts. `Types`. `SetUp`: how far boot has
come (`Remapped(n)` describes the chips after n bytes of `PIC_remap`), so that an
interrupt finds its vector, gate and stack. `Control`: for each place of the
processor, what it relies on there; `Open` describes the places at which the
thread can be interrupted, `InCall` a system call with the caller's registers in
registers or on the kernel stack, and `Handling` says that the frame a handler
will load again describes an open place. `Traffic`: the line in service, and the
scan codes on their way. Handlers do not nest, since an open place is never
inside one; this is why one frame suffices.

**MachineMaskProof** goes on from `MachineInv`. `MachineMasksKept`: the masks
are those of the firmware, with the clock's as the keys last switched it, and no
stack pointer exceeds what was pushed. `MaskInv` follows the saved masks through
the ten bytes of `PIC_remap`; the switches of the clock are read off the last
scan code that is one, so a key that was handled changes the mask and the
history in the same way (`ClockSwitched`). `StackInv` says that every stack
pointer that is in use, or lies in a frame that will be loaded again, points at
what was pushed; this needs `Handling` for the place a handler returns to.

**BlockChainProof** (`BlockChainAssumption`: the heap is larger than the pages
taken for the first node, requests are positive, no node is at address 0).
`ChainIsWellFormed`, `ChainPartition` and `ChainImplementsAddressSpace`, for any
heap, any number of nodes and any order of calls. The properties follow the
links of the list, which would take an induction over its length. The invariant
`ChainInv` avoids it. Free blocks never touch (`BlocksOK`), so their addresses
order them, and a link is right when it names the neighbour in that order
(`LinksOK`, `HeadOK`). `SpansOK` and `CoverOK` say that blocks and the callers'
spans are apart and leave no page out. `CallOK` is what the call in progress
knows: the search has passed only blocks that are too short, and the walk of
`vmm_free_pages` is on the left of the span that is freed. That no block is
skipped makes first fit on the list the lowest run of free pages (`RunInBlock`,
`BlockFits`), which is the refinement.

**PagingInvProof, PagingMapProof, PagingProof** (`PagingAssumption`: the image,
the tables and the frames for data lie in this order, tables for the whole heap
fit between the first two in the first 2 MB, there are frames for every heap
page, and the frame buffer is not in RAM). `PagingTypeCorrect`,
`PagingTablesReachable`, `PagingFramesExclusive`, `PagingSpansMapped`,
`PagingUserConfined`, `PagingUserReaches`, `PagingWriteXorExecute`,
`PagingTlbSameFrame`. The invariant `PagingInv` has six parts. `Tree`: the
tables are a tree in which every table of the heap has one parent entry, so a
write to one entry is seen by the pages below it only. `Frames`: a frame of the
pool is free, a table, or under one heap page. `Identity`: the entries of the
first 2 MB, exactly. `Flags`: what the heap's entries allow. `Spans`: the heap
and the call that is mapping. `Remembered`: the TLB. The first module shows that
`setup_paging` establishes it and that `vmm_set_page_permissions` keeps it,
section by section in the order of the code; the second that `vmm_map_memory`
does, one table level at a time, given that the pool has the frames it takes;
the third that it has them. There the argument is a count: if no frame for a
table were left, every one would be a table of the heap, and there are fewer
indices than that (`TableRoom`); if none for data were left, every one would be
under a page, and the page to be mapped has none (`DataRoom`).

`PagingUserReaches` needs a second invariant, `TlbRights`, since `Remembered`
says nothing of a translation that lacks the user bit. Its core is that a page
which is free or still to be mapped has an entry only if it was freed before:
`vmm_map_memory` gives an entry to no other page than the one its call has been
served, and nothing but `liballoc_free` makes a mapped page free. So a page that
`mmap` serves has a translation only if it is recycled, and any other one is
loaded after the page was mapped for ring 3. The text of the OS leaves the TLB
when its permissions are set.

**UserProgramProof** has three parts.

The heap (`UserHeapAssumption`: the page size is a multiple of 16 and
divides the ranges of int and long; the heap lies above the stack, above page 64
and below half the range of int). `UserHeapTypeCorrect`, `UserHeapBlocksApart`,
`UserHeapBlocksUsable`, `UserHeapOverrunConfined`. The invariant `UserHeapInv`
ties each block and each buffer to a span of the kernel (`BlockOK`, `BufferOK`),
says that the rest of the current area is at the end of a span with all its
blocks below (`AreaOK`), and that blocks of one span do not overlap (`Packed`).
Three facts carry the proof: `brk` never succeeds, because its
answer is one below a multiple of the page size (`BrkFails`); rounding `cur` up
never passes `end`, because `end` is a multiple of every alignment
(`NextBlock`); and first fit without frees leaves nothing in use right behind a
new span (`SpanServed`), so what a frame buffer lacks can only be reached by
later blocks.

The picture (`ScreenAssumption`: the square is smaller than the screen, and
what the mapping lacks is at least the header and at most what it has).
`ScreenTypeCorrect`, `ScreenBuffersKept`, `ScreenFrameShown`. The invariant
`ScreenInv` adds to the types the direction in which each coordinate can go on,
what each buffer holds behind the damaged pixels, and how far the copy to the
screen has come.

The program. `ProgramUsesHeap` and `ProgramDraws`: it implements UserHeap and
Screen, so the theorems about these hold of it. `ProgramBuffersPlaced`
(`UserProgramAssumption`: a pixel's size divides the page size, and the heap that
the kernel leaves has no holes, since it has freed nothing by then): the buffers
lie where Screen takes them to lie. `PlaceInv` follows the first calls: the
frame buffer gets the lowest pages (`FirstPages`), `malloc` has no area yet and
must map one, which first fit puts right behind (`PagesBehind`), and nothing was
refused, so every block is in a span.

Every theorem about a property that a run checks names that property, so the
run and the proof are about the same formula. Only model-checked:

- Liveness: `CallsReturn`, `KeyServed`, `BouncesForever`. TLAPS has no rules for
  fairness.
- KernelHeap: `ObjectsDisjoint`, `HeapListsIntact`, `HeapPagesAccounted`,
  `FaultHasCause`. liballoc and the VMM call each other, and the module is
  recursive, which the prover does not take.
- Console: `ScreenShowsText` compares two folds over a text, and `CursorInRange`
  needs what the fold over the spaces of a tab computes. Both take an induction
  over data.
- The properties of the runs that are violated.

## Not modelled

- Boot loader: the search for a video mode, the feature checks and the switches
  of processor mode. They are sequential, run once, and change nothing that is
  changed again later; their result is taken as given in the initial states.
- Formatting (`vsprintf`, `itoa`, `gcvt`) and strings: pure functions. Texts are
  characters without a format in the models, so the length of a formatted text
  against the 512 bytes of `log` is not covered.
- Fonts, the text of `vga_info` and of exception reports, diagnostics and the
  sanitizer's messages: they print and change no state.
- `KernelHeap` leaves out `kcalloc`, `krealloc` of NULL or to size 0, and
  liballoc's paths for corrupted magic numbers. `UserHeap` leaves out requests
  above half the address range and requests that use up the last free pages
  exactly (KernelHeap has those), and frames that run out (Paging). `ioctl` only
  copies four numbers; the selectors in `STAR` are constants.
- musl: it is by far the largest part of the tree and the user program links
  very little of it. `lite_malloc`, `mmap` and `memcpy` are modelled. The rest
  (`printf` and what it formats with, locales, threads, networking, mathematics)
  is either pure, or not linked, or has no system calls in this kernel to stand
  on. This is why only a small share of all lines in the tree is covered. Of the
  lines under `src/src` it is about two fifths; most of the others are fonts,
  texts, formatting, headers and the boot loader.

## Plan

1. **Boot**: `vbe_set_mode`'s search against a reference definition.
2. Pure functions: `itoa`, `kmemcpy`, against a reference over bounded inputs.
3. Proofs: CursorInRange, with a tab that is a step per space; the lists of
   KernelHeap, as a state machine with a stack of calls instead of recursion.
