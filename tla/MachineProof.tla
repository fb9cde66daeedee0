---------------------------- MODULE MachineProof -----------------------------
(***************************************************************************)
(* Proofs about Machine, for any devices, any masks of the firmware, any   *)
(* depth of the stacks and any number of keys.                             *)
(***************************************************************************)
EXTENDS Machine, TLAPS

------------------------------------------------------------------------------
(* The inductive invariant *)

Early == {"save_masks", "remap", "idt", "subscribe", "mask", "sti"}
InHandler == {"irq", "eoi", "body", "iret"}

Registers == [gp : {"kernel", "handler", "user"}, rcx : {None, "os_entry", "user"}, r11 : BOOLEAN]
Pointers == [in : Stacks \cup {None}, depth : Nat]

\* The stack pointer of kmain, and so of every system call.
Base == At("kernel", Entry)

\* The word each chip expects after n bytes of PIC_remap.
Expected(c, n) ==
  IF c = 1 THEN (IF n = 0 \/ n >= 7 THEN 0 ELSE IF n <= 2 THEN 2 ELSE IF n <= 4 THEN 3 ELSE 4)
           ELSE (IF n <= 1 \/ n >= 8 THEN 0 ELSE IF n <= 3 THEN 2 ELSE IF n <= 5 THEN 3 ELSE 4)

\* PIC_remap has written n bytes.
Remapped(n) ==
  /\ chip[1].icw = Expected(1, n)
  /\ chip[2].icw = Expected(2, n)
  /\ n >= 3 => chip[1].offset = {5}
  /\ n >= 4 => chip[2].offset = {3, 5}
  /\ chip[1].cascade = {2}
  /\ chip[2].cascade = {1}

\* The chips, the gates, the subscriber and the stack for interrupts of
\* ring 3 are set up in this order.
SetUp ==
  /\ chip \in [{1, 2} -> [icw : {0, 2, 3, 4}, offset : SUBSET (0 .. 7), cascade : SUBSET (0 .. 7)]]
  /\ writes \in 0 .. 10
  /\ pc = "save_masks" => writes = 0
  /\ pc = "remap" => writes < 10
  /\ pc \notin {"save_masks", "remap"} => writes = 10
  /\ Remapped(writes)
  /\ pc \notin {"save_masks", "remap", "idt"} => idt
  /\ pressHandlers \in Seq({"printKey"})
  /\ pc \notin {"save_masks", "remap", "idt", "subscribe"} => pressHandlers # <<>>

\* The thread can be interrupted at p, in ring r with stack pointer sp and
\* registers g.
Open(p, r, sp, g) ==
  /\ g \in Registers
  /\ sp \in Pointers
  /\ p # "tss" => tss
  /\ p \in {"save", "load", "entry", "sysret"} => g.r11
  /\ p \notin {"tss", "flags", "save"} => kernel_stack_save = Base
  /\ p \in {"tss", "flags", "save", "load", "entry", "sysret"} => user_stack_save = NULL
  /\ \/ p \in {"tss", "flags", "save", "load"} /\ r = 0 /\ sp = Base
     \/ p = "entry" /\ r = 0 /\ sp = NULL
     \/ p = "sysret" /\ r = 0 /\ sp = NULL /\ g.rcx = "os_entry"
     \/ p = "os_entry" /\ r = 3 /\ sp = NULL
     \/ p = "user" /\ r = 3 /\ sp.in = "user"
     \/ p = "isr" /\ r = 0 /\ sp = At("tss", 1)

\* The registers are those of the caller, with what SYSRET needs.
CallersRegisters == reg.rcx = "user" /\ reg.r11 = TRUE /\ reg.gp = caller.gp

\* They are on the kernel stack.
CallersSaved ==
  /\ rsp = At("kernel", Entry + 4)
  /\ stack["kernel"][Entry + 1] = TRUE
  /\ stack["kernel"][Entry + 2] = "user"
  /\ stack["kernel"][Entry + 3] = caller.gp

\* A system call, which cannot be interrupted.
InCall ==
  /\ tss
  /\ kernel_stack_save = Base
  /\ caller \in [rsp : Pointers, gp : {"kernel", "handler", "user"}]
  /\ caller.rsp.in = "user"
  /\ pc # "syscall" => user_stack_save = caller.rsp
  /\ \/ pc \in {"syscall", "switch", "sysret"} /\ rsp = caller.rsp /\ CallersRegisters
     \/ pc \in {"push", "save_kernel", "load_user"} /\ rsp = Base /\ CallersRegisters
     \/ pc \in {"call", "map", "pop"} /\ CallersSaved
     \/ pc = "mapped" /\ CallersSaved /\ interrupts = FALSE

\* A handler has interrupted the thread where it was open; frame and g are
\* what the handler will load again.
Interrupted(frame, g) ==
  /\ frame.IFlag = TRUE
  /\ Open(frame.pc, frame.ring, frame.rsp, g)

Handling ==
  /\ line \in (0 .. 15) \ {2}
  /\ rsp.in \in {"kernel", "tss"}
  /\ \/ pc = "irq" /\ rsp.depth >= 1 /\ Interrupted(Top(1), reg)
     \/ pc \in InHandler \ {"irq"} /\ rsp.depth >= 2 /\ Interrupted(Top(2), Top(1))

\* Where the processor is, and what it can rely on there.
Control ==
  \/ /\ pc \in Early
     /\ ring = 0 /\ IFlag = FALSE /\ rsp = Base /\ user_stack_save = NULL
  \/ IFlag = TRUE /\ Open(pc, ring, rsp, reg)
  \/ ring = 0 /\ IFlag = FALSE /\ InCall
  \/ ring = 0 /\ IFlag = FALSE /\ Handling
  \/ ring = 0 /\ IFlag = FALSE /\ pc \in {"spin", "reset"}

\* The line in service, and the scan codes on their way.
Traffic ==
  /\ ServesItsLine
  /\ typed \in Seq(Codes) /\ heard \in Seq(Codes)
  /\ {port, al} \subseteq Codes \cup {None}
  /\ pc \notin {"eoi", "body"} => al = None
  /\ KeysInOrder

Types ==
  /\ reg \in Registers
  /\ rsp \in Pointers
  /\ DOMAIN stack = Stacks

MachineInv == Types /\ SetUp /\ Control /\ Traffic

------------------------------------------------------------------------------
(* Lemmas about the operators *)

\* After PIC_remap the line l has the vector 32 + l.
LEMMA VectorOf ==
  ASSUME Remapped(10), NEW l \in 0 .. 15
  PROVE  Vector(l) = 32 + l
<1>1. chip[1].offset = {5} /\ chip[2].offset = {3, 5}
  BY DEF Remapped
<1>2. {5} \ 0 .. 2 = {5} /\ {3, 5} \ 0 .. 2 = {3, 5}
  OBVIOUS
<1>3. Value({5}) = 32 /\ Value({3, 5}) = 40
  BY DEF Value
<1>4. CASE l < 8
  <2>1. l % 8 = l /\ ChipOf(l) = 1
    BY <1>4 DEF ChipOf
  <2> QED
    BY <1>1, <1>2, <1>3, <2>1, Zenon DEF Vector
<1>5. CASE l >= 8
  <2>1. l % 8 = l - 8 /\ ChipOf(l) = 2
    BY <1>5 DEF ChipOf
  <2>2. Vector(l) = Value({3, 5}) + (l % 8)
    BY <1>1, <1>2, <2>1, Zenon DEF Vector
  <2> QED
    BY <1>3, <2>1, <2>2
<1> QED
  BY <1>4, <1>5

\* What a push of one value leaves.
LEMMA Pushed ==
  ASSUME NEW sp \in Pointers, sp.in \in Stacks, DOMAIN stack = Stacks, NEW v, Push(sp, <<v>>)
  PROVE  /\ rsp' = At(sp.in, sp.depth + 1)
         /\ DOMAIN stack' = Stacks
         /\ stack'[sp.in][sp.depth + 1] = v
         /\ \A i \in 1 .. sp.depth : stack'[sp.in][i] = stack[sp.in][i]
<1>1. sp = [in |-> sp.in, depth |-> sp.depth] /\ sp.depth \in Nat
  BY DEF Pointers
<1>2. Len(<<v>>) = 1 /\ <<v>>[1] = v
  OBVIOUS
<1>3. rsp' = [sp EXCEPT !.depth = @ + Len(<<v>>)]
  BY DEF Push
<1>4. rsp' = At(sp.in, sp.depth + 1)
  BY <1>1, <1>2, <1>3 DEF At
<1>5. /\ DOMAIN stack' = Stacks
      /\ stack'[sp.in] = [i \in 1 .. sp.depth + 1 |-> IF i <= sp.depth THEN stack[sp.in][i]
                                                     ELSE <<v>>[i - sp.depth]]
  BY <1>2, Zenon DEF Push
<1>6. stack'[sp.in][sp.depth + 1] = <<v>>[1]
  BY <1>1, <1>5
<1> QED
  BY <1>1, <1>2, <1>4, <1>5, <1>6

\* A step of the thread after boot keeps what boot set up.
LEMMA SetUpKept ==
  ASSUME SetUp, UNCHANGED <<chip, writes, idt, pressHandlers>>,
         pc \notin Early, pc' \notin Early
  PROVE  SetUp'
BY DEF SetUp, Early, Remapped

\* A step outside the handlers of the lines keeps the line in service and
\* the scan codes.
LEMMA TrafficKept ==
  ASSUME Traffic, UNCHANGED <<isr, port, al, typed, heard>>,
         pc \notin {"irq", "eoi", "body"}, pc' \notin {"irq", "eoi", "body"},
         pc # "reset"
  PROVE  Traffic'
BY DEF Traffic, ServesItsLine, KeysInOrder

------------------------------------------------------------------------------
(* Boot *)

ChipStates == [icw : {0, 2, 3, 4}, offset : SUBSET (0 .. 7), cascade : SUBSET (0 .. 7)]

\* What a chip makes of the first byte of PIC_remap, of a word of the
\* initialization, and of a mask; the other chip is not concerned.
LEMMA OutbWord ==
  ASSUME NEW c \in {1, 2}, NEW d \in {1, 2}, c # d, NEW kind, NEW byte \in SUBSET (0 .. 7),
         chip \in [{1, 2} -> ChipStates], Outb(c, kind, byte), isr = {},
         (kind = "command" /\ 4 \in byte) \/ kind = "data"
  PROVE  /\ chip' \in [{1, 2} -> ChipStates] /\ isr' = {}
         /\ chip'[d] = chip[d]
         /\ chip'[c].icw = IF kind = "command" THEN 2
                           ELSE IF chip[c].icw \in {0, 4} THEN 0 ELSE chip[c].icw + 1
         /\ chip'[c].offset = IF kind = "data" /\ chip[c].icw = 2 THEN byte ELSE chip[c].offset
         /\ chip'[c].cascade = IF kind = "data" /\ chip[c].icw = 3 THEN byte ELSE chip[c].cascade
<1>1. CASE kind = "command" /\ 4 \in byte
  <2>1. chip' = [chip EXCEPT ![c].icw = 2] /\ isr' = isr \ LinesOf(c)
    BY <1>1, Zenon DEF Outb
  <2> QED
    BY <1>1, <2>1 DEF ChipStates
<1>2. CASE kind = "data" /\ chip[c].icw # 0
  <2>1. /\ chip' = [chip EXCEPT ![c].icw = IF @ = 4 THEN 0 ELSE @ + 1,
                                ![c].offset = IF chip[c].icw = 2 THEN byte ELSE @,
                                ![c].cascade = IF chip[c].icw = 3 THEN byte ELSE @]
        /\ isr' = isr
    BY <1>2 DEF Outb
  <2> QED
    BY <1>2, <2>1 DEF ChipStates
<1>3. CASE kind = "data" /\ chip[c].icw = 0
  <2>1. chip' = chip /\ isr' = isr
    BY <1>3 DEF Outb
  <2> QED
    BY <1>3, <2>1
<1> QED
  BY <1>1, <1>2, <1>3

\* The ten bytes that PIC_remap writes.
LEMMA RemapBytes ==
  /\ Len(RemapWrites) = 10
  /\ RemapWrites[1] = <<1, "command", {0, 4}>>
  /\ RemapWrites[2] = <<2, "command", {0, 4}>>
  /\ RemapWrites[3] = <<1, "data", {5}>>
  /\ RemapWrites[4] = <<2, "data", {3, 5}>>
  /\ RemapWrites[5] = <<1, "data", {2}>>
  /\ RemapWrites[6] = <<2, "data", {1}>>
  /\ RemapWrites[7] = <<1, "data", {0}>>
  /\ RemapWrites[8] = <<2, "data", {0}>>
  /\ RemapWrites[9] = <<1, "data", BitsOf(1, a)>>
  /\ RemapWrites[10] = <<2, "data", BitsOf(2, a)>>
BY DEF RemapWrites

\* One byte of PIC_remap.
LEMMA RemapStep ==
  ASSUME SetUp, Remap, isr = {}, NEW n \in 0 .. 9, writes = n
  PROVE  chip' \in [{1, 2} -> ChipStates] /\ Remapped(n + 1)' /\ isr' = {}
<1>1. Remapped(n) /\ chip \in [{1, 2} -> ChipStates]
  BY DEF SetUp, ChipStates
<1>2. Outb(RemapWrites[n + 1][1], RemapWrites[n + 1][2], RemapWrites[n + 1][3])
  BY DEF Remap
<1>3. CASE n = 0
  <2>0. RemapWrites[n + 1] = <<1, "command", {0, 4}>>
    BY <1>3, RemapBytes
  <2>1. Outb(1, "command", {0, 4})
    BY <1>2, <2>0
  <2> QED
    BY <1>1, <1>3, <2>1, OutbWord DEF Remapped, Expected
<1>4. CASE n = 1
  <2>0. RemapWrites[n + 1] = <<2, "command", {0, 4}>>
    BY <1>4, RemapBytes
  <2>1. Outb(2, "command", {0, 4})
    BY <1>2, <2>0
  <2> QED
    BY <1>1, <1>4, <2>1, OutbWord DEF Remapped, Expected
<1>5. CASE n = 2
  <2>0. RemapWrites[n + 1] = <<1, "data", {5}>>
    BY <1>5, RemapBytes
  <2>1. Outb(1, "data", {5})
    BY <1>2, <2>0
  <2> QED
    BY <1>1, <1>5, <2>1, OutbWord DEF Remapped, Expected
<1>6. CASE n = 3
  <2>0. RemapWrites[n + 1] = <<2, "data", {3, 5}>>
    BY <1>6, RemapBytes
  <2>1. Outb(2, "data", {3, 5})
    BY <1>2, <2>0
  <2> QED
    BY <1>1, <1>6, <2>1, OutbWord DEF Remapped, Expected
<1>7. CASE n = 4
  <2>0. RemapWrites[n + 1] = <<1, "data", {2}>>
    BY <1>7, RemapBytes
  <2>1. Outb(1, "data", {2})
    BY <1>2, <2>0
  <2> QED
    BY <1>1, <1>7, <2>1, OutbWord DEF Remapped, Expected
<1>8. CASE n = 5
  <2>0. RemapWrites[n + 1] = <<2, "data", {1}>>
    BY <1>8, RemapBytes
  <2>1. Outb(2, "data", {1})
    BY <1>2, <2>0
  <2> QED
    BY <1>1, <1>8, <2>1, OutbWord DEF Remapped, Expected
<1>9. CASE n = 6
  <2>0. RemapWrites[n + 1] = <<1, "data", {0}>>
    BY <1>9, RemapBytes
  <2>1. Outb(1, "data", {0})
    BY <1>2, <2>0
  <2> QED
    BY <1>1, <1>9, <2>1, OutbWord DEF Remapped, Expected
<1>10. CASE n = 7
  <2>0. RemapWrites[n + 1] = <<2, "data", {0}>>
    BY <1>10, RemapBytes
  <2>1. Outb(2, "data", {0})
    BY <1>2, <2>0
  <2> QED
    BY <1>1, <1>10, <2>1, OutbWord DEF Remapped, Expected
<1>11. CASE n = 8
  <2>0. RemapWrites[n + 1] = <<1, "data", BitsOf(1, a)>>
    BY <1>11, RemapBytes
  <2>1. Outb(1, "data", BitsOf(1, a))
    BY <1>2, <2>0
  <2>2. BitsOf(1, a) \in SUBSET (0 .. 7)
    BY DEF BitsOf, LinesOf
  <2> QED
    BY <1>1, <1>11, <2>1, <2>2, OutbWord DEF Remapped, Expected
<1>12. CASE n = 9
  <2>0. RemapWrites[n + 1] = <<2, "data", BitsOf(2, a)>>
    BY <1>12, RemapBytes
  <2>1. Outb(2, "data", BitsOf(2, a))
    BY <1>2, <2>0
  <2>2. BitsOf(2, a) \in SUBSET (0 .. 7)
    BY DEF BitsOf, LinesOf
  <2> QED
    BY <1>1, <1>12, <2>1, <2>2, OutbWord DEF Remapped, Expected
<1> QED
  BY <1>3, <1>4, <1>5, <1>6, <1>7, <1>8, <1>9, <1>10, <1>11, <1>12

\* The steps of kmain up to ring 3.
LEMMA BootInv ==
  ASSUME MachineInv, Boot
  PROVE  MachineInv'
<1>1. Types /\ SetUp /\ Control /\ Traffic
  BY Zenon DEF MachineInv
<1>2. UNCHANGED <<ring, rsp, reg, stack, saves, keys, line>>
  BY DEF Boot, SaveMasks, Remap, IDT_init, subscribePress, MaskClock, enable_interrupts,
         setup_tss, Quiet
<1>3. Types'
  BY <1>1, <1>2, Zenon DEF Types
<1>4. pc \in Early \cup {"tss"}
  BY DEF Boot, SaveMasks, Remap, IDT_init, subscribePress, MaskClock, enable_interrupts,
         setup_tss, Goto, Early
<1>5. isr = {} /\ al = None
  BY <1>1, <1>4 DEF Traffic, ServesItsLine, Early
<1>6. ASSUME NEW to, pc' = to, isr' = {}, to \notin {"irq", "eoi", "body"}
      PROVE  Traffic'
  BY <1>1, <1>2, <1>5, <1>6 DEF Traffic, keys, ServesItsLine, KeysInOrder
<1>7. pc \in Early => ring = 0 /\ IFlag = FALSE /\ rsp = Base /\ user_stack_save = NULL
  BY <1>1 DEF Control, Early, Open, InCall, Handling, InHandler
<1>8. ASSUME pc \in Early, pc' \in Early, IFlag' = IFlag
      PROVE  Control'
  BY <1>2, <1>7, <1>8 DEF Control, saves, Base
<1>9. CASE SaveMasks
  <2>1. /\ pc = "save_masks" /\ pc' = "remap"
        /\ UNCHANGED <<IFlag, chip, isr, writes, idt, tss, pressHandlers>>
    BY <1>9 DEF SaveMasks, Goto, pics
  <2>2. SetUp'
    BY <1>1, <2>1 DEF SetUp, Remapped
  <2> QED
    BY <1>3, <1>5, <1>6, <1>8, <2>1, <2>2 DEF MachineInv, Early
<1>10. CASE Remap
  <2>1. /\ pc = "remap" /\ writes \in 0 .. 9 /\ writes' = writes + 1
        /\ pc' = (IF writes' = 10 THEN "idt" ELSE "remap")
        /\ UNCHANGED <<IFlag, idt, tss, pressHandlers>>
    BY <1>1, <1>10, RemapBytes DEF Remap, SetUp
  <2>2. chip' \in [{1, 2} -> ChipStates] /\ isr' = {}
    BY <1>1, <1>5, <1>10, <2>1, RemapStep
  <2>3. PICK n \in 0 .. 9 : writes = n
    BY <2>1
  <2>4. Remapped(n + 1)'
    BY <1>1, <1>5, <1>10, <2>3, RemapStep
  <2>5. Remapped(writes)'
    BY <2>1, <2>3, <2>4 DEF Remapped, Expected
  <2>6. SetUp'
    BY <1>1, <2>1, <2>2, <2>5 DEF SetUp, ChipStates
  <2> QED
    BY <1>3, <1>6, <1>8, <2>1, <2>2, <2>6 DEF MachineInv, Early
<1>11. CASE IDT_init
  <2>1. /\ pc = "idt" /\ pc' = "subscribe" /\ idt' = TRUE
        /\ UNCHANGED <<IFlag, chip, isr, writes, tss, pressHandlers>>
    BY <1>11 DEF IDT_init, Goto, pics
  <2>2. SetUp'
    BY <1>1, <2>1 DEF SetUp, Remapped
  <2> QED
    BY <1>3, <1>5, <1>6, <1>8, <2>1, <2>2 DEF MachineInv, Early
<1>12. CASE subscribePress
  <2>1. /\ pc = "subscribe" /\ pc' = "mask"
        /\ pressHandlers' = IF Len(pressHandlers) < MAX_HANDLERS
                            THEN Append(pressHandlers, "printKey") ELSE pressHandlers
        /\ UNCHANGED <<IFlag, chip, isr, writes, tss, idt>>
    BY <1>12 DEF subscribePress, Goto, pics
  <2>2. pressHandlers' \in Seq({"printKey"}) /\ pressHandlers' # <<>>
    BY <1>1, <2>1 DEF SetUp, MAX_HANDLERS
  <2>3. SetUp'
    BY <1>1, <2>1, <2>2 DEF SetUp, Remapped
  <2> QED
    BY <1>3, <1>5, <1>6, <1>8, <2>1, <2>3 DEF MachineInv, Early
<1>13. CASE MaskClock
  <2>1. /\ pc = "mask" /\ pc' = "sti"
        /\ UNCHANGED <<IFlag, chip, isr, writes, tss, idt, pressHandlers>>
    BY <1>13 DEF MaskClock, Goto, setup
  <2>2. SetUp'
    BY <1>1, <2>1 DEF SetUp, Remapped
  <2> QED
    BY <1>3, <1>5, <1>6, <1>8, <2>1, <2>2 DEF MachineInv, Early
<1>14. CASE enable_interrupts
  <2>1. /\ pc = "sti" /\ pc' = "tss" /\ IFlag' = TRUE
        /\ UNCHANGED <<chip, isr, writes, tss, idt, pressHandlers>>
    BY <1>14 DEF enable_interrupts, Goto, setup, pics
  <2>2. SetUp'
    BY <1>1, <2>1 DEF SetUp, Remapped
  <2>3. Open(pc, ring, rsp, reg)'
    BY <1>1, <1>2, <1>7, <2>1 DEF Open, Types, Early, saves, Base
  <2>4. Control'
    BY <2>1, <2>3 DEF Control
  <2> QED
    BY <1>3, <1>5, <1>6, <2>1, <2>2, <2>4 DEF MachineInv
<1>15. CASE setup_tss
  <2>1. /\ pc = "tss" /\ pc' = "flags" /\ tss' = TRUE
        /\ UNCHANGED <<IFlag, chip, isr, writes, idt, pressHandlers>>
    <3>1. RSP0 \subseteq 0 .. TSSLimit
      BY DEF RSP0, TSSLimit
    <3> QED BY <1>15, <3>1, Zenon DEF setup_tss, Goto, pics
  <2>2. SetUp'
    BY <1>1, <2>1 DEF SetUp, Remapped
  <2>3. IFlag = TRUE /\ Open(pc, ring, rsp, reg)
    BY <1>1, <2>1 DEF Control, Early, InCall, Handling, InHandler
  <2>4. Open(pc, ring, rsp, reg)'
    BY <1>2, <2>1, <2>3 DEF Open, saves, Base
  <2>5. Control'
    BY <2>1, <2>3, <2>4 DEF Control
  <2> QED
    BY <1>3, <1>5, <1>6, <2>1, <2>2, <2>5 DEF MachineInv
<1> QED
  BY <1>9, <1>10, <1>11, <1>12, <1>13, <1>14, <1>15 DEF Boot

------------------------------------------------------------------------------
(* Devices and interrupts *)

\* A request of a device changes neither the thread nor a handler.
LEMMA DeviceInv ==
  ASSUME MachineInv, (\E l \in Devices : Raise(l)) \/ (\E k \in Codes : KeyMoves(k))
  PROVE  MachineInv'
<1>1. Types /\ SetUp /\ Control /\ Traffic
  BY DEF MachineInv
<1>2. UNCHANGED <<cpu, saves, chip, isr, setup, al, heard, line>>
  BY DEF Raise, KeyMoves, keys
<1>3. UNCHANGED <<pc, ring, IFlag, rsp, reg, stack, kernel_stack_save, user_stack_save, interrupts,
                  caller, writes, idt, tss, pressHandlers>>
  BY <1>2 DEF cpu, saves, setup
<1>4. Types'
  BY <1>1, <1>3 DEF Types
<1>5. SetUp'
  BY <1>1, <1>2, <1>3 DEF SetUp, Remapped
<1>6. Control'
  <2>1. Open(pc, ring, rsp, reg) => Open(pc, ring, rsp, reg)'
    BY <1>3, Zenon DEF Open
  <2>2. InCall => InCall'
    BY <1>3 DEF InCall, CallersRegisters, CallersSaved
  <2>3. Top(1)' = Top(1) /\ Top(2)' = Top(2)
    BY <1>3, Zenon DEF Top
  <2>4. Interrupted(Top(1), reg) => Interrupted(Top(1), reg)'
    BY <1>3, <2>3, Zenon DEF Interrupted, Open
  <2>5. Interrupted(Top(2), Top(1)) => Interrupted(Top(2), Top(1))'
    BY <1>3, <2>3, Zenon DEF Interrupted, Open
  <2>6. Handling => Handling'
    BY <1>2, <1>3, <2>4, <2>5 DEF Handling
  <2> QED
    BY <1>1, <1>3, <2>1, <2>2, <2>6 DEF Control
<1>7. CASE \E l \in Devices : Raise(l)
  <2>1. UNCHANGED <<port, typed>>
    BY <1>7 DEF Raise, keys
  <2>2. Traffic'
    BY <1>1, <1>2, <1>3, <2>1 DEF Traffic, ServesItsLine, KeysInOrder
  <2> QED
    BY <1>4, <1>5, <1>6, <2>2 DEF MachineInv
<1>8. ASSUME NEW k \in Codes, KeyMoves(k) PROVE Traffic'
  <2>1. port = None /\ port' = k /\ typed' = Append(typed, k)
    BY <1>8 DEF KeyMoves
  <2>2. k # None
    BY DEF Codes, None
  <2>3. typed \in Seq(Codes) /\ heard \in Seq(Codes) /\ al \in Codes \cup {None}
    BY <1>1 DEF Traffic
  <2>4. typed' \in Seq(Codes)
    BY <2>1, <2>3
  <2>5. KeysInOrder'
    <3>1. CASE al = None
      <4>1. typed = heard \o <<>> \o <<>>
        BY <1>1, <2>1, <3>1 DEF Traffic, KeysInOrder
      <4>2. typed' = heard \o <<>> \o <<k>>
        BY <2>1, <2>3, <4>1
      <4> QED
        BY <1>2, <2>1, <2>2, <3>1, <4>2 DEF KeysInOrder
    <3>2. CASE al # None
      <4>1. typed = heard \o <<al>> \o <<>>
        BY <1>1, <2>1, <3>2 DEF Traffic, KeysInOrder
      <4>2. typed' = heard \o <<al>> \o <<k>>
        BY <2>1, <2>3, <3>2, <4>1
      <4> QED
        BY <1>2, <2>1, <2>2, <3>2, <4>2 DEF KeysInOrder
    <3> QED
      BY <3>1, <3>2
  <2> QED
    BY <1>1, <1>2, <1>3, <2>1, <2>4, <2>5 DEF Traffic, ServesItsLine
<1> QED
  BY <1>4, <1>5, <1>6, <1>7, <1>8 DEF MachineInv

\* With the interrupt flag set the thread is at a point where it is open.
LEMMA FlagOpen ==
  ASSUME Control, IFlag
  PROVE  IFlag = TRUE /\ Open(pc, ring, rsp, reg) /\ pc \notin Early \cup InHandler
<1>1. IFlag = TRUE /\ Open(pc, ring, rsp, reg)
  BY DEF Control
<1> QED
  BY <1>1 DEF Open, Early, InHandler

\* How the processor enters a handler for an interrupt or an exception.
LEMMA Entered ==
  ASSUME Types, IFlag = TRUE, Open(pc, ring, rsp, reg), NEW handler \in {"irq", "isr"}, Enter(handler)
  PROVE  /\ \/ /\ pc' = handler
               /\ rsp'.in \in {"kernel", "tss"} /\ rsp' \in Pointers /\ rsp'.depth >= 1
               /\ ring = 3 => rsp' = At("tss", 1)
               /\ ring' = 0 /\ IFlag' = (handler = "isr")
               /\ Top(1)' = [pc |-> pc, ring |-> ring, IFlag |-> IFlag, rsp |-> rsp]
            \/ /\ pc' = "reset" /\ IFlag' = FALSE /\ ring = 0 /\ ring' = 0 /\ rsp' = rsp
               /\ pc \in {"entry", "sysret"} /\ user_stack_save = NULL
         /\ DOMAIN stack' = Stacks /\ reg' = reg
<1> DEFINE sp == IF ring = 3 THEN (IF tss THEN At("tss", 0) ELSE NULL) ELSE rsp
           frame == [pc |-> pc, ring |-> ring, IFlag |-> IFlag, rsp |-> rsp]
<1>1. DOMAIN stack = Stacks /\ Entry \in Nat
  BY MachineAssumption, Zenon DEF Types
<1>2. \/ /\ sp # NULL /\ Push(sp, <<frame>>) /\ pc' = handler /\ ring' = 0
         /\ IFlag' = (IFlag /\ handler = "isr") /\ UNCHANGED reg
      \/ /\ sp = NULL /\ pc' = "reset" /\ IFlag' = FALSE /\ UNCHANGED <<ring, rsp, reg, stack>>
  BY Zenon DEF Enter
<1>3. /\ sp # NULL => sp \in Pointers /\ sp.in \in {"kernel", "tss"}
      /\ sp = NULL => ring = 0 /\ pc \in {"entry", "sysret"} /\ user_stack_save = NULL
      /\ ring = 3 => sp = At("tss", 0)
  BY <1>1 DEF Open, Pointers, At, NULL, Base, None, Stacks
<1>4. CASE sp # NULL /\ Push(sp, <<frame>>) /\ pc' = handler
  <2>1. sp \in Pointers /\ sp.in \in Stacks
    BY <1>3, <1>4, Zenon DEF Stacks
  <2> HIDE DEF sp, frame
  <2>2. /\ rsp' = At(sp.in, sp.depth + 1) /\ DOMAIN stack' = Stacks
        /\ stack'[sp.in][sp.depth + 1] = frame
    BY <1>1, <1>4, <2>1, Pushed
  <2>3. sp.depth \in Nat /\ rsp'.in = sp.in /\ rsp'.depth = sp.depth + 1 /\ rsp' \in Pointers
    <3>1. sp.depth \in Nat /\ sp.in \in Stacks
      BY <2>1, Zenon DEF Pointers
    <3>2. rsp'.in = sp.in /\ rsp'.depth = sp.depth + 1
      BY <2>2 DEF At
    <3>3. At(sp.in, sp.depth + 1) \in Pointers
      BY <3>1 DEF At, Pointers
    <3> QED
      BY <2>2, <3>1, <3>2, <3>3
  <2>4. rsp'.depth - 1 + 1 = sp.depth + 1
    BY <2>3
  <2>5. Top(1)' = frame
    BY <2>2, <2>3, <2>4 DEF Top
  <2>6. ring = 3 => rsp' = At("tss", 1)
    BY <1>3, <2>2 DEF At
  <2>7. ring' = 0 /\ IFlag' = (handler = "isr") /\ reg' = reg
    BY <1>2, <1>4
  <2>8. rsp'.in \in {"kernel", "tss"} /\ rsp'.depth >= 1
    BY <1>3, <1>4, <2>3
  <2> QED
    BY <1>4, <2>2, <2>3, <2>5, <2>6, <2>7, <2>8, Zenon DEF frame
<1>5. CASE sp = NULL /\ pc' = "reset"
  BY <1>1, <1>2, <1>3, <1>5, Zenon
<1> QED
  BY <1>2, <1>4, <1>5, Zenon

\* The processor takes an interrupt: it enters the handler of the line, or
\* resets in the first entry to ring 3.
LEMMA Accepted ==
  ASSUME MachineInv, NEW l \in Devices \cup {1}, Accept(l)
  PROVE  /\ Enter("irq") /\ IFlag = TRUE /\ Open(pc, ring, rsp, reg) /\ pc \notin Early \cup InHandler
         /\ line' = l /\ l \in (0 .. 15) \ {2}
<1>1. Types /\ SetUp /\ Control /\ Traffic
  BY DEF MachineInv
<1>2. IFlag = TRUE /\ Open(pc, ring, rsp, reg) /\ pc \notin Early \cup InHandler
  BY <1>1, FlagOpen DEF Accept
<1>3. l \in (0 .. 15) \ {2}
  BY MachineAssumption
<1>4. Remapped(10) /\ idt
  BY <1>1, <1>2 DEF SetUp, Early
<1>5. Vector(l) = 32 + l
  BY <1>3, <1>4, VectorOf
<1>6. Gate(Vector(l)) = "irq"
  BY <1>3, <1>4, <1>5 DEF Gate
<1>7. line' = l
  BY <1>3, <1>5 DEF Accept
<1> QED
  BY <1>2, <1>3, <1>6, <1>7 DEF Accept

\* Taking an interrupt keeps the invariant.
LEMMA AcceptInv ==
  ASSUME MachineInv, NEW l \in Devices \cup {1}, Accept(l)
  PROVE  MachineInv'
<1>1. Types /\ SetUp /\ Control /\ Traffic
  BY DEF MachineInv
<1>2. /\ Enter("irq") /\ IFlag = TRUE /\ Open(pc, ring, rsp, reg) /\ pc \notin Early \cup InHandler
      /\ line' = l /\ l \in (0 .. 15) \ {2}
  BY Accepted, Zenon
<1>3. /\ \/ /\ pc' = "irq"
            /\ rsp'.in \in {"kernel", "tss"} /\ rsp' \in Pointers /\ rsp'.depth >= 1
            /\ ring' = 0 /\ IFlag' = FALSE
            /\ Top(1)' = [pc |-> pc, ring |-> ring, IFlag |-> IFlag, rsp |-> rsp]
         \/ /\ pc' = "reset" /\ IFlag' = FALSE /\ ring' = 0 /\ rsp' = rsp
      /\ DOMAIN stack' = Stacks /\ reg' = reg
  BY <1>1, <1>2, Entered, Zenon
<1>4. /\ UNCHANGED <<kernel_stack_save, user_stack_save, tss, chip, writes, idt, pressHandlers,
                     port, al, typed, heard>>
      /\ isr' = isr \cup {l, MasterLine(l)}
  BY Zenon DEF Accept, saves, setup, keys
<1>5. Types'
  BY <1>1, <1>3 DEF Types
<1>6. SetUp'
  BY <1>1, <1>2, <1>3, <1>4, SetUpKept, Zenon DEF Early
<1>7. al = None /\ isr = {}
  BY <1>1, <1>2 DEF Traffic, ServesItsLine, InHandler, Open
<1>8. Traffic'
  BY <1>1, <1>2, <1>3, <1>4, <1>7, Zenon DEF Traffic, ServesItsLine, KeysInOrder
<1>9. CASE pc' = "irq"
  <2>1. Top(1)'.pc = pc /\ Top(1)'.ring = ring /\ Top(1)'.IFlag = TRUE /\ Top(1)'.rsp = rsp
    <3>1. Top(1)' = [pc |-> pc, ring |-> ring, IFlag |-> IFlag, rsp |-> rsp]
      BY <1>3, <1>9, Zenon
    <3>2. LET frame == [pc |-> pc, ring |-> ring, IFlag |-> IFlag, rsp |-> rsp]
          IN  frame.pc = pc /\ frame.ring = ring /\ frame.IFlag = IFlag /\ frame.rsp = rsp
      BY Zenon
    <3> QED
      BY <1>2, <3>1, <3>2, Zenon
  <2>2. Interrupted(Top(1), reg)'
    BY <1>2, <1>3, <1>4, <2>1, Zenon DEF Interrupted, Open
  <2>3. Handling'
    BY <1>2, <1>3, <1>9, <2>2 DEF Handling
  <2> QED
    BY <1>3, <1>5, <1>6, <1>8, <1>9, <2>3 DEF MachineInv, Control
<1>10. CASE pc' = "reset"
  BY <1>3, <1>5, <1>6, <1>8, <1>10, Zenon DEF MachineInv, Control
<1> QED
  BY <1>3, <1>9, <1>10

------------------------------------------------------------------------------
(* The handlers of the lines *)

\* In a handler of a line interrupts are off, and the frame of the
\* interrupted thread is on the stack.
LEMMA InHandlerHandling ==
  ASSUME Control, pc \in InHandler
  PROVE  ring = 0 /\ IFlag = FALSE /\ Handling
BY DEF Control, Open, InCall, Early, InHandler

\* The end of interrupt retires the line in service, and line 2 with a line
\* of the slave.
LEMMA AllRetired ==
  ASSUME line \in (0 .. 15) \ {2}
  PROVE  LET served == {line, MasterLine(line)}
         IN  Retired(1, IF line >= 8 THEN Retired(2, served) ELSE served) = {}
<1>1. CASE line < 8
  <2>1. {line, MasterLine(line)} = {line}
    BY <1>1 DEF MasterLine
  <2>2. line \in LinesOf(1)
    BY <1>1 DEF LinesOf
  <2>3. Retired(1, {line}) = {}
    BY <2>2, <1>1 DEF Retired
  <2> QED
    BY <1>1, <2>1, <2>3
<1>2. CASE line >= 8
  <2>1. {line, MasterLine(line)} = {line, 2}
    BY <1>2 DEF MasterLine
  <2>2. line \in LinesOf(2) /\ 2 \notin LinesOf(2) /\ 2 \in LinesOf(1)
    BY <1>2 DEF LinesOf
  <2>3. Retired(2, {line, 2}) = {2} /\ Retired(1, {2}) = {}
    BY <1>2, <2>2 DEF Retired
  <2> QED
    BY <1>2, <2>1, <2>3
<1> QED
  BY <1>1, <1>2

\* Every step of a handler keeps the invariant.
LEMMA HandlerInv ==
  ASSUME MachineInv, Handler
  PROVE  MachineInv'
<1>1. Types /\ SetUp /\ Control /\ Traffic
  BY DEF MachineInv
<1>2. /\ UNCHANGED <<kernel_stack_save, user_stack_save, tss, chip, writes, idt, pressHandlers, typed>>
      /\ pc \in InHandler
  BY DEF Handler, IrqEntry, PIC_send_EOI, IrqBody, IrqReturn, Goto, saves, setup, pics, keys, InHandler
<1>3. ring = 0 /\ IFlag = FALSE /\ Handling
  BY <1>1, <1>2, InHandlerHandling
<1>4. rsp \in Pointers /\ rsp.in \in Stacks /\ rsp.depth \in Nat /\ DOMAIN stack = Stacks
  BY <1>1, <1>3 DEF Types, Pointers, Handling, Stacks
<1>5. pc' \notin Early => SetUp'
  BY <1>1, <1>2, SetUpKept DEF InHandler, Early
<1>6. CASE IrqEntry
  <2>1. /\ pc = "irq" /\ pc' = "eoi" /\ Push(rsp, <<reg>>) /\ reg' = Regs("handler")
        /\ al' = (IF line = 1 THEN port ELSE al)
        /\ port' = (IF line = 1 THEN None ELSE port)
        /\ UNCHANGED <<ring, IFlag, isr, heard, line>>
    BY <1>6, SMTT(15) DEF IrqEntry, Goto, pics
  <2>2. /\ rsp' = At(rsp.in, rsp.depth + 1) /\ DOMAIN stack' = Stacks
        /\ stack'[rsp.in][rsp.depth + 1] = reg
        /\ \A i \in 1 .. rsp.depth : stack'[rsp.in][i] = stack[rsp.in][i]
    BY <1>4, <2>1, Pushed
  <2>3. rsp.depth >= 1 /\ Interrupted(Top(1), reg) /\ line \in (0 .. 15) \ {2}
        /\ rsp.in \in {"kernel", "tss"}
    BY <1>3, <2>1, Zenon DEF Handling, InHandler
  <2>4. rsp'.in = rsp.in /\ rsp'.depth = rsp.depth + 1 /\ rsp' \in Pointers
    BY <1>4, <2>2, SMTT(15) DEF At, Pointers
  <2>5. Types'
    BY <1>1, <2>1, <2>2, <2>4, Zenon DEF Types, Registers, Regs
  <2>6. rsp'.depth - 1 + 1 = rsp.depth + 1 /\ rsp'.depth - 2 + 1 = rsp.depth
        /\ rsp.depth - 1 + 1 = rsp.depth /\ rsp.depth \in 1 .. rsp.depth
    BY <1>4, <2>3, <2>4
  <2>7. Top(1)' = reg /\ Top(2)' = Top(1)
    BY <2>2, <2>4, <2>6, Zenon DEF Top
  <2>8. Interrupted(Top(2), Top(1))'
    BY <1>2, <2>3, <2>7 DEF Interrupted, Open
  <2>9. rsp'.depth >= 2
    BY <1>4, <2>3, <2>4
  <2>10. Handling'
    BY <2>1, <2>3, <2>4, <2>8, <2>9 DEF Handling, InHandler
  <2>11. Control'
    BY <1>3, <2>1, <2>10, Zenon DEF Control
  <2>12. al = None /\ {port, al} \subseteq Codes \cup {None}
    BY <1>1, <2>1 DEF Traffic
  <2>13. KeysInOrder'
    <3>1. heard \in Seq(Codes)
      BY <1>1 DEF Traffic
    <3>2. CASE port = None \/ line # 1
      BY <1>1, <1>2, <2>1, <2>12, <3>2, Zenon DEF Traffic, KeysInOrder
    <3>3. CASE port # None /\ line = 1
      <4>1. typed = heard \o <<>> \o <<port>>
        BY <1>1, <2>12, <3>3 DEF Traffic, KeysInOrder
      <4>2. typed = heard \o <<port>> \o <<>>
        BY <2>12, <3>1, <3>3, <4>1
      <4> QED
        BY <1>2, <2>1, <3>3, <4>2, Zenon DEF KeysInOrder
    <3> QED
      BY <3>2, <3>3
  <2>14. Traffic'
    BY <1>1, <1>2, <2>1, <2>12, <2>13 DEF Traffic, ServesItsLine
  <2> QED
    BY <1>5, <2>1, <2>5, <2>11, <2>14, Zenon DEF MachineInv, Early
<1>7. CASE PIC_send_EOI
  <2>1. /\ pc = "eoi" /\ pc' = "body"
        /\ isr' = Retired(1, IF line >= 8 THEN Retired(2, isr) ELSE isr)
        /\ UNCHANGED <<ring, IFlag, rsp, reg, stack, port, al, heard, line>>
    BY <1>7, Zenon DEF PIC_send_EOI, Goto, keys
  <2>2. line \in (0 .. 15) \ {2} /\ isr = {line, MasterLine(line)}
    BY <1>1, <1>3, <2>1, Zenon DEF Handling, Traffic, ServesItsLine
  <2>3. isr' = {}
    BY <2>1, <2>2, AllRetired, Zenon
  <2>4. Traffic'
    BY <1>1, <1>2, <2>1, <2>3 DEF Traffic, ServesItsLine, KeysInOrder
  <2>5. Handling'
    BY <1>2, <1>3, <2>1, Zenon DEF Handling, InHandler, Interrupted, Open, Top
  <2>6. Types' /\ Control'
    BY <1>1, <1>3, <2>1, <2>5 DEF Types, Control
  <2> QED
    BY <1>5, <2>1, <2>4, <2>6 DEF MachineInv, Early
<1>8. CASE IrqBody
  <2>1. /\ pc = "body" /\ pc' = "iret" /\ al' = None
        /\ heard' = (IF (al \notin {None, "up"} /\ pressHandlers # <<>>) \/ al = "up"
                     THEN Append(heard, al) ELSE heard)
        /\ UNCHANGED <<ring, IFlag, rsp, reg, stack, isr, port, line>>
    BY <1>8 DEF IrqBody, Goto
  <2>2. pressHandlers # <<>>
    BY <1>1, <2>1 DEF SetUp
  <2>3. heard \in Seq(Codes) /\ {al, port} \subseteq Codes \cup {None}
    BY <1>1 DEF Traffic
  <2>4. heard' \in Seq(Codes)
    BY <2>1, <2>3 DEF None
  <2>5. KeysInOrder'
    <3>1. CASE al = None
      <4>1. heard' = heard
        BY <2>1, <3>1 DEF None
      <4> QED
        BY <1>1, <1>2, <2>1, <3>1, <4>1, Zenon DEF Traffic, KeysInOrder
    <3>2. CASE al # None /\ port = None
      <4>1. heard' = Append(heard, al)
        BY <2>1, <2>2, <3>2
      <4>2. typed = heard \o <<al>> \o <<>>
        BY <1>1, <3>2 DEF Traffic, KeysInOrder
      <4>3. typed = heard' \o <<>> \o <<>>
        BY <2>3, <3>2, <4>1, <4>2
      <4> QED
        BY <1>2, <2>1, <3>2, <4>3 DEF KeysInOrder
    <3>3. CASE al # None /\ port # None
      <4>1. heard' = Append(heard, al)
        BY <2>1, <2>2, <3>3
      <4>2. typed = heard \o <<al>> \o <<port>>
        BY <1>1, <3>3 DEF Traffic, KeysInOrder
      <4>3. typed = heard' \o <<>> \o <<port>>
        BY <2>3, <3>3, <4>1, <4>2
      <4> QED
        BY <1>2, <2>1, <3>3, <4>3 DEF KeysInOrder
    <3> QED
      BY <3>1, <3>2, <3>3
  <2>6. Traffic'
    BY <1>1, <1>2, <2>1, <2>3, <2>4, <2>5 DEF Traffic, ServesItsLine
  <2>7. Handling'
    BY <1>2, <1>3, <2>1, Zenon DEF Handling, InHandler, Interrupted, Open, Top
  <2>8. Types' /\ Control'
    BY <1>1, <1>3, <2>1, <2>7 DEF Types, Control
  <2> QED
    BY <1>5, <2>1, <2>6, <2>8 DEF MachineInv, Early
<1>9. CASE IrqReturn
  <2>1. /\ pc = "iret" /\ reg' = Top(1) /\ pc' = Top(2).pc /\ ring' = Top(2).ring
        /\ IFlag' = Top(2).IFlag /\ rsp' = Top(2).rsp
        /\ UNCHANGED <<isr, port, al, heard>>
        /\ stack' = Popped(2)
    BY <1>9, Zenon DEF IrqReturn, pics, keys
  <2>2. Top(2).IFlag = TRUE /\ Open(Top(2).pc, Top(2).ring, Top(2).rsp, Top(1))
    BY <1>3, <2>1, Zenon DEF Handling, InHandler, Interrupted
  <2>3. Open(pc, ring, rsp, reg)'
    BY <1>2, <2>1, <2>2 DEF Open
  <2>4. pc' \notin Early \cup InHandler
    BY <2>3 DEF Open, Early, InHandler
  <2>5. DOMAIN stack' = Stacks
    BY <1>4, <2>1, SMTT(15) DEF Popped
  <2>6. Types' /\ Control'
    BY <2>1, <2>2, <2>3, <2>5, Zenon DEF Types, Control, Open
  <2>7. Traffic'
    BY <1>1, <1>2, <2>1, <2>4, TrafficKept DEF InHandler
  <2> QED
    BY <1>5, <2>4, <2>6, <2>7 DEF MachineInv
<1> QED
  BY <1>6, <1>7, <1>8, <1>9, Zenon DEF Handler

------------------------------------------------------------------------------
(* The thread: ring 3, system calls and exceptions *)

\* A step of the thread keeps what boot set up, the line in service and the
\* scan codes.
LEMMA ThreadKeeps ==
  ASSUME SetUp, Traffic, UNCHANGED <<pics, setup, keys, line>>,
         pc \notin Early \cup InHandler \cup {"reset"}, pc' \notin Early \cup InHandler
  PROVE  SetUp' /\ Traffic'
<1>1. UNCHANGED <<chip, isr, writes, idt, pressHandlers, port, al, typed, heard>>
  BY DEF pics, setup, keys
<1>2. SetUp'
  BY <1>1, SetUpKept
<1>3. Traffic'
  BY <1>1, TrafficKept, Zenon DEF InHandler
<1> QED
  BY <1>2, <1>3, Zenon

\* The thread's next step on its way into ring 3.
LEMMA JumpInv ==
  ASSUME MachineInv, JumpUsermode
  PROVE  Types' /\ Control' /\ pc \notin Early \cup InHandler \cup {"reset"}
         /\ pc' \notin Early \cup InHandler \cup {"reset"}
<1>1. Types /\ Control
  BY DEF MachineInv
<1>2. tss' = tss
  BY DEF JumpUsermode, GetFlags, SaveKernelStack, LoadUserStack, SetEntry, Sysret, Rest, setup
<1>3. reg = [gp |-> reg.gp, rcx |-> reg.rcx, r11 |-> reg.r11] /\ reg \in Registers
  BY <1>1, Zenon DEF Types, Registers
<1>4. pc \in {"flags", "save", "load", "entry"} => IFlag = TRUE /\ Open(pc, ring, rsp, reg)
  BY <1>1 DEF Control, Early, InCall, Handling, InHandler
<1>5. CASE GetFlags
  <2>1. /\ pc = "flags" /\ pc' = "save" /\ reg' = [reg EXCEPT !.r11 = IFlag]
        /\ UNCHANGED <<ring, IFlag, rsp, stack, saves>>
    BY <1>5 DEF GetFlags, Goto
  <2>2. reg' \in Registers /\ reg'.r11 = TRUE
    BY <1>3, <1>4, <2>1, Zenon DEF Registers
  <2>3. Types'
    BY <1>1, <2>1, <2>2 DEF Types
  <2>4. Open(pc, ring, rsp, reg)'
    BY <1>2, <1>4, <2>1, <2>2, Zenon DEF Open, saves
  <2> QED
    BY <1>4, <2>1, <2>3, <2>4 DEF Control, Early, InHandler
<1>6. CASE SaveKernelStack("save", "load")
  <2>1. /\ pc = "save" /\ pc' = "load" /\ kernel_stack_save' = rsp
        /\ UNCHANGED <<ring, IFlag, rsp, reg, stack, user_stack_save>>
    BY <1>6 DEF SaveKernelStack, Goto
  <2>2. Types'
    BY <1>1, <2>1, Zenon DEF Types
  <2>3. Open(pc, ring, rsp, reg)'
    BY <1>2, <1>4, <2>1, Zenon DEF Open, Base
  <2> QED
    BY <1>4, <2>1, <2>2, <2>3 DEF Control, Early, InHandler
<1>7. CASE LoadUserStack("load", "entry")
  <2>1. /\ pc = "load" /\ pc' = "entry" /\ rsp' = user_stack_save
        /\ UNCHANGED <<ring, IFlag, reg, stack, saves>>
    BY <1>7, Zenon DEF LoadUserStack, Goto
  <2>2. rsp' = NULL /\ NULL \in Pointers
    BY <1>4, <2>1 DEF Open, NULL, At, Pointers
  <2>3. Types'
    BY <1>1, <2>1, <2>2, Zenon DEF Types
  <2>4. Open(pc, ring, rsp, reg)'
    BY <1>2, <1>4, <2>1, <2>2 DEF Open, saves
  <2> QED
    BY <1>4, <2>1, <2>3, <2>4 DEF Control, Early, InHandler
<1>8. CASE SetEntry
  <2>1. /\ pc = "entry" /\ pc' = "sysret" /\ reg' = [reg EXCEPT !.rcx = "os_entry"]
        /\ UNCHANGED <<ring, IFlag, rsp, stack, saves>>
    BY <1>8 DEF SetEntry, Goto
  <2>2. reg' \in Registers /\ reg'.r11 = reg.r11 /\ reg'.rcx = "os_entry"
    BY <1>3, <2>1 DEF Registers
  <2>3. Types'
    BY <1>1, <2>1, <2>2 DEF Types
  <2>4. Open(pc, ring, rsp, reg)'
    BY <1>2, <1>4, <2>1, <2>2 DEF Open, saves
  <2> QED
    BY <1>4, <2>1, <2>3, <2>4 DEF Control, Early, InHandler
<1>9. CASE Sysret
  <2>1. /\ pc = "sysret" /\ pc' = reg.rcx /\ ring' = 3 /\ IFlag' = reg.r11
        /\ UNCHANGED <<rsp, reg, stack, saves>>
    BY <1>9 DEF Sysret
  <2>2. Types'
    BY <1>1, <2>1, Zenon DEF Types
  <2>3. \/ IFlag = TRUE /\ Open(pc, ring, rsp, reg)
        \/ InCall
    BY <1>1, <2>1, Zenon DEF Control, Early, Handling, InHandler
  <2>4. CASE Open(pc, ring, rsp, reg)
    <3>1. pc' = "os_entry" /\ IFlag' = TRUE
      BY <1>3, <2>1, <2>4, Zenon DEF Open, Registers
    <3>2. Open(pc, ring, rsp, reg)'
      BY <1>2, <2>1, <2>4, <3>1, Zenon DEF Open, saves
    <3> QED
      BY <2>1, <2>2, <3>1, <3>2, Zenon DEF Control, Early, InHandler
  <2>5. CASE InCall
    <3>1. pc' = "user" /\ IFlag' = TRUE /\ tss /\ kernel_stack_save = Base /\ rsp.in = "user"
      BY <2>1, <2>5, Zenon DEF InCall, CallersRegisters
    <3>2. Open(pc, ring, rsp, reg)'
      BY <1>2, <2>1, <2>2, <3>1, Zenon DEF Open, saves, Types, Base
    <3> QED
      BY <2>1, <2>2, <3>1, <3>2, Zenon DEF Control, Early, InHandler
  <2> QED
    BY <2>3, <2>4, <2>5
<1> QED
  BY <1>5, <1>6, <1>7, <1>8, <1>9 DEF JumpUsermode

\* Steps of the code in ring 3.
LEMMA UserInv ==
  ASSUME MachineInv, OsEntry \/ UserStep
  PROVE  Types' /\ Control' /\ pc \notin Early \cup InHandler \cup {"reset"}
         /\ pc' \notin Early \cup InHandler \cup {"reset"}
<1>1. Types /\ Control
  BY Zenon DEF MachineInv
<1>2. /\ pc \in {"os_entry", "user"} /\ pc' = "user"
      /\ UNCHANGED <<ring, IFlag, saves, tss>>
      /\ \E n \in 0 .. UserDepth : rsp' = At("user", n)
      /\ reg' \in {reg, Regs("user")}
      /\ stack' = stack \/ \E n \in 0 .. UserDepth : stack' = [stack EXCEPT !["user"] = Junk(n)]
  <2>1. CASE OsEntry
    BY <2>1, MachineAssumption DEF OsEntry, Goto, Rest, setup
  <2>2. CASE UserStep
    BY <2>2, Zenon DEF UserStep, Goto, Rest, setup
  <2> QED
    BY <2>1, <2>2, Zenon
<1>3. IFlag = TRUE /\ Open(pc, ring, rsp, reg)
  BY <1>1, <1>2 DEF Control, Early, InCall, Handling, InHandler
<1>4. rsp' \in Pointers /\ rsp'.in = "user" /\ reg' \in Registers /\ DOMAIN stack' = Stacks
  <2>1. rsp' \in Pointers /\ rsp'.in = "user"
    BY <1>2, MachineAssumption DEF Pointers, At, Stacks
  <2>2. Regs("user") \in Registers
    BY DEF Registers, Regs
  <2>3. reg' \in Registers
    BY <1>1, <1>2, <2>2 DEF Types
  <2>4. DOMAIN stack' = Stacks
    BY <1>1, <1>2 DEF Types
  <2> QED
    BY <2>1, <2>3, <2>4, Zenon
<1>5. Types'
  BY <1>4, Zenon DEF Types
<1>6. Open(pc, ring, rsp, reg)'
  BY <1>2, <1>3, <1>4, SMTT(15) DEF Open, saves, Base
<1> QED
  BY <1>2, <1>3, <1>5, <1>6 DEF Control, Early, InHandler

\* What a push of several values leaves.
LEMMA PushedMany ==
  ASSUME NEW sp \in Pointers, sp.in \in Stacks, DOMAIN stack = Stacks,
         NEW values, NEW n \in Nat, Len(values) = n, Push(sp, values)
  PROVE  /\ rsp' = At(sp.in, sp.depth + n) /\ rsp' \in Pointers
         /\ DOMAIN stack' = Stacks
         /\ \A i \in 1 .. n : stack'[sp.in][sp.depth + i] = values[i]
<1>1. sp = [in |-> sp.in, depth |-> sp.depth] /\ sp.depth \in Nat
  BY DEF Pointers
<1>2. rsp' = [sp EXCEPT !.depth = @ + Len(values)]
  BY DEF Push
<1>3. rsp' = At(sp.in, sp.depth + n)
  BY <1>1, <1>2, Zenon DEF At
<1>4. rsp' \in Pointers
  BY <1>1, <1>3 DEF At, Pointers
<1>5. /\ DOMAIN stack' = Stacks
      /\ stack'[sp.in] = [i \in 1 .. sp.depth + n |-> IF i <= sp.depth THEN stack[sp.in][i]
                                                      ELSE values[i - sp.depth]]
  BY Zenon DEF Push
<1>6. ASSUME NEW i \in 1 .. n PROVE stack'[sp.in][sp.depth + i] = values[i]
  <2>1. /\ sp.depth + i \in 1 .. sp.depth + n /\ ~(sp.depth + i <= sp.depth)
        /\ (sp.depth + i) - sp.depth = i
    BY <1>1
  <2> QED
    BY <1>5, <2>1, Zenon
<1> QED
  BY <1>3, <1>4, <1>5, <1>6, Zenon

\* A step of syscall_handler.
LEMMA CallInv ==
  ASSUME MachineInv, SystemCall
  PROVE  Types' /\ Control' /\ pc \notin Early \cup InHandler \cup {"reset"}
         /\ pc' \notin Early \cup InHandler \cup {"reset"}
<1>1. Types /\ Control /\ Entry \in Nat
  BY MachineAssumption, Zenon DEF MachineInv
<1>2. tss' = tss
  BY Zenon DEF SystemCall, Syscall, SaveUserStack, LoadKernelStack, PushRegisters, handle_syscall,
         MapDisable, MapEnable, PopRegisters, SaveKernelStack, LoadUserStack, Rest, setup
<1>3. reg = [gp |-> reg.gp, rcx |-> reg.rcx, r11 |-> reg.r11] /\ reg \in Registers
      /\ rsp \in Pointers /\ DOMAIN stack = Stacks
  BY <1>1, Zenon DEF Types, Registers
<1>4. pc \in {"syscall", "switch", "push", "call", "map", "mapped", "pop", "save_kernel", "load_user"}
        => ring = 0 /\ IFlag = FALSE /\ InCall
  BY <1>1 DEF Control, Early, Open, Handling, InHandler
<1>5. Base \in Pointers
  BY <1>1, Zenon DEF Base, At, Pointers, Stacks
<1>6. ASSUME Types', ring' = 0, IFlag' = FALSE, InCall',
             pc \notin Early \cup InHandler \cup {"reset"}
      PROVE  Types' /\ Control' /\ pc \notin Early \cup InHandler \cup {"reset"}
             /\ pc' \notin Early \cup InHandler \cup {"reset"}
  BY <1>6 DEF Control, InCall, Early, InHandler
<1>7. CASE Syscall
  <2>1. /\ pc = "user" /\ pc' = "syscall" /\ reg' = [reg EXCEPT !.rcx = "user", !.r11 = IFlag]
        /\ ring' = 0 /\ IFlag' = FALSE /\ caller' = [rsp |-> rsp, gp |-> reg.gp]
        /\ UNCHANGED <<rsp, stack, kernel_stack_save, user_stack_save>>
    BY <1>7 DEF Syscall, Goto
  <2>2. IFlag = TRUE /\ Open(pc, ring, rsp, reg)
    BY <1>1, <2>1 DEF Control, Early, InCall, Handling, InHandler
  <2>3. reg' \in Registers /\ reg'.rcx = "user" /\ reg'.r11 = TRUE /\ reg'.gp = reg.gp
    BY <1>3, <2>1, <2>2, Zenon DEF Registers
  <2>4. Types'
    BY <1>1, <2>1, <2>3 DEF Types
  <2>5. caller' \in [rsp : Pointers, gp : {"kernel", "handler", "user"}]
    BY <1>3, <2>1 DEF Registers
  <2>6. InCall'
    BY <1>2, <2>1, <2>2, <2>3, <2>5 DEF InCall, CallersRegisters, Open, Base
  <2> QED
    BY <1>6, <2>1, <2>4, <2>6, Zenon DEF Early, InHandler
<1>8. CASE SaveUserStack
  <2>1. /\ pc = "syscall" /\ pc' = "switch" /\ user_stack_save' = rsp
        /\ UNCHANGED <<ring, IFlag, rsp, reg, stack, kernel_stack_save, caller>>
    BY <1>8 DEF SaveUserStack, Goto
  <2>2. Types'
    BY <1>1, <2>1, Zenon DEF Types
  <2>3. InCall'
    BY <1>2, <1>4, <2>1 DEF InCall, CallersRegisters, Base
  <2> QED
    BY <1>4, <1>6, <2>1, <2>2, <2>3, Zenon DEF Early, InHandler
<1>9. CASE LoadKernelStack
  <2>1. /\ pc = "switch" /\ pc' = "push" /\ rsp' = kernel_stack_save
        /\ UNCHANGED <<ring, IFlag, reg, stack, kernel_stack_save, user_stack_save, caller>>
    BY <1>9 DEF LoadKernelStack, Goto, saves
  <2>2. rsp' = Base
    BY <1>4, <2>1 DEF InCall
  <2>3. Types'
    BY <1>1, <1>5, <2>1, <2>2, Zenon DEF Types
  <2>4. InCall'
    BY <1>2, <1>4, <2>1, <2>2 DEF InCall, CallersRegisters, Base
  <2> QED
    BY <1>4, <1>6, <2>1, <2>3, <2>4, Zenon DEF Early, InHandler
<1>10. CASE PushRegisters
  <2> DEFINE values == <<reg.r11, reg.rcx, reg.gp, None>>
  <2>1. /\ pc = "push" /\ pc' = "call" /\ Push(rsp, values)
        /\ UNCHANGED <<ring, IFlag, reg, kernel_stack_save, user_stack_save, caller>>
    BY <1>10, Zenon DEF PushRegisters, Goto, saves
  <2>2. rsp = Base /\ rsp.in = "kernel" /\ rsp.depth = Entry /\ CallersRegisters
    BY <1>4, <2>1 DEF InCall, Base, At
  <2>3. Len(values) = 4 /\ values[1] = TRUE /\ values[2] = "user" /\ values[3] = caller.gp
    BY <2>2, Zenon DEF CallersRegisters
  <2> HIDE DEF values
  <2>4. /\ rsp' = At("kernel", Entry + 4) /\ rsp' \in Pointers /\ DOMAIN stack' = Stacks
        /\ \A i \in 1 .. 4 : stack'["kernel"][Entry + i] = values[i]
    <3>1. rsp \in Pointers /\ rsp.in \in Stacks /\ 4 \in Nat /\ Len(values) = 4
      BY <1>3, <2>2, <2>3, SMTT(15) DEF Stacks
    <3>2. /\ rsp' = At(rsp.in, rsp.depth + 4) /\ rsp' \in Pointers /\ DOMAIN stack' = Stacks
          /\ \A i \in 1 .. 4 : stack'[rsp.in][rsp.depth + i] = values[i]
      <4>1. PICK sp, v, n : sp = rsp /\ v = values /\ n = 4
        OBVIOUS
      <4>2. sp \in Pointers /\ sp.in \in Stacks /\ DOMAIN stack = Stacks /\ Push(sp, v)
        BY <1>3, <2>1, <3>1, <4>1, Zenon
      <4>3. n \in Nat /\ Len(v) = n
        BY <3>1, <4>1, Zenon
      <4>4. /\ rsp' = At(sp.in, sp.depth + n) /\ rsp' \in Pointers /\ DOMAIN stack' = Stacks
            /\ \A i \in 1 .. n : stack'[sp.in][sp.depth + i] = v[i]
        BY <4>2, <4>3, PushedMany, ZenonT(40)
      <4> QED
        BY <4>1, <4>4
    <3> QED
      BY <2>2, <3>2
  <2>5. Types'
    BY <1>1, <2>1, <2>4, Zenon DEF Types
  <2>6. CallersSaved'
    BY <2>1, <2>3, <2>4 DEF CallersSaved
  <2>7. InCall'
    BY <1>2, <1>4, <2>1, <2>6 DEF InCall, Base
  <2> QED
    BY <1>4, <1>6, <2>1, <2>5, <2>7, Zenon DEF Early, InHandler
<1>11. CASE handle_syscall
  <2>1. /\ pc = "call" /\ pc' \in {"pop", "map"} /\ reg' = Regs("kernel")
        /\ UNCHANGED <<ring, IFlag, rsp, stack, kernel_stack_save, user_stack_save, caller>>
    BY <1>11, Zenon DEF handle_syscall, Goto, saves
  <2>2. reg' \in Registers
    BY <2>1 DEF Regs, Registers
  <2>3. Types'
    BY <1>1, <2>1, <2>2, SMTT(15) DEF Types
  <2>4. InCall'
    BY <1>2, <1>4, <2>1 DEF InCall, CallersSaved, Base
  <2> QED
    BY <1>4, <1>6, <2>1, <2>3, <2>4, Zenon DEF Early, InHandler
<1>12. CASE MapDisable
  <2>1. /\ pc = "map" /\ pc' = "mapped" /\ interrupts' = IFlag /\ IFlag' = FALSE
        /\ UNCHANGED <<ring, rsp, reg, stack, kernel_stack_save, user_stack_save, caller>>
    BY <1>12 DEF MapDisable, Goto
  <2>2. Types'
    BY <1>1, <2>1, SMTT(15) DEF Types
  <2>3. InCall'
    BY <1>2, <1>4, <2>1 DEF InCall, CallersSaved, Base
  <2> QED
    BY <1>4, <1>6, <2>1, <2>2, <2>3, Zenon DEF Early, InHandler
<1>13. CASE MapEnable
  <2>1. /\ pc = "mapped" /\ pc' = "pop" /\ IFlag' = (IFlag \/ interrupts)
        /\ UNCHANGED <<ring, rsp, reg, stack, kernel_stack_save, user_stack_save, caller>>
    BY <1>13 DEF MapEnable, Goto, saves
  <2>2. Types'
    BY <1>1, <2>1, Zenon DEF Types
  <2>3. interrupts = FALSE
    BY <1>4, <2>1 DEF InCall
  <2>4. IFlag' = FALSE
    BY <1>4, <2>1, <2>3, Zenon
  <2>5. InCall'
    BY <1>2, <1>4, <2>1 DEF InCall, CallersSaved, Base
  <2> QED
    BY <1>4, <1>6, <2>1, <2>2, <2>4, <2>5, Zenon DEF Early, InHandler
<1>14. CASE PopRegisters
  <2>1. /\ pc = "pop" /\ pc' = "save_kernel"
        /\ reg' = [gp |-> Top(2), rcx |-> Top(3), r11 |-> Top(4)]
        /\ rsp' = [rsp EXCEPT !.depth = @ - 4] /\ stack' = Popped(4)
        /\ UNCHANGED <<ring, IFlag, kernel_stack_save, user_stack_save, caller>>
    BY <1>14 DEF PopRegisters, Goto, saves
  <2>2. CallersSaved /\ caller.gp \in {"kernel", "handler", "user"}
    BY <1>4, <2>1, Zenon DEF InCall
  <2>3. rsp.in = "kernel" /\ rsp.depth = Entry + 4
    BY <2>2 DEF CallersSaved, At
  <2>4. /\ rsp.depth - 2 + 1 = Entry + 3 /\ rsp.depth - 3 + 1 = Entry + 2
        /\ rsp.depth - 4 + 1 = Entry + 1 /\ rsp.depth - 4 = Entry
    BY <1>1, <2>3
  <2>5. Top(2) = caller.gp /\ Top(3) = "user" /\ Top(4) = TRUE
    BY <2>2, <2>3, <2>4 DEF Top, CallersSaved
  <2>6. reg' \in Registers /\ CallersRegisters'
    BY <2>1, <2>2, <2>5, Zenon DEF Registers, CallersRegisters
  <2>7. rsp' = Base
    BY <1>3, <2>1, <2>3, <2>4 DEF Base, At, Pointers
  <2>8. DOMAIN stack' = Stacks
    BY <1>3, <2>1 DEF Popped
  <2>9. Types'
    BY <1>5, <2>6, <2>7, <2>8 DEF Types
  <2>10. InCall'
    BY <1>2, <1>4, <2>1, <2>6, <2>7 DEF InCall, Base
  <2> QED
    BY <1>4, <1>6, <2>1, <2>9, <2>10, Zenon DEF Early, InHandler
<1>15. CASE SaveKernelStack("save_kernel", "load_user")
  <2>1. /\ pc = "save_kernel" /\ pc' = "load_user" /\ kernel_stack_save' = rsp
        /\ UNCHANGED <<ring, IFlag, rsp, reg, stack, user_stack_save, caller>>
    BY <1>15 DEF SaveKernelStack, Goto
  <2>2. Types'
    BY <1>1, <2>1, Zenon DEF Types
  <2>3. InCall'
    BY <1>2, <1>4, <2>1 DEF InCall, CallersRegisters, Base
  <2> QED
    BY <1>4, <1>6, <2>1, <2>2, <2>3, Zenon DEF Early, InHandler
<1>16. CASE LoadUserStack("load_user", "sysret")
  <2>1. /\ pc = "load_user" /\ pc' = "sysret" /\ rsp' = user_stack_save
        /\ UNCHANGED <<ring, IFlag, reg, stack, kernel_stack_save, user_stack_save, caller>>
    BY <1>16, Zenon DEF LoadUserStack, Goto, saves
  <2>2. rsp' = caller.rsp /\ caller.rsp \in Pointers
    BY <1>4, <2>1 DEF InCall
  <2>3. Types'
    BY <1>1, <2>1, <2>2, Zenon DEF Types
  <2>4. InCall'
    BY <1>2, <1>4, <2>1, <2>2 DEF InCall, CallersRegisters, Base
  <2> QED
    BY <1>4, <1>6, <2>1, <2>3, <2>4, Zenon DEF Early, InHandler
<1> QED
  BY <1>7, <1>8, <1>9, <1>10, <1>11, <1>12, <1>13, <1>14, <1>15, <1>16 DEF SystemCall

\* An exception of the user program, up to the end of isr_handler.
LEMMA FaultInv ==
  ASSUME MachineInv, UserFault \/ IsrStub
  PROVE  Types' /\ Control' /\ pc \notin Early \cup InHandler \cup {"reset"}
         /\ pc' \notin Early \cup InHandler \cup {"reset"}
<1>1. Types /\ Control
  BY DEF MachineInv
<1>2. CASE UserFault
  <2>1. /\ ring = 3 /\ Enter("isr")
        /\ UNCHANGED <<kernel_stack_save, user_stack_save, tss>>
    BY <1>2 DEF UserFault, saves, setup
  <2>2. IFlag = TRUE /\ Open(pc, ring, rsp, reg)
    BY <1>1, <2>1 DEF Control
  <2>3. pc \in {"os_entry", "user"}
    BY <2>1, <2>2 DEF Open
  <2>4. /\ pc' = "isr" /\ rsp' = At("tss", 1) /\ rsp' \in Pointers /\ ring' = 0 /\ IFlag' = TRUE
        /\ DOMAIN stack' = Stacks /\ reg' = reg
    <3>1. pc' = "isr" /\ rsp' = At("tss", 1) /\ rsp' \in Pointers /\ ring' = 0
          /\ DOMAIN stack' = Stacks /\ reg' = reg
      BY <1>1, <2>1, <2>2, Entered
    <3>2. IFlag' = (IFlag /\ "isr" = "isr")
      BY <2>1, <3>1, Zenon DEF Enter
    <3> QED
      BY <2>2, <3>1, <3>2, Zenon
  <2>5. Types'
    BY <1>1, <2>4, Zenon DEF Types
  <2>6. Open(pc, ring, rsp, reg)'
    BY <2>1, <2>2, <2>3, <2>4, Zenon DEF Open, Base
  <2> QED
    BY <2>3, <2>4, <2>5, <2>6, Zenon DEF Control, Early, InHandler
<1>3. CASE IsrStub
  <2> DEFINE values == <<None, None, reg>>
  <2>1. /\ pc = "isr" /\ pc' = "spin" /\ Push(rsp, values) /\ IFlag' = FALSE
        /\ UNCHANGED <<ring, reg>>
    BY <1>3, Zenon DEF IsrStub, Goto
  <2>2. IFlag = TRUE /\ Open(pc, ring, rsp, reg)
    BY <1>1, <2>1, Zenon DEF Control, Early, InCall, Handling, InHandler
  <2>3. rsp \in Pointers /\ rsp.in \in Stacks /\ ring = 0 /\ reg \in Registers
    BY <2>1, <2>2 DEF Open, At, Stacks
  <2>4. Len(values) = 3 /\ 3 \in Nat /\ DOMAIN stack = Stacks
    BY <1>1 DEF Types
  <2> HIDE DEF values
  <2>5. rsp' \in Pointers /\ DOMAIN stack' = Stacks
    BY <2>1, <2>3, <2>4, PushedMany, Zenon
  <2>6. Types'
    BY <2>1, <2>3, <2>5 DEF Types
  <2> QED
    BY <2>1, <2>3, <2>6, Zenon DEF Control, Early, InHandler
<1> QED
  BY <1>2, <1>3, Zenon

------------------------------------------------------------------------------
(* The invariant *)

\* The invariant holds when kmain calls PIC_remap.
LEMMA InitInv ==
  ASSUME MachineInit
  PROVE  MachineInv
<1>1. Entry \in Nat
  BY MachineAssumption
<1>2. Types
  <2>1. reg \in Registers
    BY Zenon DEF MachineInit, Registers, Regs
  <2>2. rsp \in Pointers
    BY <1>1, Zenon DEF MachineInit, Pointers, At, Stacks
  <2>3. DOMAIN stack = Stacks
    BY DEF MachineInit
  <2> QED
    BY <2>1, <2>2, <2>3, Zenon DEF Types
<1>3. SetUp
  <2>1. pc = "save_masks" /\ writes = 0 /\ pressHandlers = <<>>
    BY Zenon DEF MachineInit
  <2>2. chip = [c \in {1, 2} |-> [icw |-> 0, offset |-> IF c = 1 THEN {3} ELSE {4, 5, 6},
                                  cascade |-> IF c = 1 THEN {2} ELSE {1}]]
    BY Zenon DEF MachineInit
  <2>3. chip \in [{1, 2} -> [icw : {0, 2, 3, 4}, offset : SUBSET (0 .. 7), cascade : SUBSET (0 .. 7)]]
    BY <2>2
  <2>4. Remapped(0)
    BY <2>2 DEF Remapped, Expected
  <2> QED
    BY <2>1, <2>3, <2>4 DEF SetUp
<1>4. Control
  BY DEF MachineInit, Control, Early, Base
<1>5. Traffic
  <2>1. /\ pc = "save_masks" /\ isr = {} /\ port = None /\ al = None /\ typed = <<>> /\ heard = <<>>
    BY DEF MachineInit
  <2>2. <<>> = <<>> \o <<>> \o <<>>
    OBVIOUS
  <2>3. KeysInOrder
    BY <2>1, <2>2 DEF KeysInOrder
  <2>4. ServesItsLine
    BY <2>1 DEF ServesItsLine
  <2> QED
    BY <2>1, <2>3, <2>4 DEF Traffic
<1> QED
  BY <1>2, <1>3, <1>4, <1>5 DEF MachineInv

\* A step that changes nothing.
LEMMA StutterInv ==
  ASSUME MachineInv, UNCHANGED vars
  PROVE  MachineInv'
<1>1. Types /\ SetUp /\ Control /\ Traffic
  BY Zenon DEF MachineInv
<1>2. UNCHANGED <<pc, line, ring, IFlag, rsp, reg, stack, kernel_stack_save, user_stack_save,
                  interrupts, caller, chip, isr, writes, idt, tss, pressHandlers, port, al,
                  typed, heard>>
  BY Zenon DEF vars, cpu, saves, pics, setup, keys
<1>3. Types' /\ SetUp'
  BY <1>1, <1>2, Zenon DEF Types, SetUp, Remapped
<1>4. Traffic'
  BY <1>1, <1>2, Zenon DEF Traffic, ServesItsLine, KeysInOrder
<1>5. Control'
  <2>1. Open(pc, ring, rsp, reg) => Open(pc, ring, rsp, reg)'
    BY <1>2, SMTT(15) DEF Open
  <2>2. InCall => InCall'
    BY <1>2 DEF InCall, CallersRegisters, CallersSaved
  <2>3. Handling => Handling'
    BY <1>2, Zenon DEF Handling, Interrupted, Open, Top
  <2> QED
    BY <1>1, <1>2, <2>1, <2>2, <2>3, Zenon DEF Control
<1> QED
  BY <1>3, <1>4, <1>5 DEF MachineInv

\* Every step keeps the invariant.
LEMMA StepInv ==
  ASSUME MachineInv, [MachineNext]_vars
  PROVE  MachineInv'
<1>1. CASE (\E l \in Devices : Raise(l)) \/ (\E k \in Codes : KeyMoves(k))
  BY <1>1, DeviceInv
<1>2. CASE \E l \in Devices \cup {1} : Accept(l)
  BY <1>2, AcceptInv
<1>3. CASE Handler
  BY <1>3, HandlerInv
<1>4. CASE Boot
  BY <1>4, BootInv
<1>5. CASE JumpUsermode \/ OsEntry \/ UserStep \/ SystemCall \/ UserFault \/ IsrStub
  <2>1. UNCHANGED <<pics, setup, keys, line>>
    BY <1>5, Zenon DEF JumpUsermode, GetFlags, SaveKernelStack, LoadUserStack, SetEntry, Sysret, OsEntry,
                UserStep, SystemCall, Syscall, SaveUserStack, LoadKernelStack, PushRegisters,
                handle_syscall, MapDisable, MapEnable, PopRegisters, UserFault, IsrStub, Rest
  <2>2. Types' /\ Control' /\ pc \notin Early \cup InHandler \cup {"reset"}
        /\ pc' \notin Early \cup InHandler \cup {"reset"}
    BY <1>5, JumpInv, UserInv, CallInv, FaultInv, Zenon
  <2>3. SetUp' /\ Traffic'
    BY <2>1, <2>2, ThreadKeeps DEF MachineInv
  <2> QED
    BY <2>2, <2>3, Zenon DEF MachineInv
<1>6. CASE Spin \/ UNCHANGED vars
  BY <1>6, StutterInv DEF Spin
<1> QED
  BY <1>1, <1>2, <1>3, <1>4, <1>5, <1>6 DEF MachineNext, Thread

\* The invariant holds throughout.
LEMMA Invariance == MachineSpec => []MachineInv
BY InitInv, StepInv, PTL DEF MachineSpec

------------------------------------------------------------------------------
(* Theorems *)

\* The handler that runs is the one of the line in service, and every end of
\* interrupt leaves the chips ready for any other line, whatever devices there
\* are.
THEOREM MachineServesItsLine == MachineSpec => []ServesItsLine
<1>1. MachineInv => ServesItsLine
  BY Zenon DEF MachineInv, Traffic
<1> QED
  BY <1>1, Invariance, PTL

\* Wherever ring 0 can be interrupted its stack is one of the kernel's, but
\* for the first entry to ring 3.
THEOREM MachineInterruptibleStack == MachineSpec => []InterruptibleStack
<1>1. MachineInv => InterruptibleStack
  <2> SUFFICES ASSUME Control, ring = 0, IFlag
               PROVE  rsp.in \in {"kernel", "tss"} \/ (pc \in {"entry", "sysret"} /\ rsp = NULL)
    BY Zenon DEF MachineInv, InterruptibleStack
  <2> QED
    BY FlagOpen DEF Open, Base, At
<1> QED
  BY <1>1, Invariance, PTL

\* Nothing is left on the kernel's stacks when ring 3 runs, and ring 3 can be
\* interrupted.
THEOREM MachineStacksUnwound == MachineSpec => []StacksUnwound
<1>1. MachineInv => StacksUnwound
  BY DEF MachineInv, StacksUnwound, Control, Open, Base
<1> QED
  BY <1>1, Invariance, PTL

\* No scan code is dropped, acted on twice or overtaken by a later one.
THEOREM MachineKeysInOrder == MachineSpec => []KeysInOrder
<1>1. MachineInv => KeysInOrder
  BY DEF MachineInv, Traffic
<1> QED
  BY <1>1, Invariance, PTL

\* The machine resets only in the window of the first entry to ring 3, where
\* the stack pointer is 0 with interrupts on.
THEOREM MachineResets == MachineSpec => ResetOnlyAtFirstEntry
<1> DEFINE Step == pc' = "reset" => pc = "reset" \/ (pc \in {"entry", "sysret"} /\ user_stack_save = NULL)
<1>1. MachineInv /\ [MachineNext]_vars => [Step]_vars
  <2> SUFFICES ASSUME MachineInv, MachineNext, pc' = "reset", pc # "reset"
               PROVE  pc \in {"entry", "sysret"} /\ user_stack_save = NULL
    OBVIOUS
  <2>1. pc' # pc
    BY Zenon
  <2>2. CASE \E l \in Devices \cup {1} : Accept(l)
    <3>1. Types /\ Enter("irq") /\ IFlag = TRUE /\ Open(pc, ring, rsp, reg)
      BY <2>2, Accepted, Zenon DEF MachineInv
    <3> QED
      BY <3>1, Entered
  <2>3. CASE Handler
    <3>1. pc = "iret" /\ pc' = Top(2).pc
      BY <2>3, Zenon DEF Handler, IrqEntry, PIC_send_EOI, IrqBody, IrqReturn, Goto
    <3>2. Handling
      BY <3>1, InHandlerHandling DEF MachineInv, InHandler
    <3> QED
      BY <3>1, <3>2, Zenon DEF Handling, InHandler, Interrupted, Open
  <2>4. CASE JumpUsermode \/ OsEntry \/ UserStep \/ SystemCall \/ UserFault \/ IsrStub
    <3>1. pc' \notin {"reset"}
      BY <2>4, JumpInv, UserInv, CallInv, FaultInv, SMTT(15)
    <3> QED
      BY <3>1, Zenon
  <2>5. CASE Boot
    BY <2>5, Zenon DEF Boot, SaveMasks, Remap, IDT_init, subscribePress, MaskClock, enable_interrupts,
                setup_tss, Goto
  <2>6. CASE (\E l \in Devices : Raise(l)) \/ (\E k \in Codes : KeyMoves(k)) \/ Spin
    BY <2>1, <2>6 DEF Raise, KeyMoves, Spin, cpu, vars
  <2> QED
    BY <2>2, <2>3, <2>4, <2>5, <2>6 DEF MachineNext, Thread
<1> QED
  BY <1>1, Invariance, PTL DEF MachineSpec, ResetOnlyAtFirstEntry

\* A system call returns to its caller with the stack pointer, the registers
\* and the interrupt flag it was called with.
THEOREM MachineSyscallResumes == MachineSpec => SyscallResumes
<1> DEFINE Step == pc = "sysret" /\ pc' = "user"
                     => <<rsp', reg'.gp, IFlag'>> = <<caller.rsp, caller.gp, TRUE>>
<1>1. MachineInv /\ [MachineNext]_vars => [Step]_vars
  <2> SUFFICES ASSUME MachineInv, MachineNext, pc = "sysret", pc' = "user"
               PROVE  rsp' = caller.rsp /\ reg'.gp = caller.gp /\ IFlag' = TRUE
    BY Zenon
  <2>1. CASE Sysret
    <3>1. reg.rcx = "user" /\ rsp' = rsp /\ reg' = reg /\ IFlag' = reg.r11
      BY <2>1, Zenon DEF Sysret
    <3>2. ~Open(pc, ring, rsp, reg)
      BY <3>1, Zenon DEF Open
    <3>3. InCall
      BY <3>2 DEF MachineInv, Control, Early, Handling, InHandler
    <3> QED
      BY <3>1, <3>3 DEF InCall, CallersRegisters
  <2>2. CASE \E l \in Devices \cup {1} : Accept(l)
    <3>1. Types /\ Enter("irq") /\ IFlag = TRUE /\ Open(pc, ring, rsp, reg)
      BY <2>2, Accepted, Zenon DEF MachineInv
    <3>2. pc' \in {"irq", "reset"}
      BY <3>1, Entered, Zenon
    <3> QED
      BY <3>2
  <2>3. CASE UserFault
    <3>1. Open(pc, ring, rsp, reg) => ring = 0
      BY DEF Open
    <3>2. ring = 0
      BY <3>1, SMTT(15) DEF MachineInv, Control
    <3> QED
      BY <2>3, <3>2 DEF UserFault
  <2>4. CASE Boot
    BY <2>4 DEF Boot, SaveMasks, Remap, IDT_init, subscribePress, MaskClock, enable_interrupts,
                setup_tss, Goto
  <2>5. CASE Handler
    BY <2>5, Zenon DEF Handler, IrqEntry, PIC_send_EOI, IrqBody, IrqReturn, Goto
  <2>6. CASE (\E l \in Devices : Raise(l)) \/ (\E k \in Codes : KeyMoves(k)) \/ Spin
    BY <2>6, Zenon DEF Raise, KeyMoves, Spin, cpu, vars
  <2> QED
    BY <2>1, <2>2, <2>3, <2>4, <2>5, <2>6, Zenon
    DEF MachineNext, Thread, JumpUsermode, GetFlags, SaveKernelStack, LoadUserStack, SetEntry,
        OsEntry, UserStep, SystemCall, Syscall, SaveUserStack, LoadKernelStack, PushRegisters,
        handle_syscall, MapDisable, MapEnable, PopRegisters, IsrStub, Goto
<1> QED
  BY <1>1, Invariance, PTL DEF MachineSpec, SyscallResumes

\* After isr_handler has reported an exception nothing runs any more.
THEOREM MachineExceptionIsFinal == MachineSpec => ExceptionIsFinal
<1>1. MachineInv /\ [MachineNext]_vars => [pc = "spin" => pc' = "spin"]_vars
  <2> SUFFICES ASSUME MachineInv, MachineNext, pc = "spin"
               PROVE  pc' = "spin"
    BY SMTT(15)
  <2>1. ring = 0 /\ IFlag = FALSE
    BY DEF MachineInv, Control, Open, InCall, Early, Handling, InHandler
  <2>2. ~Boot /\ ~Handler
    BY Zenon DEF Boot, SaveMasks, Remap, IDT_init, subscribePress, MaskClock, enable_interrupts,
           setup_tss, Goto, Handler, IrqEntry, PIC_send_EOI, IrqBody, IrqReturn
  <2>3. ~JumpUsermode /\ ~OsEntry /\ ~UserStep /\ ~SystemCall /\ ~UserFault /\ ~IsrStub
    BY <2>1 DEF JumpUsermode, GetFlags, SaveKernelStack, LoadUserStack, SetEntry, Sysret, OsEntry,
                UserStep, SystemCall, Syscall, SaveUserStack, LoadKernelStack, PushRegisters,
                handle_syscall, MapDisable, MapEnable, PopRegisters, UserFault, IsrStub, Goto
  <2>4. \A l \in Devices \cup {1} : ~Accept(l)
    BY <2>1, Zenon DEF Accept
  <2>5. CASE (\E l \in Devices : Raise(l)) \/ (\E k \in Codes : KeyMoves(k)) \/ Spin
    BY <2>5 DEF Raise, KeyMoves, Spin, cpu, vars
  <2> QED
    BY <2>2, <2>3, <2>4, <2>5 DEF MachineNext, Thread
<1> QED
  BY <1>1, Invariance, PTL DEF MachineSpec, ExceptionIsFinal
=============================================================================
