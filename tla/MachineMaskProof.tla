-------------------------- MODULE MachineMaskProof ---------------------------
(***************************************************************************)
(* Proofs about the interrupt masks and the depth of the stacks of         *)
(* Machine, on top of the invariant of MachineProof.                       *)
(***************************************************************************)
EXTENDS MachineProof

------------------------------------------------------------------------------
(* The masks, and the depth of the stacks *)

\* The masks through PIC_remap, which has saved them in a, and afterwards.
MaskInv ==
  /\ bios \cup imr \cup irr \cup isr \subseteq 0 .. 15
  /\ line \in 0 .. NoLine
  /\ pc \in Early => heard = <<>>
  /\ pc = "save_masks" => imr = bios
  /\ pc # "save_masks" => a = bios
  /\ pc = "remap" /\ writes = 9 => imr \cap (0 .. 7) = bios \cap (0 .. 7)
  /\ pc \in {"idt", "subscribe", "mask"} => imr = bios
  /\ pc \notin {"save_masks", "remap", "idt", "subscribe", "mask"} =>
       imr = IF ClockOn THEN bios \ {0} ELSE bios \cup {0}

\* A stack pointer points at what was pushed.
Reaches(sp) == sp.in \in Stacks => sp.depth <= Len(stack[sp.in])

\* The frame of the interrupted thread is the n-th value from the top; the
\* stack pointer in it still points at something when the frame is popped.
FrameReaches(n) ==
  /\ Reaches(Top(n).rsp)
  /\ Top(n).ring = 0 => Top(n).rsp = At(rsp.in, rsp.depth - n)
  /\ Top(n).ring = 3 => rsp = At("tss", n)

\* Every stack pointer that is in use or will be used again points at what was
\* pushed: that of the processor, of kmain, of the caller of a system call and
\* of the thread that a handler has interrupted.
StackInv ==
  /\ \A s \in Stacks : Len(stack[s]) \in Nat
  /\ Entry <= Len(stack["kernel"])
  /\ Reaches(rsp)
  /\ pc \in {"syscall", "switch", "push", "call", "map", "mapped", "pop", "save_kernel", "load_user"}
       => Reaches(caller.rsp)
  /\ pc = "irq" => FrameReaches(1)
  /\ pc \in InHandler \ {"irq"} => FrameReaches(2)

\* The byte that PIC_remap writes back is the mask that it has saved.
LEMMA MaskByte ==
  ASSUME NEW ls \in SUBSET (0 .. 15), NEW c \in {1, 2}
  PROVE  {l \in LinesOf(c) : l % 8 \in BitsOf(c, ls)} = ls \cap LinesOf(c)
<1>1. \A l, k \in LinesOf(c) : l % 8 = k % 8 => l = k
  BY DEF LinesOf
<1> QED
  BY <1>1, Zenon DEF BitsOf

\* What the bytes of PIC_remap do to the masks and the requests.
LEMMA OutbMasks ==
  ASSUME NEW c \in {1, 2}, NEW kind, NEW byte, Outb(c, kind, byte),
         imr \cup irr \cup isr \subseteq 0 .. 15
  PROVE  /\ imr' \cup irr' \cup isr' \subseteq 0 .. 15
         /\ kind = "data" /\ chip[c].icw = 0 =>
              imr' = (imr \ LinesOf(c)) \cup {l \in LinesOf(c) : l % 8 \in byte}
<1>1. LinesOf(c) \subseteq 0 .. 15
  BY DEF LinesOf
<1>2. CASE kind = "command" /\ 4 \in byte
  BY <1>2 DEF Outb
<1>3. CASE ~(kind = "command" /\ 4 \in byte) /\ kind = "data" /\ chip[c].icw # 0
  BY <1>3 DEF Outb
<1>4. CASE ~(kind = "command" /\ 4 \in byte) /\ ~(kind = "data" /\ chip[c].icw # 0)
  BY <1>1, <1>4 DEF Outb
<1> QED
  BY <1>2, <1>3, <1>4

\* Boot keeps the masks of the firmware: PIC_remap restores what it saved.
LEMMA MaskBoot ==
  ASSUME MachineInv, MaskInv, Boot
  PROVE  MaskInv'
<1>1. SetUp /\ pc \in Early \cup {"tss"}
  BY DEF MachineInv, Boot, SaveMasks, Remap, IDT_init, subscribePress, MaskClock,
         enable_interrupts, setup_tss, Goto, Early
<1>2. UNCHANGED <<heard, line, bios>> /\ ClockOn' = ClockOn
  <2>1. UNCHANGED <<heard, line, bios>>
    BY DEF Boot, SaveMasks, Remap, IDT_init, subscribePress, MaskClock, enable_interrupts,
           setup_tss, Quiet, keys, setup
  <2> QED
    BY <2>1, Zenon DEF ClockOn
<1>3. pc \in Early => heard = <<>> /\ ~ClockOn
  BY DEF MaskInv, ClockOn
<1>4. CASE SaveMasks
  BY <1>2, <1>3, <1>4, Zenon DEF SaveMasks, Goto, pics, MaskInv, Early
<1>5. CASE Remap
  <2>1. /\ pc = "remap" /\ writes \in 0 .. 9 /\ writes' = writes + 1 /\ a' = a
        /\ pc' = (IF writes' = 10 THEN "idt" ELSE "remap")
        /\ Outb(RemapWrites[writes + 1][1], RemapWrites[writes + 1][2], RemapWrites[writes + 1][3])
    BY <1>1, <1>5, RemapBytes DEF Remap, SetUp
  <2>2. bios \in SUBSET (0 .. 15) /\ imr \cup irr \cup isr \subseteq 0 .. 15 /\ a = bios /\ heard = <<>>
    BY <2>1, Zenon DEF MaskInv, Early
  <2>3. RemapWrites[writes + 1][1] \in {1, 2}
    BY <2>1, RemapBytes
  <2>4. imr' \cup irr' \cup isr' \subseteq 0 .. 15
    BY <2>1, <2>2, <2>3, OutbMasks, Zenon
  <2>5. CASE writes < 8
    BY <1>2, <2>1, <2>2, <2>4, <2>5 DEF MaskInv, Early
  <2>6. CASE writes = 8
    <3>1. Outb(1, "data", BitsOf(1, a)) /\ chip[1].icw = 0
      BY <1>1, <2>1, <2>6, RemapBytes DEF SetUp, Remapped, Expected
    <3>2. imr' = (imr \ LinesOf(1)) \cup (bios \cap LinesOf(1))
      BY <2>2, <3>1, OutbMasks, MaskByte
    <3>3. imr' \cap (0 .. 7) = bios \cap (0 .. 7)
      BY <3>2 DEF LinesOf
    <3> QED
      BY <1>2, <2>1, <2>2, <2>4, <2>6, <3>3 DEF MaskInv, Early
  <2>7. CASE writes = 9
    <3>1. Outb(2, "data", BitsOf(2, a)) /\ chip[2].icw = 0
      BY <1>1, <2>1, <2>7, RemapBytes DEF SetUp, Remapped, Expected
    <3>2. imr' = (imr \ LinesOf(2)) \cup (bios \cap LinesOf(2))
      BY <2>2, <3>1, OutbMasks, MaskByte
    <3>3. imr \cap (0 .. 7) = bios \cap (0 .. 7)
      BY <2>1, <2>7 DEF MaskInv
    <3>4. imr' = bios
      <4>1. LinesOf(2) = 8 .. 15 /\ 0 .. 15 = (0 .. 7) \cup (8 .. 15)
        BY DEF LinesOf
      <4>2. imr \ LinesOf(2) = imr \cap (0 .. 7)
        BY <2>2, <4>1
      <4> QED
        BY <2>2, <3>2, <3>3, <4>1, <4>2, Zenon
    <3> QED
      BY <1>2, <2>1, <2>2, <2>4, <2>7, <3>4, Zenon DEF MaskInv, Early
  <2> QED
    BY <2>1, <2>5, <2>6, <2>7
<1>6. CASE IDT_init \/ subscribePress
  BY <1>2, <1>3, <1>6, Zenon DEF IDT_init, subscribePress, Goto, pics, MaskInv, Early
<1>7. CASE MaskClock
  BY <1>2, <1>3, <1>7 DEF MaskClock, Goto, setup, MaskInv, Early
<1>8. CASE enable_interrupts \/ setup_tss
  BY <1>2, <1>8, Zenon DEF enable_interrupts, setup_tss, Goto, pics, setup, MaskInv, Early
<1> QED
  BY <1>4, <1>5, <1>6, <1>7, <1>8 DEF Boot

\* Which key switches the clock.
LEMMA ClockSwitched ==
  ASSUME heard \in Seq(Codes), NEW k \in Codes, heard' = Append(heard, k)
  PROVE  ClockOn' <=> IF k = "1" THEN TRUE ELSE IF k = "2" THEN FALSE ELSE ClockOn
<1>1. /\ Len(heard') = Len(heard) + 1 /\ Len(heard) \in Nat
      /\ DOMAIN heard = 1 .. Len(heard) /\ DOMAIN heard' = 1 .. Len(heard) + 1
      /\ heard'[Len(heard) + 1] = k
      /\ \A i \in 1 .. Len(heard) : heard'[i] = heard[i]
  OBVIOUS
<1>2. CASE k = "1"
  <2>1. \A j \in DOMAIN heard' : ~(j > Len(heard) + 1)
    BY <1>1
  <2>2. Len(heard) + 1 \in DOMAIN heard' /\ heard'[Len(heard) + 1] = "1"
    BY <1>1, <1>2
  <2> QED
    BY <1>2, <2>1, <2>2 DEF ClockOn
<1>3. CASE k = "2"
  <2>1. ASSUME NEW i \in DOMAIN heard', heard'[i] = "1"
        PROVE  Len(heard) + 1 > i /\ Len(heard) + 1 \in DOMAIN heard' /\ heard'[Len(heard) + 1] = "2"
    BY <1>1, <1>3, <2>1
  <2> QED
    BY <1>3, <2>1 DEF ClockOn
<1>4. CASE k \notin {"1", "2"}
  <2>1. ASSUME ClockOn PROVE ClockOn'
    <3>1. PICK i \in DOMAIN heard : heard[i] = "1" /\ \A j \in DOMAIN heard : j > i => heard[j] # "2"
      BY <2>1 DEF ClockOn
    <3>2. i \in DOMAIN heard' /\ heard'[i] = "1" /\ \A j \in DOMAIN heard' : j > i => heard'[j] # "2"
      BY <1>1, <1>4, <3>1
    <3> QED
      BY <3>2 DEF ClockOn
  <2>2. ASSUME ClockOn' PROVE ClockOn
    <3>1. PICK i \in DOMAIN heard' : heard'[i] = "1" /\ \A j \in DOMAIN heard' : j > i => heard'[j] # "2"
      BY <2>2 DEF ClockOn
    <3>2. i \in DOMAIN heard /\ heard[i] = "1" /\ \A j \in DOMAIN heard : j > i => heard[j] # "2"
      BY <1>1, <1>4, <3>1
    <3> QED
      BY <3>2 DEF ClockOn
  <2> QED
    BY <1>4, <2>1, <2>2
<1> QED
  BY <1>2, <1>3, <1>4

\* A step that changes neither masks nor keys, after boot or without moving the
\* thread.
LEMMA MaskKept ==
  ASSUME MaskInv, UNCHANGED <<imr, heard, bios, a, writes>>,
         pc' = pc \/ (pc \notin Early /\ pc' \notin Early),
         irr' \cup isr' \subseteq 0 .. 15, line' \in 0 .. NoLine
  PROVE  MaskInv'
<1>1. ClockOn' = ClockOn
  BY DEF ClockOn
<1> QED
  BY <1>1, Zenon DEF MaskInv, Early

\* Every step keeps the masks.
LEMMA MaskStep ==
  ASSUME MachineInv, MaskInv, [MachineNext]_vars
  PROVE  MaskInv'
<1>1. /\ imr \cup irr \cup isr \subseteq 0 .. 15 /\ line \in 0 .. NoLine
      /\ Types /\ SetUp /\ Control /\ Traffic
  BY Zenon DEF MaskInv, MachineInv
<1>2. CASE \E l \in Devices : Raise(l)
  BY <1>1, <1>2, MaskKept, MachineAssumption DEF Raise, cpu, setup, keys
<1>3. CASE \E k \in Codes : KeyMoves(k)
  BY <1>1, <1>3, MaskKept DEF KeyMoves, cpu, setup
<1>4. CASE \E l \in Devices \cup {1} : Accept(l)
  <2>1. PICK l \in Devices \cup {1} : Accept(l)
    BY <1>4
  <2>2. /\ Enter("irq") /\ IFlag = TRUE /\ Open(pc, ring, rsp, reg) /\ pc \notin Early \cup InHandler
        /\ line' = l /\ l \in (0 .. 15) \ {2}
    BY <2>1, Accepted, Zenon
  <2>3. pc' \notin Early
    BY <2>2 DEF Enter, Early
  <2>4. UNCHANGED <<imr, heard, bios, a, writes>> /\ irr' \cup isr' \subseteq 0 .. 15
    BY <1>1, <2>1, <2>2 DEF Accept, setup, keys, MasterLine
  <2> QED
    BY <2>2, <2>3, <2>4, MaskKept DEF NoLine
<1>5. CASE IrqEntry \/ PIC_send_EOI \/ IrqReturn
  <2>1. UNCHANGED <<imr, heard, bios, a, writes, irr>> /\ line' \in 0 .. NoLine /\ pc \in InHandler
    BY <1>1, <1>5 DEF IrqEntry, PIC_send_EOI, IrqReturn, Goto, pics, setup, keys, InHandler, NoLine
  <2>2. isr' \subseteq 0 .. 15
    <3>1. \A c, s : Retired(c, s) \subseteq s
      BY DEF Retired
    <3> QED
      BY <1>1, <1>5, <3>1 DEF IrqEntry, PIC_send_EOI, IrqReturn, pics
  <2>3. pc' \notin Early
    <3>1. CASE IrqReturn
      <4>1. pc = "iret" /\ pc' = Top(2).pc
        BY <3>1 DEF IrqReturn
      <4>2. Open(Top(2).pc, Top(2).ring, Top(2).rsp, Top(1))
        BY <1>1, <2>1, <4>1, InHandlerHandling DEF Handling, InHandler, Interrupted
      <4> QED
        BY <4>1, <4>2 DEF Open, Early
    <3>2. CASE IrqEntry \/ PIC_send_EOI
      BY <3>2 DEF IrqEntry, PIC_send_EOI, Goto, Early
    <3> QED
      BY <1>5, <3>1, <3>2
  <2> QED
    BY <1>1, <2>1, <2>2, <2>3, MaskKept, Zenon DEF InHandler, Early
<1>6. CASE IrqBody
  <2> DEFINE pressed == al \notin {None, "up"} /\ pressHandlers # <<>>
  <2>1. /\ pc = "body" /\ pc' = "iret" /\ UNCHANGED <<irr, isr, line, bios, a, writes>>
        /\ imr' = IF pressed THEN printKey(al) ELSE imr
        /\ heard' = IF pressed \/ al = "up" THEN Append(heard, al) ELSE heard
    BY <1>6 DEF IrqBody, Goto, setup
  <2>2. /\ pressHandlers # <<>> /\ heard \in Seq(Codes) /\ al \in Codes \cup {None}
        /\ imr = IF ClockOn THEN bios \ {0} ELSE bios \cup {0}
        /\ bios \subseteq 0 .. 15 /\ a = bios
    BY <1>1, <2>1, Zenon DEF SetUp, Traffic, MaskInv
  <2>3. imr' = IF ClockOn' THEN bios \ {0} ELSE bios \cup {0}
    <3>1. CASE al = None
      <4>1. imr' = imr /\ heard' = heard
        BY <2>1, <3>1 DEF None
      <4> QED
        BY <2>2, <4>1 DEF ClockOn
    <3>2. CASE al \in Codes
      <4>1. heard' = Append(heard, al)
        BY <2>1, <2>2, <3>2 DEF Codes, None
      <4>2. ClockOn' <=> IF al = "1" THEN TRUE ELSE IF al = "2" THEN FALSE ELSE ClockOn
        BY <2>2, <3>2, <4>1, ClockSwitched
      <4>3. imr' = IF al = "1" THEN imr \ {0} ELSE IF al = "2" THEN imr \cup {0} ELSE imr
        BY <2>1, <2>2, <3>2 DEF printKey, Codes, None
      <4> QED
        BY <2>2, <4>2, <4>3, Zenon
    <3> QED
      BY <2>2, <3>1, <3>2
  <2>4. imr' \subseteq 0 .. 15
    BY <2>2, <2>3
  <2> QED
    BY <1>1, <2>1, <2>2, <2>3, <2>4, Zenon DEF MaskInv, Early
<1>7. CASE Boot
  BY <1>7, MaskBoot
<1>8. CASE JumpUsermode \/ OsEntry \/ UserStep \/ SystemCall \/ UserFault \/ IsrStub
  <2>1. UNCHANGED <<pics, setup, keys, line>>
    BY <1>8 DEF JumpUsermode, GetFlags, SaveKernelStack, LoadUserStack, SetEntry, Sysret, OsEntry,
                UserStep, SystemCall, Syscall, SaveUserStack, LoadKernelStack, PushRegisters,
                handle_syscall, MapDisable, MapEnable, PopRegisters, UserFault, IsrStub, Rest
  <2>2. pc \notin Early /\ pc' \notin Early
    BY <1>8, JumpInv, UserInv, CallInv, FaultInv, Zenon
  <2> QED
    BY <1>1, <2>1, <2>2, MaskKept, Zenon DEF pics, setup, keys
<1>9. CASE Spin \/ UNCHANGED vars
  BY <1>1, <1>9, MaskKept DEF Spin, vars, cpu, pics, setup, keys
<1> QED
  BY <1>2, <1>3, <1>4, <1>5, <1>6, <1>7, <1>8, <1>9 DEF MachineNext, Thread, Handler

\* What a push leaves of the depth of the stacks.
LEMMA PushLength ==
  ASSUME NEW sp \in Pointers, sp.in \in Stacks, DOMAIN stack = Stacks,
         NEW values, NEW n \in Nat, Len(values) = n, Push(sp, values)
  PROVE  /\ rsp' = At(sp.in, sp.depth + n)
         /\ Len(stack'[sp.in]) = sp.depth + n
         /\ \A s \in Stacks \ {sp.in} : stack'[s] = stack[s]
<1>1. sp = [in |-> sp.in, depth |-> sp.depth] /\ sp.depth \in Nat
  BY DEF Pointers
<1>2. rsp' = At(sp.in, sp.depth + n)
  BY <1>1 DEF Push, At
<1>3. stack'[sp.in] = [i \in 1 .. sp.depth + n |-> IF i <= sp.depth THEN stack[sp.in][i]
                                                   ELSE values[i - sp.depth]]
  BY Zenon DEF Push
<1>4. Len(stack'[sp.in]) = sp.depth + n
  BY <1>1, <1>3
<1>5. \A s \in Stacks \ {sp.in} : stack'[s] = stack[s]
  BY DEF Push
<1> QED
  BY <1>2, <1>4, <1>5

\* What a pop leaves.
LEMMA PopLength ==
  ASSUME rsp \in Pointers, rsp.in \in Stacks, DOMAIN stack = Stacks,
         NEW n \in Nat, n <= rsp.depth, stack' = Popped(n)
  PROVE  /\ Len(stack'[rsp.in]) = rsp.depth - n
         /\ \A s \in Stacks \ {rsp.in} : stack'[s] = stack[s]
<1>1. rsp.depth \in Nat /\ rsp.depth - n \in Nat
  BY DEF Pointers
<1>2. stack'[rsp.in] = [i \in 1 .. rsp.depth - n |-> stack[rsp.in][i]]
  BY Zenon DEF Popped
<1>3. Len(stack'[rsp.in]) = rsp.depth - n
  BY <1>1, <1>2
<1> QED
  BY <1>3, Zenon DEF Popped

\* A step that changes no stack and sets no stack pointer but to that of kmain,
\* or to one that no stack belongs to.
LEMMA StackKept ==
  ASSUME StackInv, MachineInv, UNCHANGED <<stack, caller>>,
         Reaches(rsp'),
         pc' \notin InHandler \/ UNCHANGED <<pc, rsp>>,
         pc' \in {"syscall", "switch", "push", "call", "map", "mapped", "pop", "save_kernel", "load_user"}
           => Reaches(caller.rsp)
  PROVE  StackInv'
<1>1. Reaches(rsp)'
  BY DEF Reaches
<1>2. pc' \in {"syscall", "switch", "push", "call", "map", "mapped", "pop", "save_kernel", "load_user"}
        => Reaches(caller.rsp)'
  BY DEF Reaches
<1>3. /\ pc' = "irq" => FrameReaches(1)'
      /\ pc' \in InHandler \ {"irq"} => FrameReaches(2)'
  <2>1. ASSUME pc' \in InHandler PROVE pc' = pc /\ \A n : FrameReaches(n)' = FrameReaches(n)
    BY <2>1 DEF FrameReaches, Reaches, Top
  <2> QED
    BY <2>1, Zenon DEF StackInv, InHandler
<1> QED
  BY <1>1, <1>2, <1>3 DEF StackInv

\* A handler starts: the frame holds the stack pointer of the thread.
LEMMA StackEntered ==
  ASSUME StackInv, MachineInv, IFlag = TRUE, Open(pc, ring, rsp, reg),
         NEW handler \in {"irq", "isr"}, Enter(handler), UNCHANGED caller
  PROVE  StackInv'
<1> DEFINE sp == IF ring = 3 THEN (IF tss THEN At("tss", 0) ELSE NULL) ELSE rsp
           frame == [pc |-> pc, ring |-> ring, IFlag |-> IFlag, rsp |-> rsp]
<1>1. DOMAIN stack = Stacks /\ Entry \in Nat /\ rsp \in Pointers
  BY MachineAssumption DEF MachineInv, Types
<1>2. \/ sp # NULL /\ Push(sp, <<frame>>) /\ pc' = handler
      \/ sp = NULL /\ pc' = "reset" /\ UNCHANGED <<rsp, stack>>
  BY DEF Enter
<1>3. /\ sp # NULL => /\ sp \in Pointers /\ sp.in \in Stacks
                      /\ \/ ring = 3 /\ sp = At("tss", 0)
                         \/ ring = 0 /\ sp = rsp /\ rsp \in {Base, At("tss", 1)}
  BY <1>1 DEF Open, Pointers, At, NULL, Base, None, Stacks
<1>4. CASE sp = NULL /\ pc' = "reset" /\ UNCHANGED <<rsp, stack>>
  BY <1>4, StackKept DEF StackInv, InHandler
<1>5. CASE sp # NULL /\ Push(sp, <<frame>>) /\ pc' = handler
  <2>2. Top(1)' = frame
    BY <1>1, <1>5, Entered, Zenon DEF MachineInv
  <2>3. Top(1)'.ring = ring /\ Top(1)'.rsp = rsp
    BY <2>2
  <2>8. Len(<<frame>>) = 1 /\ sp \in Pointers /\ sp.in \in Stacks
    BY <1>3, <1>5
  <2> HIDE DEF sp, frame
  <2>1. /\ rsp' = At(sp.in, sp.depth + 1)
        /\ Len(stack'[sp.in]) = sp.depth + 1
        /\ \A s \in Stacks \ {sp.in} : stack'[s] = stack[s]
    <3>1. PICK values : values = <<frame>>
      BY Zenon
    <3>2. Len(values) = 1 /\ 1 \in Nat /\ Push(sp, values) /\ DOMAIN stack = Stacks
      BY <1>1, <1>5, <2>8, <3>1, Zenon
    <3> QED BY <2>8, <3>2, PushLength, Zenon
  <2>4. /\ sp.depth \in Nat /\ rsp'.in = sp.in /\ rsp'.depth = sp.depth + 1
        /\ \A s \in Stacks : Len(stack[s]) \in Nat
    BY <1>3, <1>5, <2>1, Zenon DEF Pointers, At, StackInv
  <2>5. /\ \A s \in Stacks : Len(stack'[s]) \in Nat
        /\ Reaches(rsp)'
    BY <2>1, <2>4, <1>3, <1>5 DEF Reaches
  <2>6. Entry <= Len(stack'["kernel"])
    <3>1. CASE sp.in = "kernel"
      BY <1>1, <1>3, <1>5, <2>1, <3>1 DEF Base, At
    <3>2. CASE sp.in # "kernel"
      BY <2>1, <3>2, Zenon DEF StackInv, Stacks
    <3> QED BY <3>1, <3>2, Zenon
  <2>7. handler = "irq" => FrameReaches(1)'
    <3>1. Reaches(Top(1).rsp)'
      <4>1. CASE ring = 3
        <5>1. sp = At("tss", 0) /\ rsp.in # "tss"
          BY <1>3, <1>5, <4>1 DEF Open, NULL, At, None
        <5>2. sp.in = "tss"
          BY <5>1, Zenon DEF At
        <5> QED
          BY <2>1, <2>3, <5>1, <5>2, Zenon DEF StackInv, Reaches
      <4>2. CASE ring = 0
        BY <1>3, <1>5, <2>1, <2>3, <2>4, <4>2 DEF Reaches
      <4> QED BY <4>1, <4>2, <1>3, <1>5, Zenon
    <3>2. ring = 0 => rsp = At(rsp'.in, rsp'.depth - 1)
      <4>1. ring = 0 => sp = rsp /\ rsp = [in |-> rsp.in, depth |-> rsp.depth]
        BY <1>1, <1>3, <1>5 DEF Pointers
      <4>2. rsp'.depth - 1 = sp.depth
        BY <2>4
      <4> QED BY <2>4, <4>1, <4>2 DEF At
    <3>3. ring = 3 => rsp' = At("tss", 1)
      BY <1>3, <1>5, <2>1 DEF At
    <3> QED BY <2>3, <3>1, <3>2, <3>3 DEF FrameReaches
  <2> QED BY <1>5, <2>5, <2>6, <2>7 DEF StackInv, InHandler
<1> QED BY <1>2, <1>4, <1>5

\* The handlers of the lines return to the stack pointer they found.
LEMMA StackHandler ==
  ASSUME StackInv, MachineInv, Handler
  PROVE  StackInv'
<1>1. Types /\ Control /\ Entry \in Nat
  BY MachineAssumption, Zenon DEF MachineInv
<1>2. pc \in InHandler /\ UNCHANGED caller
  BY DEF Handler, IrqEntry, PIC_send_EOI, IrqBody, IrqReturn, Goto, saves, InHandler
<1>3. ring = 0 /\ IFlag = FALSE /\ Handling
  BY <1>1, <1>2, InHandlerHandling, Zenon
<1>4. /\ rsp \in Pointers /\ rsp.in \in Stacks /\ rsp.depth \in Nat /\ DOMAIN stack = Stacks
      /\ \A s \in Stacks : Len(stack[s]) \in Nat
      /\ Entry <= Len(stack["kernel"]) /\ "kernel" \in Stacks
  BY <1>1, <1>3 DEF Types, Pointers, Handling, Stacks, StackInv
<1>5. CASE IrqEntry
  <2>1. pc = "irq" /\ pc' = "eoi" /\ Push(rsp, <<reg>>)
    BY <1>5, Zenon DEF IrqEntry, Goto
  <2>2. rsp.depth >= 1 /\ FrameReaches(1) /\ Interrupted(Top(1), reg)
    BY <1>3, <2>1, Zenon DEF Handling, InHandler, StackInv
  <2>3. /\ rsp' = At(rsp.in, rsp.depth + 1)
        /\ \A i \in 1 .. rsp.depth : stack'[rsp.in][i] = stack[rsp.in][i]
    BY <1>4, <2>1, Pushed
  <2>4. /\ Len(stack'[rsp.in]) = rsp.depth + 1
        /\ \A s \in Stacks \ {rsp.in} : stack'[s] = stack[s]
    <3>1. PICK values : values = <<reg>>
      BY Zenon
    <3>2. Len(values) = 1 /\ 1 \in Nat /\ Push(rsp, values)
      BY <2>1, <3>1, Zenon
    <3> QED BY <1>4, <3>2, PushLength, Zenon
  <2>5. rsp'.in = rsp.in /\ rsp'.depth = rsp.depth + 1
    BY <2>3, Zenon DEF At
  <2>6. Top(2)' = Top(1)
    <3>1. rsp'.depth - 2 + 1 = rsp.depth /\ rsp.depth - 1 + 1 = rsp.depth /\ rsp.depth \in 1 .. rsp.depth
      BY <1>4, <2>2, <2>5
    <3> QED BY <2>3, <2>5, <3>1 DEF Top
  <2>7. PICK frame : frame = Top(1)
    BY Zenon
  <2>8. /\ Reaches(frame.rsp) /\ (frame.ring = 0 => frame.rsp = At(rsp.in, rsp.depth - 1))
        /\ frame.ring = 3 => rsp = At("tss", 1)
        /\ frame.ring \in {0, 3} /\ frame.rsp \in Pointers
        /\ (frame.ring = 3 => frame.rsp.in # "tss")
        /\ (frame.ring = 0 => frame.rsp \in {Base, NULL, At("tss", 1)})
    <3>1. /\ Reaches(frame.rsp) /\ (frame.ring = 0 => frame.rsp = At(rsp.in, rsp.depth - 1))
          /\ frame.ring = 3 => rsp = At("tss", 1)
      BY <2>2, <2>7 DEF FrameReaches
    <3>2. Open(frame.pc, frame.ring, frame.rsp, reg)
      BY <2>2, <2>7, Zenon DEF Interrupted
    <3>3. /\ frame.ring \in {0, 3} /\ frame.rsp \in Pointers
          /\ (frame.ring = 3 => frame.rsp.in # "tss")
          /\ (frame.ring = 0 => frame.rsp \in {Base, NULL, At("tss", 1)})
      BY <3>2 DEF Open, NULL, At, None
    <3> QED BY <3>1, <3>3, Zenon
  <2>9. Reaches(frame.rsp)'
    <3>1. frame' = frame
      OBVIOUS
    <3> QED BY <2>2, <2>7, <2>8, <2>4, <1>4 DEF Reaches, At, FrameReaches
  <2>10. FrameReaches(2)'
    <3>1. rsp'.depth - 2 = rsp.depth - 1
      BY <1>4, <2>5
    <3>2. frame.ring = 0 => frame.rsp = At(rsp'.in, rsp'.depth - 2)
      BY <2>5, <2>8, <3>1, Zenon
    <3>3. frame.ring = 3 => rsp' = At("tss", 2)
      BY <2>3, <2>8 DEF At
    <3> QED BY <2>6, <2>7, <2>9, <3>2, <3>3 DEF FrameReaches
  <2>11. /\ \A s \in Stacks : Len(stack'[s]) \in Nat
         /\ Reaches(rsp)'
    BY <1>4, <2>4, <2>5 DEF Reaches
  <2>12. Entry <= Len(stack'["kernel"])
    <3>1. CASE rsp.in = "kernel"
      <4>1. frame.rsp = At("kernel", rsp.depth - 1) /\ frame.rsp = Base
        BY <2>8, <3>1 DEF At, NULL, None
      <4>2. rsp.depth - 1 = Entry
        BY <4>1 DEF Base, At
      <4> QED BY <1>1, <1>4, <2>4, <3>1, <4>2
    <3>2. CASE rsp.in # "kernel"
      BY <1>4, <2>4, <3>2, Zenon
    <3> QED BY <3>1, <3>2, Zenon
  <2> QED BY <2>1, <2>10, <2>11, <2>12 DEF StackInv, InHandler
<1>6. CASE PIC_send_EOI \/ IrqBody
  <2>1. /\ pc \in {"eoi", "body"} /\ pc' \in {"body", "iret"} /\ UNCHANGED <<rsp, stack>>
    BY <1>6 DEF PIC_send_EOI, IrqBody, Goto
  <2>2. FrameReaches(2)'
    BY <2>1, Zenon DEF FrameReaches, Reaches, Top, StackInv, InHandler
  <2> QED BY <2>1, <2>2, Zenon DEF StackInv, InHandler, Reaches
<1>7. CASE IrqReturn
  <2>1. pc = "iret" /\ pc' = Top(2).pc /\ rsp' = Top(2).rsp /\ stack' = Popped(2)
    BY <1>7 DEF IrqReturn
  <2>2. PICK frame : frame = Top(2)
    BY Zenon
  <2>3. rsp.depth >= 2 /\ FrameReaches(2) /\ \E g : Open(frame.pc, frame.ring, frame.rsp, g)
    BY <1>3, <2>1, <2>2, Zenon DEF Handling, InHandler, StackInv, Interrupted
  <2>4. /\ Reaches(frame.rsp) /\ (frame.ring = 0 => frame.rsp = At(rsp.in, rsp.depth - 2))
        /\ frame.ring = 3 => rsp = At("tss", 2)
    BY <2>2, <2>3, Zenon DEF FrameReaches
  <2>5. /\ Len(stack'[rsp.in]) = rsp.depth - 2
        /\ \A s \in Stacks \ {rsp.in} : stack'[s] = stack[s]
    BY <1>4, <2>1, <2>3, PopLength, Zenon
  <2>6. /\ frame.ring = 0 => frame.rsp \in {Base, NULL, At("tss", 1)}
        /\ frame.ring = 3 => frame.rsp.in \in {None, "user"}
        /\ frame.ring \in {0, 3}
        /\ frame.pc \notin InHandler
        /\ frame.pc \notin {"syscall", "switch", "push", "call", "map", "mapped", "pop",
                            "save_kernel", "load_user"}
    BY <2>3 DEF Open, NULL, At, InHandler
  <2>7. CASE frame.ring = 0
    <3>1. rsp'.in = rsp.in /\ rsp'.depth = rsp.depth - 2 /\ rsp' \in {Base, NULL, At("tss", 1)}
      BY <2>1, <2>2, <2>4, <2>6, <2>7 DEF At
    <3>2. Reaches(rsp)'
      BY <1>4, <2>5, <3>1 DEF Reaches
    <3>3. Entry <= Len(stack'["kernel"])
      <4>1. CASE rsp.in = "kernel"
        <5>1. rsp' = Base
          BY <3>1, <4>1 DEF NULL, At, None
        <5> QED BY <1>1, <3>1, <4>1, <5>1, <2>5 DEF Base, At
      <4>2. CASE rsp.in # "kernel"
        BY <1>4, <2>5, <4>2, Zenon
      <4> QED BY <4>1, <4>2
    <3>4. \A s \in Stacks : Len(stack'[s]) \in Nat
      BY <1>4, <2>3, <2>5
    <3> QED BY <2>1, <2>2, <2>6, <3>2, <3>3, <3>4, Zenon DEF StackInv, InHandler
  <2>8. CASE frame.ring = 3
    <3>1. rsp.in = "tss" /\ rsp'.in \in {None, "user"} /\ rsp' = frame.rsp
      BY <2>1, <2>2, <2>4, <2>6, <2>8 DEF At
    <3>2. Reaches(rsp)'
      BY <2>4, <2>5, <3>1, Zenon DEF Reaches, None, Stacks
    <3>3. Entry <= Len(stack'["kernel"])
      BY <1>4, <2>5, <3>1
    <3>4. \A s \in Stacks : Len(stack'[s]) \in Nat
      BY <1>4, <2>3, <2>5
    <3> QED BY <2>1, <2>2, <2>6, <3>2, <3>3, <3>4 DEF StackInv, InHandler
  <2> QED BY <2>6, <2>7, <2>8
<1> QED BY <1>5, <1>6, <1>7 DEF Handler

\* The thread on its way into ring 3 and in it.
LEMMA StackUser ==
  ASSUME StackInv, MachineInv, JumpUsermode \/ OsEntry \/ UserStep
  PROVE  StackInv'
<1>1. Types /\ Control /\ Entry \in Nat /\ UserDepth \in Nat
  BY MachineAssumption DEF MachineInv
<1>2. UNCHANGED caller
  BY DEF JumpUsermode, GetFlags, SaveKernelStack, LoadUserStack, SetEntry, Sysret, OsEntry,
         UserStep, saves
<1>3. pc' \notin InHandler
  BY JumpInv, UserInv
<1>4. pc' \in {"save", "load", "entry", "sysret", "user", "os_entry"}
  <2>1. CASE Sysret
    <3>1. pc = "sysret" /\ pc' = reg.rcx
      BY <2>1 DEF Sysret
    <3>2. \/ Open(pc, ring, rsp, reg)
          \/ InCall
      BY <1>1, <3>1, Zenon DEF Control, Early, Handling, InHandler
    <3> QED BY <3>1, <3>2 DEF Open, InCall, CallersRegisters
  <2> QED BY <2>1, Zenon DEF JumpUsermode, GetFlags, SaveKernelStack, LoadUserStack, SetEntry, OsEntry,
                      UserStep, Goto
<1>5. CASE GetFlags \/ SaveKernelStack("save", "load") \/ SetEntry \/ Sysret
  <2>1. UNCHANGED <<rsp, stack>>
    BY <1>5 DEF GetFlags, SaveKernelStack, SetEntry, Sysret
  <2> QED BY <1>2, <1>3, <1>4, <2>1, StackKept DEF StackInv
<1>6. CASE LoadUserStack("load", "entry")
  <2>1. pc = "load" /\ rsp' = user_stack_save /\ UNCHANGED stack
    BY <1>6, Zenon DEF LoadUserStack, Goto
  <2>2. user_stack_save = NULL
    BY <1>1, <2>1 DEF Control, Open, Early, InCall, Handling, InHandler
  <2>3. Reaches(rsp')
    BY <2>1, <2>2 DEF Reaches, NULL, At, None, Stacks
  <2> QED BY <1>2, <1>3, <1>4, <2>1, <2>3, StackKept
<1>7. CASE OsEntry
  <2>1. rsp' = At("user", 0) /\ UNCHANGED stack
    BY <1>7, Zenon DEF OsEntry
  <2>2. Reaches(rsp')
    BY <2>1 DEF Reaches, At, StackInv, Stacks
  <2> QED BY <1>2, <1>3, <1>4, <2>1, <2>2, StackKept, Zenon
<1>8. CASE UserStep
  <2>1. PICK n \in 0 .. UserDepth : rsp' = At("user", n) /\ stack' = [stack EXCEPT !["user"] = Junk(n)]
    BY <1>8, Zenon DEF UserStep
  <2>2. DOMAIN stack = Stacks /\ n \in Nat
    BY <1>1 DEF Types
  <2>3. stack'["user"] = Junk(n) /\ \A s \in Stacks \ {"user"} : stack'[s] = stack[s]
    BY <2>1, <2>2 DEF Stacks
  <2>4. Len(stack'["user"]) = n
    BY <2>2, <2>3 DEF Junk
  <2>5. \A s \in Stacks : Len(stack'[s]) \in Nat
    BY <2>2, <2>3, <2>4 DEF StackInv
  <2>6. Reaches(rsp)'
    BY <2>1, <2>2, <2>4 DEF Reaches, At
  <2>7. Entry <= Len(stack'["kernel"])
    BY <2>3 DEF StackInv, Stacks
  <2> QED BY <1>3, <1>4, <2>5, <2>6, <2>7 DEF StackInv, InHandler
<1> QED BY <1>5, <1>6, <1>7, <1>8 DEF JumpUsermode

\* A system call comes back to the stack pointer of its caller, which points at
\* what it did.
LEMMA StackCall ==
  ASSUME StackInv, MachineInv, SystemCall
  PROVE  StackInv'
<1> DEFINE Calls == {"syscall", "switch", "push", "call", "map", "mapped", "pop", "save_kernel", "load_user"}
<1>1. Types /\ Control /\ Entry \in Nat /\ rsp \in Pointers /\ DOMAIN stack = Stacks
      /\ \A s \in Stacks : Len(stack[s]) \in Nat
  BY MachineAssumption DEF MachineInv, Types, StackInv
<1>2. pc' \notin InHandler
  BY CallInv, Zenon
<1>3. pc \in Calls => InCall /\ Reaches(caller.rsp)
  BY <1>1, Zenon DEF Control, Early, Open, Handling, InHandler, StackInv
<1>4. Reaches(rsp) /\ Reaches(Base)
  BY <1>1 DEF StackInv, Reaches, Base, At
<1>5. CASE Syscall
  <2>1. pc' = "syscall" /\ caller' = [rsp |-> rsp, gp |-> reg.gp] /\ UNCHANGED <<rsp, stack>>
    BY <1>5 DEF Syscall, Goto
  <2>2. caller'.rsp = rsp
    BY <2>1, Zenon
  <2>3. Reaches(caller.rsp)' /\ Reaches(rsp)'
    BY <1>4, <2>1, <2>2 DEF Reaches
  <2> QED BY <2>1, <2>3 DEF StackInv, InHandler
<1>6. CASE SaveUserStack \/ handle_syscall \/ MapDisable \/ MapEnable
           \/ SaveKernelStack("save_kernel", "load_user")
  <2>1. pc \in Calls /\ UNCHANGED <<rsp, stack, caller>>
    BY <1>6 DEF SaveUserStack, handle_syscall, MapDisable, MapEnable, SaveKernelStack, Goto, saves
  <2> QED BY <1>2, <1>3, <1>4, <2>1, StackKept
<1>7. CASE LoadKernelStack
  <2>1. pc \in Calls /\ rsp' = kernel_stack_save /\ UNCHANGED <<stack, caller>>
    BY <1>7 DEF LoadKernelStack, Goto, saves
  <2>2. rsp' = Base
    BY <1>3, <2>1 DEF InCall
  <2> QED BY <1>2, <1>3, <1>4, <2>1, <2>2, StackKept
<1>8. CASE LoadUserStack("load_user", "sysret")
  <2>1. pc = "load_user" /\ rsp' = user_stack_save /\ UNCHANGED <<stack, caller>>
    BY <1>8 DEF LoadUserStack, Goto, saves
  <2>2. rsp' = caller.rsp
    BY <1>3, <2>1, Zenon DEF InCall
  <2> QED BY <1>2, <1>3, <2>1, <2>2, StackKept
<1>9. CASE PushRegisters
  <2>1. PICK values : values = <<reg.r11, reg.rcx, reg.gp, None>>
    BY Zenon
  <2>2. pc = "push" /\ pc' = "call" /\ Push(rsp, values) /\ UNCHANGED caller /\ Len(values) = 4
    BY <1>9, <2>1 DEF PushRegisters, Goto, saves
  <2>3. rsp = Base /\ caller.rsp.in = "user"
    BY <1>3, <2>2, Zenon DEF InCall
  <2>4. rsp.in = "kernel" /\ rsp.depth = Entry /\ rsp.in \in Stacks
    BY <2>3 DEF Base, At, Stacks
  <2>5. /\ rsp' = At("kernel", Entry + 4) /\ Len(stack'["kernel"]) = Entry + 4
        /\ \A s \in Stacks \ {"kernel"} : stack'[s] = stack[s]
    <3>1. 4 \in Nat
      OBVIOUS
    <3> QED BY <1>1, <2>2, <2>4, <3>1, PushLength, Zenon
  <2>6. Reaches(caller.rsp)' /\ Reaches(rsp)'
    BY <1>1, <1>3, <2>2, <2>3, <2>5 DEF Reaches, At, Stacks
  <2> QED BY <1>1, <2>2, <2>5, <2>6 DEF StackInv, InHandler
<1>10. CASE PopRegisters
  <2>1. pc = "pop" /\ pc' = "save_kernel" /\ stack' = Popped(4) /\ UNCHANGED caller
        /\ rsp' = [rsp EXCEPT !.depth = @ - 4]
    BY <1>10 DEF PopRegisters, Goto, saves
  <2>2. rsp = At("kernel", Entry + 4) /\ caller.rsp.in = "user"
    BY <1>3, <2>1 DEF InCall, CallersSaved
  <2>3. rsp.in = "kernel" /\ rsp.depth = Entry + 4 /\ rsp.in \in Stacks /\ 4 <= rsp.depth
    BY <1>1, <2>2 DEF At, Stacks
  <2>4. /\ Len(stack'["kernel"]) = Entry
        /\ \A s \in Stacks \ {"kernel"} : stack'[s] = stack[s]
    <3>1. 4 \in Nat
      OBVIOUS
    <3>2. /\ Len(stack'[rsp.in]) = rsp.depth - 4
          /\ \A s \in Stacks \ {rsp.in} : stack'[s] = stack[s]
      BY <1>1, <2>1, <2>3, <3>1, PopLength
    <3> QED BY <1>1, <2>3, <3>2
  <2>5. rsp'.in = "kernel" /\ rsp'.depth = Entry
    BY <1>1, <2>1, <2>2 DEF At
  <2>6. Reaches(caller.rsp)' /\ Reaches(rsp)'
    BY <1>1, <1>3, <2>1, <2>2, <2>4, <2>5 DEF Reaches, Stacks
  <2> QED BY <1>1, <2>1, <2>4, <2>6 DEF StackInv, InHandler
<1> QED BY <1>5, <1>6, <1>7, <1>8, <1>9, <1>10, Zenon DEF SystemCall

\* Every step keeps the stack pointers on what was pushed.
LEMMA StackStep ==
  ASSUME MachineInv, StackInv, [MachineNext]_vars
  PROVE  StackInv'
<1>1. Types /\ Control /\ Reaches(rsp)
  BY Zenon DEF MachineInv, StackInv
<1>2. ASSUME UNCHANGED <<pc, rsp, stack, caller>> PROVE StackInv'
  BY <1>1, <1>2, StackKept, Zenon DEF StackInv
<1>3. CASE (\E l \in Devices : Raise(l)) \/ (\E k \in Codes : KeyMoves(k)) \/ Spin \/ UNCHANGED vars
  BY <1>2, <1>3 DEF Raise, KeyMoves, Spin, vars, cpu, saves
<1>4. CASE \E l \in Devices \cup {1} : Accept(l)
  <2>1. Enter("irq") /\ IFlag = TRUE /\ Open(pc, ring, rsp, reg)
    BY <1>4, Accepted, Zenon
  <2>2. UNCHANGED caller
    BY <1>4 DEF Accept, saves
  <2> QED BY <2>1, <2>2, StackEntered
<1>5. CASE Boot
  <2>1. UNCHANGED <<rsp, stack, caller>>
    BY <1>5 DEF Boot, SaveMasks, Remap, IDT_init, subscribePress, MaskClock, enable_interrupts,
                setup_tss, Quiet, saves
  <2>2. pc' \in Early \cup {"tss", "flags"}
    BY <1>5, Zenon DEF Boot, SaveMasks, Remap, IDT_init, subscribePress, MaskClock, enable_interrupts,
                setup_tss, Goto, Early
  <2> QED BY <1>1, <2>1, <2>2, StackKept, Zenon DEF Early, InHandler
<1>6. CASE UserFault
  <2>1. ring = 3 /\ Enter("isr") /\ UNCHANGED caller
    BY <1>6 DEF UserFault, saves
  <2>2. IFlag = TRUE /\ Open(pc, ring, rsp, reg)
    BY <1>1, <2>1 DEF Control
  <2> QED BY <2>1, <2>2, StackEntered
<1>7. CASE IsrStub
  <2>1. PICK values : values = <<None, None, reg>>
    BY Zenon
  <2>2. pc = "isr" /\ pc' = "spin" /\ Push(rsp, values) /\ UNCHANGED caller /\ Len(values) = 3 /\ 3 \in Nat
    BY <1>7, <2>1, Zenon DEF IsrStub, Goto, saves
  <2>3. Open(pc, ring, rsp, reg)
    BY <1>1, <2>2, Zenon DEF Control, Early, InCall, Handling, InHandler
  <2>4. rsp.in = "tss" /\ rsp.depth = 1 /\ rsp.in \in Stacks /\ rsp \in Pointers /\ DOMAIN stack = Stacks
    BY <1>1, <2>2, <2>3 DEF Open, At, Stacks, Types
  <2>5. /\ rsp' = At("tss", 4) /\ Len(stack'["tss"]) = 4
        /\ \A s \in Stacks \ {"tss"} : stack'[s] = stack[s]
    <3>1. /\ rsp' = At(rsp.in, rsp.depth + 3)
          /\ Len(stack'[rsp.in]) = rsp.depth + 3
          /\ \A s \in Stacks \ {rsp.in} : stack'[s] = stack[s]
      BY <2>2, <2>4, PushLength, Zenon
    <3> QED BY <2>4, <3>1
  <2>6. Reaches(rsp)' /\ \A s \in Stacks : Len(stack'[s]) \in Nat
    BY <2>5 DEF Reaches, At, StackInv
  <2>7. Entry <= Len(stack'["kernel"])
    BY <2>5 DEF StackInv, Stacks
  <2> QED BY <2>2, <2>6, <2>7 DEF StackInv, InHandler
<1> QED BY <1>3, <1>4, <1>5, <1>6, <1>7, StackHandler, StackUser, StackCall, Zenon DEF MachineNext, Thread

------------------------------------------------------------------------------
(* The theorem *)

\* PIC_remap restores the masks of the firmware, printKey changes only that of
\* the clock, and no stack pointer ever points above what was pushed.
THEOREM MachineMasksKept == MachineSpec => []MasksKept
<1>1. MachineInit => MaskInv /\ StackInv
  <2> SUFFICES ASSUME MachineInit PROVE MaskInv /\ StackInv
    BY Zenon
  <2>1. MaskInv
    BY MachineAssumption DEF MachineInit, MaskInv, Early, NoLine
  <2>2. /\ pc = "save_masks" /\ rsp = At("kernel", Entry) /\ Entry \in Nat
        /\ stack = [s \in Stacks |-> IF s = "kernel" THEN Junk(Entry) ELSE <<>>]
    BY MachineAssumption DEF MachineInit
  <2>3. Len(Junk(Entry)) = Entry /\ Len(<<>>) = 0
    BY <2>2 DEF Junk
  <2>4. stack["kernel"] = Junk(Entry) /\ \A s \in Stacks : s # "kernel" => stack[s] = <<>>
    BY <2>2 DEF Stacks
  <2>5. \A s \in Stacks : Len(stack[s]) \in Nat
    BY <2>2, <2>3, <2>4
  <2>6. Entry <= Len(stack["kernel"]) /\ Reaches(rsp)
    BY <2>2, <2>3, <2>4 DEF Reaches, At
  <2> QED BY <2>1, <2>2, <2>5, <2>6 DEF StackInv, InHandler
<1>2. MachineInv /\ MaskInv /\ StackInv /\ [MachineNext]_vars => MaskInv' /\ StackInv'
  BY MaskStep, StackStep, Zenon
<1>3. MachineInv /\ MaskInv /\ StackInv => MasksKept
  <2> SUFFICES ASSUME MachineInv, MaskInv, StackInv PROVE MasksKept
    OBVIOUS
  <2>1. /\ rsp \in Pointers /\ SetUp /\ Control /\ Traffic /\ Reaches(rsp)
        /\ \A s \in Stacks : Len(stack[s]) \in Nat
    BY DEF MachineInv, Types, StackInv
  <2>2. rsp.in \in Stacks \cup {None} /\ (rsp.in \in Stacks => rsp.depth \in 0 .. Len(stack[rsp.in]))
    BY <2>1 DEF Pointers, Reaches
  <2>3. ring \in {0, 3} /\ IFlag \in BOOLEAN
    BY <2>1, Zenon DEF Control, Open
  <2>4. (\A c \in {1, 2} : chip[c].icw \in {0, 2, 3, 4}) /\ port \in Codes \cup {None}
    BY <2>1 DEF SetUp, Traffic
  <2>5. line \in 0 .. NoLine /\ imr \cup irr \cup isr \subseteq 0 .. 15
    BY Zenon DEF MaskInv
  <2>6. MachineTypes
    BY <2>2, <2>3, <2>4, <2>5 DEF MachineTypes
  <2> QED BY <2>6 DEF MasksKept, MaskInv
<1> QED
  BY <1>1, <1>2, <1>3, Invariance, PTL DEF MachineSpec
==============================================================================
