------------------------------- MODULE Machine -------------------------------
(***************************************************************************)
(* Interrupts, system calls and the stacks they run on: PIC.c, IDT.h,      *)
(* idt.asm, isr.asm, Interrupts.c, KbController.c, Kernel.c, Ring3.c and   *)
(* ring3.asm, with the two 8259 chips, the keyboard and the interrupt      *)
(* mechanism of the processor as the code uses them.                       *)
(*                                                                         *)
(* A byte that is written to a port is the set of its bits.  A stack       *)
(* pointer is a stack and the number of values on it; push_all pushes all  *)
(* general registers as one value.  What the kernel logs is the subject of *)
(* Console, what the system calls do that of UserHeap, Screen and Paging.  *)
(***************************************************************************)
EXTENDS Integers, Sequences

CONSTANTS
  Devices,    \* the lines that have a device, besides the keyboard on line 1
  BiosMasks,  \* the masks the firmware may leave, as sets of lines
  Entry,      \* how much jump_usermode and its callers hold on the kernel stack
  UserDepth,  \* bound on what the user program has on its stack
  MaxKeys     \* bound on the scan codes the keyboard sends

ASSUME MachineAssumption ==
  /\ Devices \subseteq (0 .. 15) \ {1, 2}
  /\ BiosMasks \subseteq SUBSET (0 .. 15)
  /\ {Entry, UserDepth, MaxKeys} \subseteq Nat

VARIABLES
  pc,        \* where the processor is
  line,      \* the line whose handler runs
  ring, IFlag, rsp, reg,  \* privilege, interrupt flag, stack pointer, registers
  stack,     \* the values on each stack
  kernel_stack_save, user_stack_save,
  interrupts,  \* the local variable of vmm_map_memory
  chip,      \* per PIC: the initialization word it expects, its offset, its cascade
  imr, irr, isr,  \* the lines masked, requested, in service
  a, writes, \* PIC_remap: the masks it saved, the number of bytes written
  idt,       \* IDT_init is done
  tss,       \* the processor finds a stack for ring 0 in the TSS
  port, al,  \* the scan code the keyboard holds, the one irq1_handler has read
  pressHandlers,
  typed, heard,  \* history: the scan codes sent, and the ones acted on
  bios,      \* history: the masks the firmware left
  lost,      \* history: the initialization dropped a request of the keyboard
  caller     \* history: stack pointer and registers at the last SYSCALL

cpu == <<pc, ring, IFlag, rsp, reg, stack>>
saves == <<kernel_stack_save, user_stack_save, interrupts, caller>>
pics == <<chip, imr, irr, isr, lost>>
setup == <<a, writes, idt, tss, pressHandlers, bios>>
keys == <<port, al, typed, heard>>
vars == <<cpu, saves, pics, setup, keys, line>>

NoLine == 16
MAX_HANDLERS == 8
None == "none"
Stacks == {"kernel", "tss", "user"}

\* Keys: 1 and 2 switch the clock, a stands for the others, up for a release.
Codes == {"1", "2", "a", "up"}

At(s, n) == [in |-> s, depth |-> n]
NULL == At(None, 0)
Junk(n) == [i \in 1 .. n |-> None]

\* The registers: rcx and r11 as SYSCALL and SYSRET use them, gp the others.
Regs(gp) == [gp |-> gp, rcx |-> None, r11 |-> FALSE]

------------------------------------------------------------------------------
(* The 8259 chips. *)

ChipOf(l) == IF l < 8 THEN 1 ELSE 2
LinesOf(c) == IF c = 1 THEN 0 .. 7 ELSE 8 .. 15
BitsOf(c, ls) == {l % 8 : l \in ls \cap LinesOf(c)}

\* The line of the master that a line comes in on.
MasterLine(l) == IF l < 8 THEN l ELSE 2

Value(byte) ==
  LET Bit(b, weight) == IF b \in byte THEN weight ELSE 0
  IN  Bit(0, 1) + Bit(1, 2) + Bit(2, 4) + Bit(3, 8) + Bit(4, 16) + Bit(5, 32) + Bit(6, 64) + Bit(7, 128)

\* The vector of a line: the low three bits of the offset are ignored.
Vector(l) == Value(chip[ChipOf(l)].offset \ 0 .. 2) + (l % 8)

\* A line asks the processor: it and its way through the master are open,
\* and nothing of its own or of a higher priority is in service.
Asks(l) ==
  /\ {l, MasterLine(l)} \cap imr = {}
  /\ \A i \in isr \cap (0 .. 7) : MasterLine(l) < i
  /\ l > 7 => /\ chip[1].cascade = {2} /\ Value(chip[2].cascade) = 2
              /\ \A i \in isr \cap (8 .. 15) : l < i

Requests == {l \in irr : Asks(l)}

\* The chips answer with the line of the highest priority.
First(l) ==
  \A k \in Requests \ {l} :
    MasterLine(l) < MasterLine(k) \/ (MasterLine(l) = MasterLine(k) /\ l < k)

\* An end of interrupt names no line: it retires the first one in service.
Retired(c, s) == s \ {l \in s \cap LinesOf(c) : \A k \in s \cap LinesOf(c) : l <= k}

\* What a chip does with a byte: bit 4 of a command starts the initialization,
\* which clears mask, requests and lines in service; data are the words 2 to 4
\* of the initialization, and the mask after that.
Outb(c, kind, byte) ==
  CASE kind = "command" /\ 4 \in byte ->
         /\ chip' = [chip EXCEPT ![c].icw = 2]
         /\ imr' = imr \ LinesOf(c)
         /\ irr' = irr \ LinesOf(c)
         /\ isr' = isr \ LinesOf(c)
         /\ lost' = (lost \/ (c = 1 /\ port # None))
    [] kind = "data" /\ chip[c].icw # 0 ->
         /\ chip' = [chip EXCEPT ![c].icw = IF @ = 4 THEN 0 ELSE @ + 1,
                                 ![c].offset = IF chip[c].icw = 2 THEN byte ELSE @,
                                 ![c].cascade = IF chip[c].icw = 3 THEN byte ELSE @]
         /\ UNCHANGED <<imr, irr, isr, lost>>
    [] OTHER ->
         /\ imr' = (imr \ LinesOf(c)) \cup {l \in LinesOf(c) : l % 8 \in byte}
         /\ UNCHANGED <<chip, irr, isr, lost>>

------------------------------------------------------------------------------
(* The devices. *)

\* A device other than the keyboard raises its line.
Raise(l) ==
  /\ irr' = irr \cup {l}
  /\ UNCHANGED <<cpu, saves, chip, imr, isr, lost, setup, keys, line>>

\* The keyboard sends the next scan code once the last one was read.
KeyMoves(k) ==
  /\ Len(typed) < MaxKeys
  /\ port = None
  /\ port' = k
  /\ typed' = Append(typed, k)
  /\ irr' = irr \cup {1}
  /\ UNCHANGED <<cpu, saves, chip, imr, isr, lost, setup, al, heard, line>>

------------------------------------------------------------------------------
(* Stacks, and how the processor enters a handler. *)

\* Values are pushed at sp; what was above it is gone.
Push(sp, values) ==
  /\ stack' = [stack EXCEPT ![sp.in] =
       [i \in 1 .. sp.depth + Len(values) |-> IF i <= sp.depth THEN @[i] ELSE values[i - sp.depth]]]
  /\ rsp' = [sp EXCEPT !.depth = @ + Len(values)]

\* The n-th value from the top; n values are popped.
Top(n) == stack[rsp.in][rsp.depth - n + 1]
Popped(n) == [stack EXCEPT ![rsp.in] = [i \in 1 .. rsp.depth - n |-> @[i]]]

\* The gates of IDT_init.
Gate(v) ==
  CASE idt /\ v \in 0 .. 20 -> "isr"
    [] idt /\ v \in 32 .. 47 -> "irq"
    [] OTHER -> "reset"

\* The gates of lines clear the interrupt flag, those of exceptions do not.
\* From ring 3 the stack is the one of the TSS.  Without a gate or a stack
\* the machine resets.
Enter(handler) ==
  LET sp == IF ring = 3 THEN (IF tss THEN At("tss", 0) ELSE NULL) ELSE rsp IN
  \/ /\ handler # "reset"
     /\ sp # NULL
     /\ Push(sp, <<[pc |-> pc, ring |-> ring, IFlag |-> IFlag, rsp |-> rsp]>>)
     /\ pc' = handler
     /\ ring' = 0
     /\ IFlag' = (IFlag /\ handler = "isr")
     /\ UNCHANGED reg
  \/ /\ handler = "reset" \/ sp = NULL
     /\ pc' = "reset"
     /\ IFlag' = FALSE
     /\ UNCHANGED <<ring, rsp, reg, stack>>

\* The processor takes an interrupt.
Accept(l) ==
  /\ IFlag
  /\ l \in Requests
  /\ First(l)
  /\ irr' = irr \ {l}
  /\ isr' = isr \cup {l, MasterLine(l)}
  /\ Enter(Gate(Vector(l)))
  /\ line' = IF Vector(l) \in 32 .. 47 THEN Vector(l) - 32 ELSE NoLine
  /\ UNCHANGED <<saves, chip, imr, lost, setup, keys>>

------------------------------------------------------------------------------
(* The handlers of the lines, idt.asm and Interrupts.c. *)

Goto(from, to) == pc = from /\ pc' = to

\* Variant: the scan code is copied, but stays in the keyboard.
IrqEntryKeeps ==
  /\ Goto("irq", "eoi")
  /\ Push(rsp, <<reg>>)
  /\ reg' = Regs("handler")
  /\ al' = IF line = 1 THEN port ELSE al
  /\ UNCHANGED <<ring, IFlag, saves, pics, setup, port, typed, heard, line>>

\* push_all; irq1_handler reads the scan code first of all.
IrqEntry ==
  /\ Goto("irq", "eoi")
  /\ Push(rsp, <<reg>>)
  /\ reg' = Regs("handler")
  /\ al' = IF line = 1 THEN port ELSE al
  /\ port' = IF line = 1 THEN None ELSE port
  /\ UNCHANGED <<ring, IFlag, saves, pics, setup, typed, heard, line>>

\* Variants: the slave gets no end of interrupt; nobody gets one.
EOIMasterOnly ==
  /\ Goto("eoi", "body")
  /\ isr' = Retired(1, isr)
  /\ UNCHANGED <<ring, IFlag, rsp, reg, stack, saves, chip, imr, irr, lost, setup, keys, line>>

EOIMissing ==
  /\ Goto("eoi", "body")
  /\ UNCHANGED <<ring, IFlag, rsp, reg, stack, saves, pics, setup, keys, line>>

PIC_send_EOI ==
  /\ Goto("eoi", "body")
  /\ isr' = Retired(1, IF line >= 8 THEN Retired(2, isr) ELSE isr)
  /\ UNCHANGED <<ring, IFlag, rsp, reg, stack, saves, chip, imr, irr, lost, setup, keys, line>>

\* Variant: the mask is written without being read first.
printKeyOverwrites(k) ==
  CASE k = "1" -> {}
    [] k = "2" -> {0}
    [] OTHER -> imr

\* printKey reads the mask, changes the bit of line 0 and writes it back.
printKey(k) ==
  CASE k = "1" -> imr \ {0}
    [] k = "2" -> imr \cup {0}
    [] OTHER -> imr

\* onKeyPressed calls the subscribers; nobody subscribes to releases.
IrqBody ==
  LET pressed == al \notin {None, "up"} /\ pressHandlers # <<>> IN
  /\ Goto("body", "iret")
  /\ imr' = IF pressed THEN printKey(al) ELSE imr
  /\ heard' = IF pressed \/ al = "up" THEN Append(heard, al) ELSE heard
  /\ al' = None
  /\ UNCHANGED <<ring, IFlag, rsp, reg, stack, saves, chip, irr, isr, lost, setup,
                 port, typed, line>>

\* pop_all and iretq.
IrqReturn ==
  /\ pc = "iret"
  /\ reg' = Top(1)
  /\ pc' = Top(2).pc
  /\ ring' = Top(2).ring
  /\ IFlag' = Top(2).IFlag
  /\ rsp' = Top(2).rsp
  /\ stack' = Popped(2)
  /\ line' = NoLine
  /\ UNCHANGED <<saves, pics, setup, keys>>

Handler == IrqEntry \/ PIC_send_EOI \/ IrqBody \/ IrqReturn

------------------------------------------------------------------------------
(* kmain up to ring 3; the parts that only log are left out. *)

Quiet == UNCHANGED <<ring, rsp, reg, stack, saves, keys, line>>

\* PIC_remap first saves the masks.
SaveMasks ==
  /\ Goto("save_masks", "remap")
  /\ a' = imr
  /\ UNCHANGED <<IFlag, pics, writes, idt, tss, pressHandlers, bios>>
  /\ Quiet

\* Variant: the slave keeps the vectors of the firmware.
RemapMasterOnly ==
  <<<<1, "command", {0, 4}>>, <<2, "command", {0, 4}>>,
    <<1, "data", {5}>>, <<2, "data", {4, 5, 6}>>,
    <<1, "data", {2}>>, <<2, "data", {1}>>,
    <<1, "data", {0}>>, <<2, "data", {0}>>,
    <<1, "data", BitsOf(1, a)>>, <<2, "data", BitsOf(2, a)>>>>

\* The bytes PIC_remap then writes: chip, port, bits.
RemapWrites ==
  <<<<1, "command", {0, 4}>>, <<2, "command", {0, 4}>>,
    <<1, "data", {5}>>, <<2, "data", {3, 5}>>,
    <<1, "data", {2}>>, <<2, "data", {1}>>,
    <<1, "data", {0}>>, <<2, "data", {0}>>,
    <<1, "data", BitsOf(1, a)>>, <<2, "data", BitsOf(2, a)>>>>

Remap ==
  /\ pc = "remap"
  /\ LET w == RemapWrites[writes + 1] IN Outb(w[1], w[2], w[3])
  /\ writes' = writes + 1
  /\ pc' = IF writes' = Len(RemapWrites) THEN "idt" ELSE "remap"
  /\ UNCHANGED <<IFlag, a, idt, tss, pressHandlers, bios>>
  /\ Quiet

IDT_init ==
  /\ Goto("idt", "subscribe")
  /\ idt' = TRUE
  /\ UNCHANGED <<IFlag, pics, a, writes, tss, pressHandlers, bios>>
  /\ Quiet

subscribePress ==
  /\ Goto("subscribe", "mask")
  /\ pressHandlers' = IF Len(pressHandlers) < MAX_HANDLERS
                       THEN Append(pressHandlers, "printKey") ELSE pressHandlers
  /\ UNCHANGED <<IFlag, pics, a, writes, idt, tss, bios>>
  /\ Quiet

\* IRQ_set_mask(0)
MaskClock ==
  /\ Goto("mask", "sti")
  /\ imr' = imr \cup {0}
  /\ UNCHANGED <<IFlag, chip, irr, isr, lost, setup>>
  /\ Quiet

enable_interrupts ==
  /\ Goto("sti", "tss")
  /\ IFlag' = TRUE
  /\ UNCHANGED <<pics, setup>>
  /\ Quiet

\* setup_tss gives the descriptor of the TSS the limit sizeof(tss_entry_t) - 1,
\* that of a descriptor; rsp[0] is in the bytes 4 to 11 of tss_t.
TSSLimit == 16 - 1
RSP0 == 4 .. 11

\* The processor can read the stack for ring 0 if it is within the limit.
setup_tss ==
  /\ Goto("tss", "flags")
  /\ tss' = (RSP0 \subseteq 0 .. TSSLimit)
  /\ UNCHANGED <<IFlag, pics, a, writes, idt, pressHandlers, bios>>
  /\ Quiet

Boot == SaveMasks \/ Remap \/ IDT_init \/ subscribePress \/ MaskClock \/ enable_interrupts \/ setup_tss

------------------------------------------------------------------------------
(* ring3.asm: into ring 3, and a system call. *)

Rest == UNCHANGED <<pics, setup, keys, line>>

\* jump_usermode: pushf and pop r11.
GetFlags ==
  /\ Goto("flags", "save")
  /\ reg' = [reg EXCEPT !.r11 = IFlag]
  /\ UNCHANGED <<ring, IFlag, rsp, stack, saves>>
  /\ Rest

SaveKernelStack(from, to) ==
  /\ Goto(from, to)
  /\ kernel_stack_save' = rsp
  /\ UNCHANGED <<ring, IFlag, rsp, reg, stack, user_stack_save, interrupts, caller>>
  /\ Rest

LoadUserStack(from, to) ==
  /\ Goto(from, to)
  /\ rsp' = user_stack_save
  /\ UNCHANGED <<ring, IFlag, reg, stack, saves>>
  /\ Rest

SetEntry ==
  /\ Goto("entry", "sysret")
  /\ reg' = [reg EXCEPT !.rcx = "os_entry"]
  /\ UNCHANGED <<ring, IFlag, rsp, stack, saves>>
  /\ Rest

\* SYSRET takes flags and address from r11 and rcx.
Sysret ==
  /\ pc = "sysret"
  /\ pc' = reg.rcx
  /\ ring' = 3
  /\ IFlag' = reg.r11
  /\ UNCHANGED <<rsp, reg, stack, saves>>
  /\ Rest

\* os_entry loads its own stack.
OsEntry ==
  /\ Goto("os_entry", "user")
  /\ rsp' = At("user", 0)
  /\ UNCHANGED <<ring, IFlag, reg, stack, saves>>
  /\ Rest

\* Any other code in ring 3 moves its stack pointer and changes registers.
UserStep ==
  /\ Goto("user", "user")
  /\ \E n \in 0 .. UserDepth :
       /\ rsp' = At("user", n)
       /\ stack' = [stack EXCEPT !["user"] = Junk(n)]
  /\ reg' = Regs("user")
  /\ UNCHANGED <<ring, IFlag, saves>>
  /\ Rest

\* SYSCALL keeps the stack of the caller; SFMASK clears the interrupt flag.
Syscall ==
  /\ Goto("user", "syscall")
  /\ reg' = [reg EXCEPT !.rcx = "user", !.r11 = IFlag]
  /\ ring' = 0
  /\ IFlag' = FALSE
  /\ caller' = [rsp |-> rsp, gp |-> reg.gp]
  /\ UNCHANGED <<rsp, stack, kernel_stack_save, user_stack_save, interrupts>>
  /\ Rest

SaveUserStack ==
  /\ Goto("syscall", "switch")
  /\ user_stack_save' = rsp
  /\ UNCHANGED <<ring, IFlag, rsp, reg, stack, kernel_stack_save, interrupts, caller>>
  /\ Rest

LoadKernelStack ==
  /\ Goto("switch", "push")
  /\ rsp' = kernel_stack_save
  /\ UNCHANGED <<ring, IFlag, reg, stack, saves>>
  /\ Rest

\* r11, rcx, push_all, and the number of the call.
PushRegisters ==
  /\ Goto("push", "call")
  /\ Push(rsp, <<reg.r11, reg.rcx, reg.gp, None>>)
  /\ UNCHANGED <<ring, IFlag, reg, saves>>
  /\ Rest

\* handle_syscall; only mmap gets to vmm_map_memory, which disables
\* interrupts and enables them again if they were on before.  One page stands
\* for all that a call maps.
handle_syscall ==
  /\ Goto("call", "pop") \/ Goto("call", "map")
  /\ reg' = Regs("kernel")
  /\ UNCHANGED <<ring, IFlag, rsp, stack, saves>>
  /\ Rest

MapDisable ==
  /\ Goto("map", "mapped")
  /\ interrupts' = IFlag
  /\ IFlag' = FALSE
  /\ UNCHANGED <<ring, rsp, reg, stack, kernel_stack_save, user_stack_save, caller>>
  /\ Rest

\* Variant: interrupts are enabled whatever they were.
MapEnableAlways ==
  /\ Goto("mapped", "pop")
  /\ IFlag' = TRUE
  /\ UNCHANGED <<ring, rsp, reg, stack, saves>>
  /\ Rest

MapEnable ==
  /\ Goto("mapped", "pop")
  /\ IFlag' = (IFlag \/ interrupts)
  /\ UNCHANGED <<ring, rsp, reg, stack, saves>>
  /\ Rest

\* Variants: the number of the call stays on the stack; pop_all is missing.
PopKeepsNumber ==
  /\ Goto("pop", "save_kernel")
  /\ reg' = [gp |-> Top(2), rcx |-> Top(3), r11 |-> Top(4)]
  /\ rsp' = [rsp EXCEPT !.depth = @ - 3]
  /\ stack' = Popped(3)
  /\ UNCHANGED <<ring, IFlag, saves>>
  /\ Rest

PopKeepsRegisters ==
  /\ Goto("pop", "save_kernel")
  /\ reg' = [gp |-> reg.gp, rcx |-> Top(3), r11 |-> Top(4)]
  /\ rsp' = [rsp EXCEPT !.depth = @ - 4]
  /\ stack' = Popped(4)
  /\ UNCHANGED <<ring, IFlag, saves>>
  /\ Rest

PopRegisters ==
  /\ Goto("pop", "save_kernel")
  /\ reg' = [gp |-> Top(2), rcx |-> Top(3), r11 |-> Top(4)]
  /\ rsp' = [rsp EXCEPT !.depth = @ - 4]
  /\ stack' = Popped(4)
  /\ UNCHANGED <<ring, IFlag, saves>>
  /\ Rest

JumpUsermode ==
  GetFlags \/ SaveKernelStack("save", "load") \/ LoadUserStack("load", "entry") \/ SetEntry \/ Sysret

SystemCall ==
  \/ Syscall \/ SaveUserStack \/ LoadKernelStack \/ PushRegisters
  \/ handle_syscall \/ MapDisable \/ MapEnable \/ PopRegisters
  \/ SaveKernelStack("save_kernel", "load_user") \/ LoadUserStack("load_user", "sysret")

------------------------------------------------------------------------------
(* Exceptions of the user program, isr.asm and isr_handler. *)

UserFault ==
  /\ ring = 3
  /\ Enter("isr")
  /\ UNCHANGED <<saves, pics, setup, keys, line>>

\* Variant: the stub has no cli.
IsrStubOpen ==
  /\ Goto("isr", "spin")
  /\ Push(rsp, <<None, None, reg>>)
  /\ UNCHANGED <<ring, IFlag, reg, saves>>
  /\ Rest

\* The stub pushes error code and number, clears the flag and calls
\* isr_handler, which ends in an endless loop.
IsrStub ==
  /\ Goto("isr", "spin")
  /\ Push(rsp, <<None, None, reg>>)
  /\ IFlag' = FALSE
  /\ UNCHANGED <<ring, reg, saves>>
  /\ Rest

Spin == pc \in {"spin", "reset"} /\ UNCHANGED vars

Thread == Boot \/ JumpUsermode \/ OsEntry \/ UserStep \/ SystemCall \/ UserFault \/ IsrStub \/ Spin

------------------------------------------------------------------------------

MachineInit ==
  /\ pc = "save_masks"
  /\ line = NoLine
  /\ ring = 0
  /\ IFlag = FALSE
  /\ rsp = At("kernel", Entry)
  /\ reg = Regs("kernel")
  /\ stack = [s \in Stacks |-> IF s = "kernel" THEN Junk(Entry) ELSE <<>>]
  /\ kernel_stack_save = NULL
  /\ user_stack_save = NULL
  /\ interrupts = FALSE
  /\ chip = [c \in {1, 2} |-> [icw |-> 0, offset |-> IF c = 1 THEN {3} ELSE {4, 5, 6},
                               cascade |-> IF c = 1 THEN {2} ELSE {1}]]
  /\ bios \in BiosMasks
  /\ imr = bios
  /\ irr = {}
  /\ isr = {}
  /\ a = {}
  /\ writes = 0
  /\ idt = FALSE
  /\ tss = FALSE
  /\ port = None
  /\ al = None
  /\ pressHandlers = <<>>
  /\ typed = <<>>
  /\ heard = <<>>
  /\ lost = FALSE
  /\ caller = [rsp |-> NULL, gp |-> None]

MachineNext ==
  \/ \E l \in Devices : Raise(l)
  \/ \E k \in Codes : KeyMoves(k)
  \/ \E l \in Devices \cup {1} : Accept(l)
  \/ Handler
  \/ Thread

\* The processor never stops by itself: the thread and a handler go on.  It
\* looks for interrupts after every instruction, so it takes one that is on
\* offer again and again.
MachineFairness == WF_vars(Handler) /\ WF_vars(Thread) /\ SF_vars(Accept(1))

MachineSpec == MachineInit /\ [][MachineNext]_vars /\ MachineFairness

------------------------------------------------------------------------------
(* Properties *)

\* A stack pointer never points above what was pushed, which is what the saves
\* of syscall_handler and the pops of the handlers rest on.
MachineTypes ==
  /\ ring \in {0, 3}
  /\ IFlag \in BOOLEAN
  /\ rsp.in \in Stacks \cup {None}
  /\ rsp.in \in Stacks => rsp.depth \in 0 .. Len(stack[rsp.in])
  /\ line \in 0 .. NoLine
  /\ imr \cup irr \cup isr \subseteq 0 .. 15
  /\ \A c \in {1, 2} : chip[c].icw \in {0, 2, 3, 4}
  /\ port \in Codes \cup {None}

\* The handler that runs is the one of the line in service, nothing else is in
\* service with it, and its end of interrupt leaves no line behind that would
\* block others for good (PIC_send_EOI names no line; line 2 is the slave's).
ServesItsLine ==
  pc # "reset" => isr = IF pc \in {"irq", "eoi"} THEN {line, MasterLine(line)} ELSE {}

\* Wherever ring 0 can be interrupted its stack is one of the kernel's.  The
\* one exception is the first entry to ring 3, where jump_usermode has loaded
\* a stack pointer of 0 with interrupts on.
InterruptibleStack ==
  ring = 0 /\ IFlag => \/ rsp.in \in {"kernel", "tss"}
                       \/ pc \in {"entry", "sysret"} /\ rsp = NULL

\* Nothing is left on the kernel's stacks when ring 3 runs: the stack pointer
\* that the next system call will use is the one of the first entry.
StacksUnwound ==
  ring = 3 => kernel_stack_save = At("kernel", Entry) /\ IFlag

\* Of the keys 1 and 2 that were acted on, the last one was 1.
ClockOn ==
  \E i \in DOMAIN heard : heard[i] = "1" /\ \A j \in DOMAIN heard : j > i => heard[j] # "2"

\* PIC_remap and printKey change no mask but that of the clock, and the clock
\* is masked unless the last of the keys 1 and 2 was 1.  The types are part of
\* it.
MasksKept ==
  /\ MachineTypes
  /\ pc \notin {"save_masks", "remap", "idt", "subscribe", "mask"} =>
       imr = IF ClockOn THEN bios \ {0} ELSE bios \cup {0}

\* No scan code is dropped, acted on twice or overtaken by a later one.
KeysInOrder ==
  LET Held(k) == IF k = None THEN <<>> ELSE <<k>>
  IN  typed = heard \o Held(al) \o Held(port)

\* The machine resets only in the window of InterruptibleStack: every other
\* interrupt finds a gate and a stack.  That holds in ring 3 as well, where a
\* remark in syscall_handler expects a general protection fault: rsp[0] is
\* within the limit of the TSS.
ResetOnlyAtFirstEntry ==
  [][pc' = "reset" => pc = "reset" \/ (pc \in {"entry", "sysret"} /\ user_stack_save = NULL)]_vars

\* A system call returns to its caller with the stack pointer, the registers
\* and the interrupt flag it was called with.
SyscallResumes ==
  [][pc = "sysret" /\ pc' = "user" => <<rsp', reg'.gp, IFlag'>> = <<caller.rsp, caller.gp, TRUE>>]_vars

\* After an exception was reported nothing runs any more, although the gates
\* of exceptions leave interrupts on.
ExceptionIsFinal == [][pc = "spin" => pc' = "spin"]_vars

\* A key is acted on in the end, unless the machine has stopped or PIC_remap
\* reset the request of a key that was waiting.  The clock has the higher
\* priority: while it is not masked it must leave room between its interrupts.
\* A tick of a masked clock stays in irr and takes nothing from the keyboard.
KeyServed ==
  []<>(IFlag /\ 0 \notin irr \ imr) => \A n \in 1 .. MaxKeys :
    Len(typed) >= n ~> Len(heard) >= n \/ lost \/ pc \in {"spin", "reset"}
==============================================================================
