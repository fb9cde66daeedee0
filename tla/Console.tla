------------------------------- MODULE Console -------------------------------
(***************************************************************************)
(* The text console, src/src/kernel/src/VGA/VGA.c, and the handlers of     *)
(* Interrupts.c and Kernel.c that write to it.                             *)
(*                                                                         *)
(* The kernel thread logs characters; its putChar, ensureCursorInRange and *)
(* kmemcpy_128 are modelled step by step, because handlers interrupt them  *)
(* between enable_interrupts and the first entry to ring 3.  A handler has *)
(* interrupts off and runs to its end in one action.  The screen is a grid *)
(* of character cells instead of pixels, with one more column for the      *)
(* pixels that 800 leaves over from 88 columns of 9, into which a glyph    *)
(* falls that is rendered at colMax.  (Its last pixel column is already in *)
(* the next pixel row.)  A row stands for the 128 bytes that kmemcpy_128   *)
(* moves through the registers at a time.                                  *)
(***************************************************************************)
EXTENDS Integers, Sequences, SequencesExt

CONSTANTS
  colMax, rowMax,  \* columns and rows of the screen
  TAB_SIZE,
  MaxText          \* bound on the characters logged before interrupts are on

ASSUME ConsoleAssumption == {colMax, rowMax, TAB_SIZE, MaxText} \subseteq Nat \ {0}

VARIABLES
  vga,          \* cursorX, cursorY and the cells of BACKBUFFER; history: where
                \* the thread was when a glyph was rendered past its end
  FRAMEBUFFER,  \* the rows on the screen
  phase,        \* how far kmain has come
  IFlag,        \* the interrupt flag
  masked,       \* the clock, IRQ 0, is masked
  pc,           \* where the kernel thread is in log
  ch,           \* the argument of putChar
  reg,          \* the value of the cursor that an increment has loaded
  row, xmm,     \* kmemcpy_128: the row it copies, the vector registers
  text,         \* history: the characters logged while interrupts were off
  loaded        \* history: the row as kmemcpy_128 loaded it

vars == <<vga, FRAMEBUFFER, phase, IFlag, masked, pc, ch, reg, row, xmm, text, loaded>>

Rows == 0 .. rowMax - 1
Cols == 0 .. colMax - 1
Drawn == 0 .. colMax   \* the columns and the margin

Blank == [c \in Drawn |-> " "]

\* What a row shows before the console writes to it, and after a copy from a
\* buffer that was not there yet.
Firmware == <<"firmware">>
Garbage == <<"garbage">>

\* Letters stand for every character that has a glyph of its own.
Printable == {"a", " "}
Chars == Printable \cup {"\\n", "\\r", "\\b", "\\t"}

\* enter_user_mode's and kmain's texts with interrupts on have no other characters.
BootChars == {"a", "\\n"}

\* The characters of the keyboard; 1 and 2 switch the clock on and
\* off, and many keys have none.
Keys == {"a", "\\n", "\\b", "\\t", "1", "2", "none"}

Init ==
  /\ vga = [x |-> 0, y |-> 0, cells |-> [r \in Rows |-> Garbage], past |-> {}]
  /\ FRAMEBUFFER = [r \in Rows |-> Firmware]
  /\ phase = "map"
  /\ IFlag = FALSE
  /\ masked = FALSE
  /\ pc = "idle"
  /\ ch = " "
  /\ reg = 0
  /\ row = 0
  /\ xmm = Blank
  /\ text = <<>>
  /\ loaded = Blank

------------------------------------------------------------------------------
(* putChar as a function, for code that nothing interrupts *)

InRange(s) == s.x \in Cols /\ s.y \in Rows

\* render does not look where the cursor is: below the last row the pixels are
\* past the end of BACKBUFFER, but for the few lines that 600 leaves over.
Render(s, c) ==
  IF s.y \in Rows THEN [s EXCEPT !.cells[s.y][s.x] = c] ELSE [s EXCEPT !.past = @ \cup {pc}]

\* Mutant of ScrollUp: the last row is not cleared.
ScrollUpKeepLast(s) ==
  [s EXCEPT !.cells = [r \in Rows |-> IF r + 1 \in Rows THEN s.cells[r + 1] ELSE s.cells[r]]]

\* The margin moves up with the rows, but is not cleared in the last one.
ScrollUp(s) ==
  [s EXCEPT !.cells = [r \in Rows |-> IF r + 1 \in Rows THEN s.cells[r + 1]
                                       ELSE [Blank EXCEPT ![colMax] = s.cells[r][colMax]]]]

EnsureCursorInRange(s) ==
  LET w == IF s.x >= colMax THEN [s EXCEPT !.x = 0, !.y = @ + 1] ELSE s
  IN  IF w.y >= rowMax THEN [ScrollUp(w) EXCEPT !.x = 0, !.y = rowMax - 1] ELSE w

Backspace(s) ==
  Render(IF s.x # 0 THEN [s EXCEPT !.x = @ - 1]
         ELSE IF s.y # 0 THEN [s EXCEPT !.y = @ - 1, !.x = colMax - 1]
         ELSE s, " ")

PutSimple(s, c) ==
  EnsureCursorInRange(CASE c = "\\r" -> [s EXCEPT !.x = 0]
                        [] c = "\\n" -> [s EXCEPT !.x = 0, !.y = @ + 1]
                        [] c = "\\b" -> Backspace(s)
                        [] OTHER    -> [Render(s, c) EXCEPT !.x = @ + 1])

PutChar(s, c) ==
  IF c = "\\t"
  THEN FoldLeft(PutSimple, s, [i \in 1 .. TAB_SIZE - (s.x % TAB_SIZE) |-> " "])
  ELSE PutSimple(s, c)

------------------------------------------------------------------------------
(* kmain and vga_init, up to the first text *)

\* The memory manager logs what it does while vga_init calls it.  putChar returns
\* at once, but log copies the buffers: from and to NULL in "map", from NULL in
\* "back", from memory that nobody has written in "background".
EarlyLog ==
  /\ phase \in {"map", "back", "background"}
  /\ FRAMEBUFFER' = IF phase = "map" THEN FRAMEBUFFER ELSE [r \in Rows |-> Garbage]
  /\ UNCHANGED <<vga, phase, IFlag, masked, pc, ch, reg, row, xmm, text, loaded>>

\* FRAMEBUFFER, BACKBUFFER and BACKGROUND are set; then vga_ready.
vga_init ==
  /\ \/ phase = "map" /\ phase' = "back"
     \/ phase = "back" /\ phase' = "background"
     \/ phase = "background" /\ phase' = "ready"
  /\ UNCHANGED <<vga, FRAMEBUFFER, IFlag, masked, pc, ch, reg, row, xmm, text, loaded>>

clearScreen ==
  /\ phase = "ready"
  /\ phase' = "off"
  /\ vga' = [vga EXCEPT !.x = 0, !.y = 0, !.cells = [r \in Rows |-> Blank]]
  /\ FRAMEBUFFER' = vga'.cells
  /\ UNCHANGED <<IFlag, masked, pc, ch, reg, row, xmm, text, loaded>>

\* IRQ_set_mask(0); enable_interrupts();
EnableInterrupts ==
  /\ phase = "off"
  /\ pc = "idle"
  /\ phase' = "on"
  /\ IFlag' = TRUE
  /\ masked' = TRUE
  /\ text' = <<>>
  /\ UNCHANGED <<vga, FRAMEBUFFER, pc, ch, reg, row, xmm, loaded>>

\* enter_user_mode: from now on the thread logs only in system calls.
EnterUserMode ==
  /\ phase = "on"
  /\ pc = "idle"
  /\ phase' = "user"
  /\ UNCHANGED <<vga, FRAMEBUFFER, IFlag, masked, pc, ch, reg, row, xmm, text, loaded>>

------------------------------------------------------------------------------
(* log and log_n, called by the kernel thread *)

\* SYSCALL clears the interrupt flag.
LogCall ==
  /\ phase \in {"off", "on", "user"}
  /\ pc = "idle"
  /\ pc' = "next"
  /\ IFlag' = (IFlag /\ phase # "user")
  /\ UNCHANGED <<vga, FRAMEBUFFER, phase, masked, ch, reg, row, xmm, text, loaded>>

NextChar(c) ==
  /\ pc = "next"
  /\ phase = "on" => c \in BootChars
  /\ phase = "off" => Len(text) < MaxText
  /\ ch' = c
  /\ pc' = "put"
  /\ text' = IF phase = "off" THEN Append(text, c) ELSE text
  /\ UNCHANGED <<vga, FRAMEBUFFER, phase, IFlag, masked, reg, row, xmm, loaded>>

\* The end of the text: swapBuffers.
EndOfText ==
  /\ pc = "next"
  /\ pc' = "load"
  /\ row' = 0
  /\ UNCHANGED <<vga, FRAMEBUFFER, phase, IFlag, masked, ch, reg, xmm, text, loaded>>

\* The switch of putChar; only letters and newlines meet interrupts.
Put ==
  /\ pc = "put"
  /\ \/ /\ ch \in Printable
        /\ vga' = Render(vga, ch)
        /\ pc' = "loadX"
     \/ /\ ch = "\\n"
        /\ vga' = [vga EXCEPT !.x = 0]
        /\ pc' = "loadY"
     \/ /\ ch \in {"\\r", "\\b", "\\t"}
        /\ vga' = PutChar(vga, ch)
        /\ pc' = "next"
  /\ UNCHANGED <<FRAMEBUFFER, phase, IFlag, masked, ch, reg, row, xmm, text, loaded>>

\* cursorX++ and cursorY++ load the cursor, then store it.  A newline comes to
\* cursorY++ in putChar, a letter in ensureCursorInRange.
LoadCursor ==
  /\ pc \in {"loadX", "loadY"}
  /\ reg' = IF pc = "loadX" THEN vga.x ELSE vga.y
  /\ pc' = IF pc = "loadX" THEN "storeX" ELSE "storeY"
  /\ UNCHANGED <<vga, FRAMEBUFFER, phase, IFlag, masked, ch, row, xmm, text, loaded>>

StoreCursor ==
  /\ \/ pc = "storeX" /\ vga' = [vga EXCEPT !.x = reg + 1] /\ pc' = "wrap"
     \/ pc = "storeY" /\ vga' = [vga EXCEPT !.y = reg + 1]
                     /\ pc' = IF ch = "\\n" THEN "wrap" ELSE "scroll"
  /\ reg' = 0
  /\ UNCHANGED <<FRAMEBUFFER, phase, IFlag, masked, ch, row, xmm, text, loaded>>

\* Mutant of NeedsWrap: the cursor may stand one column too far.
NeedsWrapLate == vga.x > colMax

NeedsWrap == vga.x >= colMax

\* ensureCursorInRange: wrap around X
Wrap ==
  /\ pc = "wrap"
  /\ vga' = IF NeedsWrap THEN [vga EXCEPT !.x = 0] ELSE vga
  /\ pc' = IF NeedsWrap THEN "loadY" ELSE "scroll"
  /\ UNCHANGED <<FRAMEBUFFER, phase, IFlag, masked, ch, reg, row, xmm, text, loaded>>

\* ensureCursorInRange: scroll output
Scroll ==
  /\ pc = "scroll"
  /\ vga' = IF vga.y >= rowMax THEN ScrollUp(vga) ELSE vga
  /\ pc' = IF vga.y >= rowMax THEN "home" ELSE "next"
  /\ UNCHANGED <<FRAMEBUFFER, phase, IFlag, masked, ch, reg, row, xmm, text, loaded>>

Home ==
  /\ pc = "home"
  /\ vga' = [vga EXCEPT !.x = 0, !.y = rowMax - 1]
  /\ pc' = "next"
  /\ UNCHANGED <<FRAMEBUFFER, phase, IFlag, masked, ch, reg, row, xmm, text, loaded>>

\* kmemcpy_128: a row goes into the vector registers ...
CopyLoad ==
  /\ pc = "load"
  /\ xmm' = vga.cells[row]
  /\ loaded' = xmm'
  /\ pc' = "store"
  /\ UNCHANGED <<vga, FRAMEBUFFER, phase, IFlag, masked, ch, reg, row, text>>

LastRow == row = rowMax - 1

\* ... and from there to the frame buffer; SYSRET sets the interrupt flag.
CopyStore ==
  /\ pc = "store"
  /\ FRAMEBUFFER' = [FRAMEBUFFER EXCEPT ![row] = xmm]
  /\ loaded' = Blank
  /\ xmm' = Blank
  /\ row' = IF LastRow THEN 0 ELSE row + 1
  /\ pc' = IF LastRow THEN "idle" ELSE "load"
  /\ IFlag' = (IFlag \/ (LastRow /\ phase = "user"))
  /\ UNCHANGED <<vga, phase, masked, ch, reg, text>>

------------------------------------------------------------------------------
(* Interrupt handlers *)

\* log in a handler: the characters, then the copy, which leaves the last row
\* in the vector registers; push_all does not save them.
HandlerLog(chars) ==
  LET s == FoldLeft(PutChar, vga, chars)
  IN  /\ vga' = s
      /\ FRAMEBUFFER' = s.cells
      /\ xmm' = IF pc = "store" THEN s.cells[rowMax - 1] ELSE xmm

\* A key without a character logs the empty string.
printKey(c) ==
  IF c \in {"1", "2"}
  THEN masked' = (c = "2") /\ UNCHANGED <<vga, FRAMEBUFFER, xmm>>
  ELSE HandlerLog(IF c = "none" THEN <<>> ELSE <<c>>) /\ UNCHANGED masked

\* irq1_handler; printKey is the only subscriber of onKeyPressed.
KeyPressed(c) ==
  /\ IFlag
  /\ printKey(c)
  /\ UNCHANGED <<phase, IFlag, pc, ch, reg, row, text, loaded>>

\* irq0_handler: "Clock: %lu\r"
Clock ==
  /\ IFlag
  /\ ~masked
  /\ HandlerLog(<<"a", "\\r">>)
  /\ UNCHANGED <<phase, IFlag, masked, pc, ch, reg, row, text, loaded>>

\* The handlers of the other lines: "Received IRQ n\n"
OtherIRQ ==
  /\ IFlag
  /\ HandlerLog(<<"a", "\\n">>)
  /\ UNCHANGED <<phase, IFlag, masked, pc, ch, reg, row, text, loaded>>

------------------------------------------------------------------------------
\* What the kernel thread does in log.
Log ==
  \/ EndOfText \/ Put \/ LoadCursor \/ StoreCursor \/ Wrap \/ Scroll \/ Home \/ CopyLoad \/ CopyStore

Next ==
  \/ EarlyLog \/ vga_init \/ clearScreen \/ EnableInterrupts \/ EnterUserMode
  \/ LogCall
  \/ \E c \in Chars : NextChar(c)
  \/ Log
  \/ \E c \in Keys : KeyPressed(c)
  \/ Clock \/ OtherIRQ

Spec == Init /\ [][Next]_vars

------------------------------------------------------------------------------
(* Properties *)

Cells == [Drawn -> Printable]

\* The types, at any time.
ConsoleTypeOK ==
  /\ vga.x \in Nat /\ vga.y \in Nat
  /\ \A r \in Rows : vga.cells[r] \in Cells \cup {Garbage}
  /\ \A r \in Rows : FRAMEBUFFER[r] \in Cells \cup {Garbage, Firmware}
  /\ phase \in {"map", "back", "background", "ready", "off", "on", "user"}
  /\ {IFlag, masked} \subseteq BOOLEAN
  /\ pc \in {"idle", "next", "put", "loadX", "storeX", "loadY", "storeY",
             "wrap", "scroll", "home", "load", "store"}
  /\ row \in Rows

\* The text laid out on paper that never ends: the position, the first row that
\* is still visible, and what was typed where.
Paper(str) ==
  LET Settle(p) == LET q == IF p.col = colMax THEN [p EXCEPT !.col = 0, !.row = @ + 1] ELSE p
                   IN  IF q.row >= q.top + rowMax
                       THEN [q EXCEPT !.top = q.row - rowMax + 1, !.col = 0] ELSE q
      Type(p, c) == Settle([p EXCEPT !.ink = [at \in DOMAIN @ \cup {<<p.row, p.col>>} |->
                                                IF at = <<p.row, p.col>> THEN c ELSE @[at]],
                                     !.col = @ + 1])
      Back(p) == IF p.col > 0 THEN [p EXCEPT !.col = @ - 1]
                 ELSE IF p.row > p.top THEN [p EXCEPT !.row = @ - 1, !.col = colMax - 1]
                 ELSE p
      Erase(p) == [Type(p, " ") EXCEPT !.row = p.row, !.col = p.col, !.top = p.top]
      Step(p, c) ==
        CASE c = "\\n" -> Settle([p EXCEPT !.row = @ + 1, !.col = 0])
          [] c = "\\r" -> [p EXCEPT !.col = 0]
          [] c = "\\b" -> Erase(Back(p))
          [] c = "\\t" -> FoldLeft(Type, p, [i \in 1 .. TAB_SIZE - (p.col % TAB_SIZE) |-> " "])
          [] OTHER    -> Type(p, c)
  IN  FoldLeft(Step, [row |-> 0, col |-> 0, top |-> 0, ink |-> <<>>], str)

\* With nothing to interrupt it, the console shows the last rowMax lines of the
\* text laid out on endless paper, and the screen shows what log has written:
\* wrapping, scrolling, tabs and backspaces lose and leave over nothing, and
\* nothing is in the margin.
ScreenShowsText ==
  phase = "off" /\ pc \in {"idle", "next"} =>
    LET p == Paper(text)
        Seen(r, c) == IF <<p.top + r, c>> \in DOMAIN p.ink THEN p.ink[<<p.top + r, c>>] ELSE " "
    IN  /\ vga.x = p.col /\ vga.y = p.row - p.top
        /\ vga.cells = [r \in Rows |-> [c \in Drawn |-> Seen(r, c)]]
        /\ pc = "idle" => FRAMEBUFFER = vga.cells

\* Whatever handlers did meanwhile, the cursor is on the screen whenever the
\* thread is not moving it, so the thread renders on the screen.  A handler that
\* comes while it moves finds the cursor at most one step off: it may render
\* into the margin, and past the end of BACKBUFFER if it comes between the
\* increment of cursorY and the end of ensureCursorInRange, and only then.
CursorInRange ==
  /\ ConsoleTypeOK
  /\ vga.x <= colMax /\ vga.y <= rowMax
  /\ pc \in {"idle", "next", "put", "load", "store"} => InRange(vga)
  /\ vga.past \subseteq {"wrap", "scroll", "home"}
  /\ vga.past # {} => phase \in {"on", "user"}

\* kmemcpy_128 is a memcpy: the registers hold the row that it loaded until it
\* has stored them.
CopyIsExact == pc = "store" => xmm = loaded

\* "No graphic output before we initialize everything": until vga_ready the
\* screen shows what the firmware left there.
NoEarlyOutput ==
  phase \in {"map", "back", "background"} => \A r \in Rows : FRAMEBUFFER[r] = Firmware
==============================================================================
