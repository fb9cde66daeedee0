------------------------------- MODULE Screen -------------------------------
(***************************************************************************)
(* The user program's picture on the screen, dvd_bounce of os/src/Main.c,  *)
(* while interrupt handlers of the kernel log to the same screen, VGA.c.   *)
(*                                                                         *)
(* Memory is counted in pixels.  Kernel and program both map the frame     *)
(* buffer with its length in pages rounded down, and both copy all of it.  *)
(* What follows a mapping is the next span of the heap: for the kernel the *)
(* liballoc header of BACKBUFFER and then BACKBUFFER itself, for the       *)
(* program the block original (UserProgram checks that it lies there).     *)
(* The copies reach into it.                                               *)
(***************************************************************************)
EXTENDS Integers

CONSTANTS
  Width, Height,  \* of the screen
  Side,           \* of the square, 100 in the source
  PagePixels,     \* pixels in a page
  Header,         \* pixels that the header of BACKBUFFER takes
  Glyphs,         \* pixels at which the kernel's texts are drawn
  MaxLogs         \* bound on the texts logged by handlers

Total == Width * Height
Pixels == 0 .. Total - 1

\* fb_size / PAGE_SIZE pages, and the rest.
Whole == (Total \div PagePixels) * PagePixels
Rest == Total - Whole

ASSUME ScreenAssumption ==
  /\ {Width, Height, Side, PagePixels, Header, MaxLogs} \subseteq Nat \ {0}
  /\ Side < Width /\ Side < Height
  /\ Rest <= Whole /\ Header <= Rest
  /\ Glyphs \subseteq Pixels

VARIABLES
  screen,      \* the pixels of the frame buffer
  BACKBUFFER,  \* the kernel's copy
  original, backbuffer, x, y, dx, dy,  \* the variables of dvd_bounce
  pc, i,       \* where the program is, and the pixel its memcpy is at
  logs,        \* texts logged
  text,        \* history: the pixels that the kernel's texts cover
  shot,        \* history: original as it was first filled
  disturbed    \* history: a text was logged during the current memcpy to the screen

console == <<BACKBUFFER, text, logs>>
square == <<x, y, dx, dy>>
picture == <<screen, console, original, backbuffer, square, pc, i, shot, disturbed>>

Colours == {"firmware", "background", "text", "square"}
Blank == [p \in Pixels |-> "background"]

------------------------------------------------------------------------------
(* The kernel: VGA.c *)

\* swapBuffers writes the pixels of the buffer from Whole on over the header
\* of BACKBUFFER, and over its first pixels.
PastBack(buffer) ==
  [p \in Pixels |-> IF p + Header < Rest THEN buffer[Whole + Header + p] ELSE buffer[p]]

swapBuffers(buffer) ==
  /\ screen' = [p \in Pixels |-> IF p < Whole THEN buffer[p] ELSE screen[p]]
  /\ BACKBUFFER' = PastBack(buffer)

\* render, of a glyph at p.
Render(p) ==
  /\ swapBuffers([BACKBUFFER EXCEPT ![p] = "text"])
  /\ text' = text \cup {p}

\* scrollUp, by one line of the screen.
ScrollUp(buffer) ==
  [p \in Pixels |-> IF p + Width < Total /\ buffer[p + Width] = "text"
                    THEN "text" ELSE "background"]

Scroll ==
  /\ swapBuffers(ScrollUp(BACKBUFFER))
  /\ text' = {p \in Pixels : p + Width \in text}

\* A handler logs: irq0_handler, printKey.
Log ==
  /\ logs < MaxLogs
  /\ logs' = logs + 1
  /\ (\E p \in Glyphs : Render(p)) \/ Scroll
  /\ disturbed' = TRUE
  /\ UNCHANGED <<original, backbuffer, square, pc, i, shot>>

------------------------------------------------------------------------------
(* The program: dvd_bounce *)

\* Pixel p of the frame buffer as the program reads it.
FrameAt(p) == IF p < Whole THEN screen[p] ELSE original[p - Whole]

\* memcpy(original, fb_ptr, FB_SIZE), a pixel at a time.
Shoot ==
  /\ pc = "shoot"
  /\ original' = [original EXCEPT ![i] = FrameAt(i)]
  /\ IF i + 1 < Total THEN i' = i + 1 /\ UNCHANGED <<pc, shot>>
                      ELSE i' = 0 /\ pc' = "draw" /\ shot' = original'
  /\ UNCHANGED <<screen, console, backbuffer, square, disturbed>>

InSquare(p) ==
  /\ p % Width \in x .. x + Side - 1
  /\ p \div Width \in y .. y + Side - 1

\* A fault: the square is drawn over the previous one.
DrawOver ==
  /\ pc = "draw"
  /\ backbuffer' = [p \in Pixels |-> IF InSquare(p) THEN "square" ELSE backbuffer[p]]
  /\ pc' = "show" /\ disturbed' = FALSE
  /\ UNCHANGED <<screen, console, original, square, i, shot>>

\* memcpy(backbuffer, original, FB_SIZE) and the square.
Draw ==
  /\ pc = "draw"
  /\ backbuffer' = [p \in Pixels |-> IF InSquare(p) THEN "square" ELSE original[p]]
  /\ pc' = "show" /\ disturbed' = FALSE
  /\ UNCHANGED <<screen, console, original, square, i, shot>>

\* A fault: one page less of the frame buffer is mapped.
PutFrameFewer(p, colour) ==
  IF p < Whole - PagePixels
  THEN screen' = [screen EXCEPT ![p] = colour] /\ UNCHANGED original
  ELSE original' = [original EXCEPT ![p + PagePixels - Whole] = colour] /\ UNCHANGED screen

\* memcpy(fb_ptr, backbuffer, FB_SIZE), a pixel at a time.
PutFrame(p, colour) ==
  IF p < Whole
  THEN screen' = [screen EXCEPT ![p] = colour] /\ UNCHANGED original
  ELSE original' = [original EXCEPT ![p - Whole] = colour] /\ UNCHANGED screen

Show ==
  /\ pc = "show"
  /\ PutFrame(i, backbuffer[i])
  /\ IF i + 1 < Total THEN i' = i + 1 /\ UNCHANGED pc ELSE i' = 0 /\ pc' = "move"
  /\ UNCHANGED <<console, backbuffer, square, shot, disturbed>>

\* A fault: the position is bounced one step too late.
BounceLate(at, d, room) == IF at + Side > room \/ at < 0 THEN -d ELSE d

\* A fault: the square stays at the edges.
BounceStops(at, d, room) == IF at + Side >= room \/ at <= 0 THEN 0 ELSE d

\* The direction after a step to at.
Bounce(at, d, room) == IF at + Side >= room \/ at <= 0 THEN -d ELSE d

Move ==
  /\ pc = "move"
  /\ x' = x + dx /\ y' = y + dy
  /\ dx' = Bounce(x', dx, Width)
  /\ dy' = Bounce(y', dy, Height)
  /\ pc' = "draw"
  /\ UNCHANGED <<screen, console, original, backbuffer, i, shot, disturbed>>

dvd_bounce == Shoot \/ Draw \/ Show \/ Move

\* The kernel has shown its first picture; what malloc returns holds anything.
ScreenInit ==
  /\ screen = [p \in Pixels |-> IF p < Whole THEN "background" ELSE "firmware"]
  /\ BACKBUFFER = Blank
  /\ original = Blank /\ backbuffer = Blank /\ shot = Blank
  /\ x = 0 /\ y = 0 /\ dx = 1 /\ dy = 1
  /\ pc = "shoot" /\ i = 0
  /\ logs = 0 /\ text = {} /\ disturbed = FALSE

ScreenNext == Log \/ dvd_bounce

\* Fairness is stated in UserProgram.
ScreenSafety == ScreenInit /\ [][ScreenNext]_picture

------------------------------------------------------------------------------
(* Properties *)

\* Every variable has its type; in particular the square is always whole on
\* the screen, so drawing it stays inside backbuffer and does not wrap to
\* another line.
ScreenTypeOK ==
  /\ {screen, BACKBUFFER, original, backbuffer, shot} \subseteq [Pixels -> Colours]
  /\ x \in 0 .. Width - Side /\ y \in 0 .. Height - Side /\ dx \in {-1, 1} /\ dy \in {-1, 1}
  /\ pc \in {"shoot", "draw", "show", "move"} /\ i \in Pixels
  /\ logs \in 0 .. MaxLogs /\ text \subseteq Pixels /\ disturbed \in BOOLEAN

\* The copies that overrun their mapping damage no more than the pixels right
\* behind it: BACKBUFFER holds the kernel's texts but for its first Rest -
\* Header pixels, original is as it was filled but for its first Rest pixels,
\* and the last Rest pixels of the screen are never drawn.
BuffersKept ==
  /\ \A p \in Pixels : p + Header >= Rest =>
       BACKBUFFER[p] = IF p \in text THEN "text" ELSE "background"
  /\ pc # "shoot" => \A p \in Pixels : p >= Rest => original[p] = shot[p]
  /\ \A p \in Pixels : p >= Whole => screen[p] = "firmware"

\* When the program has copied its picture and no handler logged meanwhile,
\* the screen shows the first picture with the square at its place, but for
\* the first and the last Rest pixels.
FrameShown ==
  pc = "move" /\ ~disturbed =>
    \A p \in Rest .. Whole - 1 :
      screen[p] = IF InSquare(p) THEN "square" ELSE shot[p]

\* Once the program has begun to copy the screen, the square comes to every
\* edge again and again.
BouncesForever ==
  <>(i > 0) => /\ []<>(x = 0) /\ []<>(x + Side = Width)
               /\ []<>(y = 0) /\ []<>(y + Side = Height)
=============================================================================
