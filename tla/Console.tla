------------------------------ MODULE Console ------------------------------
(***************************************************************************)
(* The running kernel: the main flow prints on the console                 *)
(* (baseConsole.c, over DrawChar and FillScreen of baseGraphic.c), and the *)
(* interrupts of the timer (timer.c), which prints as well, and of the     *)
(* keyboard come in between (idt.c, apic.c).                               *)
(*                                                                         *)
(* A character's image is one pixel.  There is no back buffer: nothing     *)
(* ever sets it.  A handler runs behind an interrupt gate, so it is one    *)
(* step; the main flow takes one step per access to what they share.       *)
(***************************************************************************)
EXTENDS Integers

CONSTANTS Width, Height,    \* of the screen, in characters
          con_tab,
          Geometries,       \* of the frame buffer: pixels per scan line and in all
          EVERY,            \* ticks to each character of the timer's: 1000
          Leftovers,        \* interrupts the firmware may have left pending
          MaxExpirations, MaxKeys, \* bounds: interrupts of the timers, of keys
          Texts             \* bound: the kinds of characters the main flow prints, and
                            \* how many of them: a behaviour has one text

ASSUME ScreenAssumption ==
    /\ Width \in Nat \ {0} /\ Width % 2 = 0 /\ Height \in Nat \ {0}
    /\ con_tab \in Nat \ {0} /\ EVERY \in Nat \ {0}
    /\ Geometries \subseteq [stride : Nat, size : Nat]
    /\ \A g \in Geometries : g.stride >= Width /\ g.size >= g.stride * Height /\ g.size % 2 = 0
    /\ Leftovers \subseteq SUBSET (0 .. 255)

VARIABLES
    geo,        \* the frame buffer's geometry
    con,        \* cursor, pixels, and whether one beyond them was written
    main,       \* where the main flow is, what it prints, a register of it
    interrupts, \* the interrupt flag
    irr, isr,   \* the local APIC's requests, and what is in service
    ticks,      \* timer_ticks
    fate,       \* "runs" or "halted"
    text,       \* the kinds of characters printed, and how many are left
    came,       \* how many interrupts the timers and the keyboard have requested
    sheet,      \* ghost: what was printed, on a sheet without end
    disturbed   \* ghost: a handler has printed while the main flow was printing

vars == <<geo, con, main, interrupts, irr, isr, ticks, fate, text, came, sheet, disturbed>>
hardware == <<interrupts, irr, isr, ticks, fate, came>>

TIMER == 32
KEYBOARD == 33
SPURIOUS == 255                 \* the vector of spurious interrupts in the SVR
Gates == 0 .. 47                \* what idt_init installs

Pixels == 0 .. geo.size - 1

-----------------------------------------------------------------------------
(* The console as a handler uses it: in one go *)

\* DrawChar clips nothing.
DrawChar(c, ch) ==
    LET p == c.y * geo.stride + c.x IN
    IF p \in Pixels THEN [c EXCEPT !.fb[p] = ch] ELSE [c EXCEPT !.stray = TRUE]

\* scroll_up counts in lines of Width pixels, and copies and clears two at a time.
CopyUp(c) ==
    [c EXCEPT !.fb = [p \in Pixels |->
        IF p < 2 * ((geo.size - Width) \div 2) THEN c.fb[p + Width] ELSE c.fb[p]]]
ClearBottom(c) ==
    [c EXCEPT !.fb = [p \in Pixels |-> IF p >= geo.size - Width THEN "space" ELSE c.fb[p]]]
scroll_up(c) == ClearBottom(CopyUp(c))

newline(c) ==
    IF c.y + 1 >= Height THEN [scroll_up(c) EXCEPT !.x = 0, !.y = Height - 1]
    ELSE [c EXCEPT !.x = 0, !.y = @ + 1]

\* console_putchar of a printable character.
console_putchar(c, ch) ==
    LET d == [DrawChar(c, ch) EXCEPT !.x = @ + 1] IN
    IF d.x >= Width THEN newline(d) ELSE d

FillScreen(c) ==
    [c EXCEPT !.fb = [p \in Pixels |->
        IF p % geo.stride < Width /\ p \div geo.stride < Height THEN "space" ELSE c.fb[p]]]

NextTab(x) == ((x + con_tab) \div con_tab) * con_tab

-----------------------------------------------------------------------------
(* The same text on a sheet of paper without end: its written cells and the *)
(* pen.  The screen shows the last lines.                                   *)

NewLine(s) == [s EXCEPT !.x = 0, !.line = @ + 1]
Advance(s, x) == IF x >= Width THEN NewLine(s) ELSE [s EXCEPT !.x = x]
Put(s, ch) ==
    [s EXCEPT !.ink = {i \in @ : <<i[1], i[2]>> # <<s.line, s.x>>} \cup {<<s.line, s.x, ch>>}]

Write(s, ch) ==
    CASE ch = "\n" -> NewLine(s)
      [] ch = "\r" -> [s EXCEPT !.x = 0]
      [] ch = "\t" -> Advance(s, NextTab(s.x))
      [] ch = "erase" -> IF s.x = 0 THEN s ELSE Put([s EXCEPT !.x = @ - 1], "space")
      [] ch = "clear" -> [ink |-> {}, line |-> 0, x |-> 0]
      [] OTHER -> Advance(Put(s, ch), s.x + 1)

Shown(line, x) ==
    IF \E i \in sheet.ink : i[1] = line /\ i[2] = x
      THEN (CHOOSE i \in sheet.ink : i[1] = line /\ i[2] = x)[3]
      ELSE "space"
Top == IF sheet.line < Height THEN 0 ELSE sheet.line - Height + 1

-----------------------------------------------------------------------------
(* The main flow *)

Idle == main.at = "idle"

Printable == {"A", "T"}

ASSUME TextsAssumption ==
    Texts \subseteq [chars : SUBSET (Printable \cup {"\n", "\r", "\t", "erase", "clear"}),
                    left : Nat]

\* console_putchar, or console_clear, begins.
Begin(ch) ==
    /\ Idle /\ fate = "runs"
    /\ ch \in text.chars /\ text.left > 0
    /\ text' = [text EXCEPT !.left = @ - 1]
    /\ main' = [at |-> CASE ch \in Printable -> "draw"    [] ch = "\n" -> "newline"
                         [] ch = "\t" -> "tab"            [] ch = "\r" -> "return"
                         [] ch = "erase" -> "backspace"      [] ch = "clear" -> "clear",
                ch |-> ch, reg |-> 0]
    /\ sheet' = IF disturbed THEN sheet ELSE Write(sheet, ch)
    /\ UNCHANGED <<geo, con, hardware, disturbed>>

\* One step of the main flow: register and console are what they become.
Step(from, to, reg, c) ==
    /\ main.at = from /\ fate = "runs"
    /\ main' = [main EXCEPT !.at = to, !.reg = reg]
    /\ con' = c
    /\ UNCHANGED <<geo, hardware, text, sheet, disturbed>>

Draw == Step("draw", "advance", 0, DrawChar(con, main.ch))
ReadX == Step("advance", "store", con.x + 1, con)

\* A bug: one column too many.
StoreXPastEnd ==
    Step("store", IF main.reg > Width THEN "newline" ELSE "idle", main.reg,
         [con EXCEPT !.x = main.reg])

StoreX ==
    Step("store", IF main.reg >= Width THEN "newline" ELSE "idle", main.reg,
         [con EXCEPT !.x = main.reg])

Tab == Step("tab", "store", NextTab(con.x), con)
Return == Step("return", "idle", 0, [con EXCEPT !.x = 0])
Backspace == Step("backspace", IF con.x > 0 THEN "back" ELSE "idle", con.x - 1, con)
Back == Step("back", "erase", 0, [con EXCEPT !.x = main.reg])
Erase == Step("erase", "idle", 0, DrawChar(con, "space"))

NewlineX == Step("newline", "down", 0, [con EXCEPT !.x = 0])
ReadY == Step("down", "below", con.y + 1, con)

\* A bug: one row too many.
StoreYPastEnd ==
    Step("below", IF main.reg > Height THEN "copy" ELSE "idle", main.reg,
         [con EXCEPT !.y = main.reg])

StoreY ==
    Step("below", IF main.reg >= Height THEN "copy" ELSE "idle", main.reg,
         [con EXCEPT !.y = main.reg])

\* A bug: the bottom line keeps its text.
Keep == Step("blank", "last", 0, con)

Copy == Step("copy", "blank", 0, CopyUp(con))
Blank == Step("blank", "last", 0, ClearBottom(con))
Last == Step("last", "idle", 0, [con EXCEPT !.y = Height - 1])

Fill == Step("clear", "home", 0, FillScreen(con))
HomeX == Step("home", "top", 0, [con EXCEPT !.x = 0])
HomeY == Step("top", "idle", 0, [con EXCEPT !.y = 0])

Printing ==
    \/ Draw \/ ReadX \/ StoreX \/ Tab \/ Return \/ Backspace \/ Back \/ Erase
    \/ NewlineX \/ ReadY \/ StoreY \/ Copy \/ Blank \/ Last \/ Fill \/ HomeX \/ HomeY

\* interrupts_enable, after timer_init, between two prints.
interrupts_enable ==
    /\ Idle /\ ~interrupts /\ fate = "runs"
    /\ interrupts' = TRUE
    /\ UNCHANGED <<geo, con, main, irr, isr, ticks, fate, text, came, sheet, disturbed>>

-----------------------------------------------------------------------------
(* Interrupts *)

Request(v) ==
    /\ fate = "runs"
    /\ irr' = irr \cup {v}
    /\ UNCHANGED <<geo, con, main, interrupts, isr, ticks, fate, text, sheet, disturbed>>

\* The local APIC's timer, and channel 0 of the PIT behind IRQ0, have one vector:
\* requests of both, and those that come before the last one was taken, are one.
TimerExpires ==
    came.timer < MaxExpirations /\ came' = [came EXCEPT !.timer = @ + 1] /\ Request(TIMER)
KeyComes ==
    came.keys < MaxKeys /\ came' = [came EXCEPT !.keys = @ + 1] /\ Request(KEYBOARD)
Spurious ==
    interrupts /\ ~came.spurious /\ came' = [came EXCEPT !.spurious = TRUE] /\ Request(SPURIOUS)

\* A handler prints ch: on the sheet it is in its place if the main flow is not
\* printing.
Prints(c, ch) ==
    /\ con' = c
    /\ IF Idle THEN UNCHANGED disturbed ELSE disturbed' = TRUE
    /\ sheet' = IF Idle /\ ~disturbed THEN Write(sheet, ch) ELSE sheet

\* A bug: no end of interrupt.
timer_handler_no_eoi ==
    /\ ticks' = ticks + 1
    /\ IF ticks' % EVERY = 0
         THEN Prints(console_putchar(con, "T"), "T")
         ELSE UNCHANGED <<con, sheet, disturbed>>
    /\ isr' = isr \cup {TIMER} /\ UNCHANGED fate

timer_handler ==
    /\ ticks' = ticks + 1
    /\ IF ticks' % EVERY = 0
         THEN Prints(console_putchar(con, "T"), "T")
         ELSE UNCHANGED <<con, sheet, disturbed>>
    /\ UNCHANGED <<isr, fate>>

\* The handler of an exception: it prints, on a line of its own, and halts.
Exception(v) ==
    /\ fate' = "halted"
    /\ isr' = isr \cup {v}
    /\ con' = console_putchar(newline(con), "!")
    /\ disturbed' = TRUE /\ UNCHANGED <<ticks, sheet>>

\* The end of interrupt, by the keyboard's handler, or for one that has no handler.
EndOfInterrupt == UNCHANGED <<isr, fate, ticks, con, sheet, disturbed>>

\* The stub saves what the main flow was about and brings it back.  A vector that
\* has no gate makes an exception.
interrupt_common_handler(v) ==
    CASE v = TIMER -> timer_handler
      [] v \notin Gates -> Exception(v)
      [] OTHER -> EndOfInterrupt

\* The processor takes the highest request, if its class is above the one in service.
Interrupt ==
    /\ interrupts /\ fate = "runs"
    /\ \E v \in irr :
          /\ \A w \in irr : w <= v
          /\ \A w \in isr : v \div 16 > w \div 16
          /\ irr' = irr \ {v}
          /\ interrupt_common_handler(v)
    /\ UNCHANGED <<geo, main, interrupts, text, came>>

-----------------------------------------------------------------------------

\* Earlier text has left the cursor somewhere, and nothing of it is shown.
Init ==
    /\ geo \in Geometries
    /\ \E x \in 0 .. Width - 1, y \in 0 .. Height - 1 :
           /\ con = [x |-> x, y |-> y, fb |-> [p \in 0 .. geo.size - 1 |-> "space"],
                     stray |-> FALSE]
           /\ sheet = [ink |-> {}, line |-> y, x |-> x]
    /\ main = [at |-> "idle", ch |-> "space", reg |-> 0]
    /\ interrupts = FALSE /\ irr \in Leftovers /\ isr = {}
    /\ ticks = 0 /\ fate = "runs" /\ text \in Texts
    /\ came = [timer |-> 0, keys |-> 0, spurious |-> FALSE]
    /\ disturbed = FALSE

Next ==
    \/ \E ch \in text.chars : Begin(ch)
    \/ Printing \/ interrupts_enable \/ Interrupt
    \/ TimerExpires \/ KeyComes \/ Spurious

\* The processor goes on with what it has begun, takes interrupts that are
\* allowed, and the main flow gets to the end of the boot sequence.
Spec ==
    /\ Init /\ [][Next]_vars
    /\ WF_vars(Printing) /\ WF_vars(Interrupt) /\ WF_vars(interrupts_enable)

-----------------------------------------------------------------------------
(* Properties *)

Characters == {"A", "T", "!", "space"}

\* Every variable has a value of its kind; and whatever interrupted the main flow,
\* and lost an update of the cursor or saw half of one, the cursor is on the
\* screen whenever nothing is being printed.
TypeOK ==
    /\ con.x \in Nat /\ con.y \in Nat /\ con.stray \in BOOLEAN
    /\ con.fb \in [Pixels -> Characters]
    /\ irr \subseteq 0 .. 255 /\ isr \subseteq 0 .. 255 /\ ticks \in Nat
    /\ fate \in {"runs", "halted"} /\ interrupts \in BOOLEAN /\ disturbed \in BOOLEAN
    /\ Idle => con.x < Width /\ con.y < Height

\* Unless a handler printed in the middle of it, the text is on the screen as on
\* the sheet, its last lines, and the cursor where the pen is: on a frame buffer
\* without padding, or as long as nothing was scrolled.
ScreenTrue ==
    /\ Idle /\ ~disturbed
    /\ geo.size = Width * Height \/ Top = 0
    => /\ con.x = sheet.x /\ con.y = sheet.line - Top
       /\ \A y \in 0 .. Height - 1, x \in 0 .. Width - 1 :
              con.fb[y * geo.stride + x] = Shown(Top + y, x)

\* Memory beyond the frame buffer is written only by the timer's character, when
\* it comes between the main flow's taking the cursor over an edge and its
\* bringing it back.
StraysExplained ==
    [][con'.stray /\ ~con.stray =>
          /\ main' = main /\ ticks' # ticks
          /\ main.at \in {"newline", "copy", "blank", "last"}]_vars

\* What was requested is served: with the interrupts on, every request is taken and
\* every printing ends, and the main flow waits for more; unless an interrupt
\* came that has no gate.
EverythingServed ==
    (irr # {} \/ ~Idle) ~> ((irr = {} /\ isr = {} /\ Idle) \/ fate = "halted")

=============================================================================
