--------------------------- MODULE Console_proofs ---------------------------
(***************************************************************************)
(* The cursor comes back to the screen whatever interrupts the main flow,  *)
(* a stray character is the timer's, and without one the screen shows the  *)
(* text, for screens of all sizes, all frame buffers, texts and tabs.      *)
(***************************************************************************)
EXTENDS Console, TLAPS

-----------------------------------------------------------------------------
(* The cursor *)

Consoles == [x : Nat, y : Nat, fb : [Pixels -> Characters], stray : BOOLEAN]

Places == {"idle", "draw", "advance", "store", "tab", "return", "backspace", "back",
           "erase", "newline", "down", "below", "copy", "blank", "last", "clear",
           "home", "top"}
Kinds == Printable \cup {"\n", "\r", "\t", "erase", "clear", "space"}

\* Between the store of a cursor beyond the right or the lower edge and the store
\* that brings it back, the cursor is off the screen.
OffRight == {"newline"}
OffBelow == {"copy", "blank", "last"}

CursorOk(c, at) ==
    /\ at \notin OffRight => c.x < Width
    /\ c.y <= Height
    /\ at \notin OffBelow => c.y < Height

\* What the main flow has in its register.
RegisterOk(at, reg) ==
    /\ at \in {"store", "back"} => reg \in Nat
    /\ at = "back" => reg < Width
    /\ at = "below" => reg \in 1 .. Height

TypeInv ==
    /\ geo \in Geometries
    /\ con \in Consoles
    /\ main \in [at : Places, ch : Kinds, reg : Int]
    /\ main.at = "draw" => main.ch \in Printable
    /\ text \in [chars : SUBSET (Kinds \ {"space"}), left : Int]
    /\ irr \subseteq 0 .. 255 /\ isr \subseteq 0 .. 255 /\ ticks \in Nat
    /\ fate \in {"runs", "halted"} /\ interrupts \in BOOLEAN /\ disturbed \in BOOLEAN

IInv == TypeInv /\ CursorOk(con, main.at) /\ RegisterOk(main.at, main.reg)

-----------------------------------------------------------------------------
(* The sheet and the screen *)

Sheets == [ink : SUBSET (Nat \X Nat \X Characters), line : Nat, x : 0 .. Width - 1]

\* Every cell has at most one character, and none lies below the pen's line.
SheetOk(s) ==
    /\ s \in Sheets
    /\ \A i \in s.ink : i[1] <= s.line
    /\ \A i, j \in s.ink : i[1] = j[1] /\ i[2] = j[2] => i = j

TopOf(s) == IF s.line < Height THEN 0 ELSE s.line - Height + 1
ShownOn(s, line, x) ==
    IF \E i \in s.ink : i[1] = line /\ i[2] = x
      THEN (CHOOSE i \in s.ink : i[1] = line /\ i[2] = x)[3]
      ELSE "space"

\* Where the screen is promised to show the sheet; and cursor and pixels do.
Seen(g, s) == g.size = Width * Height \/ TopOf(s) = 0
Picture(g, s, y, fb) ==
    Seen(g, s) =>
        /\ y = s.line - TopOf(s)
        /\ \A r \in 0 .. Height - 1, k \in 0 .. Width - 1 :
               fb[r * g.stride + k] = ShownOn(s, TopOf(s) + r, k)
Shows(g, s, x, y, fb) == (Seen(g, s) => x = s.x) /\ Picture(g, s, y, fb)

PixelsOf(g) == 0 .. g.size - 1
Drawn(g, fb, x, y, ch) == [fb EXCEPT ![y * g.stride + x] = ch]
Copied(g, fb) ==
    [p \in PixelsOf(g) |-> IF p < 2 * ((g.size - Width) \div 2) THEN fb[p + Width] ELSE fb[p]]
Cleared(g, fb) == [p \in PixelsOf(g) |-> IF p >= g.size - Width THEN "space" ELSE fb[p]]
Filled(g, fb) ==
    [p \in PixelsOf(g) |->
        IF p % g.stride < Width /\ p \div g.stride < Height THEN "space" ELSE fb[p]]

\* What the rest of newline will make of it, and the rest of an advance to x.
ShowsBelow(g, s, y, fb) ==
    IF y + 1 >= Height THEN Shows(g, s, 0, Height - 1, Cleared(g, Copied(g, fb)))
                       ELSE Shows(g, s, 0, y + 1, fb)
ShowsFrom(g, s, x, y, fb) ==
    IF x >= Width THEN ShowsBelow(g, s, y, fb) ELSE Shows(g, s, x, y, fb)

\* At every point of the main flow: what it has still to do makes the screen show
\* the sheet.
Pending(g, s, c, at, ch, reg) ==
    /\ at = "idle" => Shows(g, s, c.x, c.y, c.fb)
    /\ at = "draw" => ShowsFrom(g, s, c.x + 1, c.y, Drawn(g, c.fb, c.x, c.y, ch))
    /\ at = "advance" => ShowsFrom(g, s, c.x + 1, c.y, c.fb)
    /\ at = "store" => ShowsFrom(g, s, reg, c.y, c.fb)
    /\ at = "tab" => ShowsFrom(g, s, NextTab(c.x), c.y, c.fb)
    /\ at = "return" => Shows(g, s, 0, c.y, c.fb)
    /\ at = "backspace" =>
          IF c.x > 0 THEN Shows(g, s, c.x - 1, c.y, Drawn(g, c.fb, c.x - 1, c.y, "space"))
                     ELSE Shows(g, s, c.x, c.y, c.fb)
    /\ at = "back" => Shows(g, s, reg, c.y, Drawn(g, c.fb, reg, c.y, "space"))
    /\ at = "erase" => Shows(g, s, c.x, c.y, Drawn(g, c.fb, c.x, c.y, "space"))
    /\ at \in {"newline", "down"} => ShowsBelow(g, s, c.y, c.fb)
    /\ at = "below" =>
          IF reg >= Height THEN Shows(g, s, 0, Height - 1, Cleared(g, Copied(g, c.fb)))
                           ELSE Shows(g, s, 0, reg, c.fb)
    /\ at = "copy" => Shows(g, s, 0, Height - 1, Cleared(g, Copied(g, c.fb)))
    /\ at = "blank" => Shows(g, s, 0, Height - 1, Cleared(g, c.fb))
    /\ at = "last" => Shows(g, s, 0, Height - 1, c.fb)
    /\ at = "clear" => Shows(g, s, 0, 0, Filled(g, c.fb))
    /\ at \in {"home", "top"} => Shows(g, s, 0, 0, c.fb)
    /\ at \in {"down", "below", "copy", "blank", "last", "top"} => c.x = 0

ScreenInv ==
    /\ SheetOk(sheet)
    /\ ~disturbed => Pending(geo, sheet, con, main.at, main.ch, main.reg)

-----------------------------------------------------------------------------
(* Numbers *)

LEMMA Sizes ==
    /\ Width \in Nat \ {0} /\ Height \in Nat \ {0} /\ Width % 2 = 0
    /\ con_tab \in Nat \ {0} /\ EVERY \in Nat \ {0}
BY ScreenAssumption

LEMMA GeometryFacts ==
    ASSUME NEW g \in Geometries
    PROVE  /\ g.stride \in Nat \ {0} /\ g.size \in Nat
           /\ g.stride >= Width /\ g.size >= g.stride * Height /\ g.size % 2 = 0
BY ScreenAssumption

\* The rows before row h end where it begins.
LEMMA RowsBefore ==
    ASSUME NEW y \in Nat, NEW h \in Nat, NEW n \in Nat, y < h
    PROVE  y * n + n <= h * n /\ y * n \in Nat /\ h * n \in Nat
<1>1. h - y \in Nat /\ h - y >= 1
  OBVIOUS
<1>2. (h - y) * n >= n
  BY <1>1
<1>3. (h - y) * n = h * n - y * n
  OBVIOUS
<1> QED
  BY <1>2, <1>3

\* A cell of the screen has a pixel in the frame buffer.
LEMMA OnScreen ==
    ASSUME NEW g \in Geometries, NEW y \in 0 .. Height - 1, NEW x \in 0 .. Width - 1
    PROVE  y * g.stride + x \in PixelsOf(g)
<1> DEFINE n == g.stride
<1>1. /\ n \in Nat /\ g.size \in Nat /\ n >= Width /\ g.size >= n * Height
      /\ Height \in Nat /\ Width \in Nat
  BY GeometryFacts, Sizes
<1> HIDE DEF n
<1>2. y * n + n <= Height * n /\ y * n \in Nat
  BY <1>1, RowsBefore
<1>3. Height * n = n * Height
  BY <1>1
<1>4. y * n + x \in PixelsOf(g)
  BY <1>1, <1>2, <1>3 DEF PixelsOf
<1> QED
  BY <1>4 DEF n

\* Two cells of the screen have different pixels.
LEMMA OnePixelEach ==
    ASSUME NEW g \in Geometries, NEW y \in Nat, NEW x \in 0 .. Width - 1,
           NEW r \in Nat, NEW k \in 0 .. Width - 1,
           y * g.stride + x = r * g.stride + k
    PROVE  y = r /\ x = k
<1> DEFINE n == g.stride
<1>1. n \in Nat /\ n >= Width /\ Width \in Nat
  BY GeometryFacts, Sizes
<1>2. y * n + x = r * n + k
  OBVIOUS
<1> HIDE DEF n
<1>3. y < r => y * n + n <= r * n
  BY <1>1, RowsBefore
<1>4. r < y => r * n + n <= y * n
  BY <1>1, RowsBefore
<1>5. y * n \in Nat /\ r * n \in Nat
  BY <1>1
<1>6. y = r
  BY <1>1, <1>2, <1>3, <1>4, <1>5
<1> QED
  BY <1>1, <1>2, <1>5, <1>6

\* A tab goes to the right.
LEMMA TabFacts == \A x \in Nat : NextTab(x) \in Nat
<1> SUFFICES ASSUME NEW x \in Nat
             PROVE  NextTab(x) \in Nat
  OBVIOUS
<1>1. con_tab \in Nat \ {0} /\ x + con_tab \in Nat
  BY Sizes
<1>2. (x + con_tab) \div con_tab \in Nat
  BY <1>1
<1> QED
  BY <1>1, <1>2 DEF NextTab

-----------------------------------------------------------------------------
(* The console's operations *)

LEMMA DrawFacts ==
    ASSUME geo \in Geometries, NEW c \in Consoles, NEW ch \in Characters
    PROVE  LET d == DrawChar(c, ch)
           IN  /\ d \in Consoles /\ d.x = c.x /\ d.y = c.y
               /\ c.x < Width /\ c.y < Height =>
                     d.stray = c.stray /\ d.fb = Drawn(geo, c.fb, c.x, c.y, ch)
<1> DEFINE p == c.y * geo.stride + c.x
           d == DrawChar(c, ch)
<1>1. /\ c.x \in Nat /\ c.y \in Nat /\ c.fb \in [Pixels -> Characters] /\ c.stray \in BOOLEAN
      /\ c = [x |-> c.x, y |-> c.y, fb |-> c.fb, stray |-> c.stray]
  BY DEF Consoles
<1>2. CASE p \in Pixels
  <2>1. d = [c EXCEPT !.fb[p] = ch]
    BY <1>2 DEF DrawChar
  <2>2. /\ d.x = c.x /\ d.y = c.y /\ d.stray = c.stray
        /\ d.fb = [c.fb EXCEPT ![p] = ch]
        /\ d = [x |-> c.x, y |-> c.y, fb |-> d.fb, stray |-> c.stray]
    BY <1>1, <2>1
  <2>3. d.fb \in [Pixels -> Characters]
    BY <1>1, <2>2
  <2>4. d \in Consoles
    BY <1>1, <2>2, <2>3 DEF Consoles
  <2> QED
    BY <2>2, <2>4 DEF Drawn
<1>3. CASE p \notin Pixels
  <2>1. d = [c EXCEPT !.stray = TRUE]
    BY <1>3 DEF DrawChar
  <2>2. d \in Consoles /\ d.x = c.x /\ d.y = c.y
    BY <1>1, <2>1 DEF Consoles
  <2>3. ~(c.x < Width /\ c.y < Height)
    <3>1. ASSUME c.x < Width, c.y < Height
          PROVE  FALSE
      <4>1. c.x \in 0 .. Width - 1 /\ c.y \in 0 .. Height - 1
        BY <1>1, <3>1, Sizes
      <4>2. p \in PixelsOf(geo)
        BY <4>1, OnScreen
      <4> QED
        BY <4>2, <1>3 DEF Pixels, PixelsOf
    <3> QED
      BY <3>1
  <2> QED
    BY <2>2, <2>3
<1> QED
  BY <1>2, <1>3

LEMMA CopiedTyped ==
    ASSUME NEW g \in Geometries, NEW fb \in [PixelsOf(g) -> Characters]
    PROVE  /\ Copied(g, fb) \in [PixelsOf(g) -> Characters]
           /\ Cleared(g, fb) \in [PixelsOf(g) -> Characters]
           /\ Filled(g, fb) \in [PixelsOf(g) -> Characters]
<1>1. g.size \in Nat /\ Width \in Nat
  BY GeometryFacts, Sizes
<1>2. \A n \in Int : 2 * (n \div 2) <= n
  OBVIOUS
<1>3. \A p \in PixelsOf(g) : p < 2 * ((g.size - Width) \div 2) => p + Width \in PixelsOf(g)
  <2> DEFINE h == 2 * ((g.size - Width) \div 2)
  <2>1. h <= g.size - Width /\ h \in Int
    BY <1>1, <1>2
  <2> HIDE DEF h
  <2>2. \A p \in PixelsOf(g) : p < h => p + Width \in PixelsOf(g)
    BY <1>1, <2>1 DEF PixelsOf
  <2> QED
    BY <2>2 DEF h
<1>4. "space" \in Characters
  BY DEF Characters
<1> QED
  BY <1>3, <1>4 DEF Copied, Cleared, Filled

LEMMA ScrollFacts ==
    ASSUME geo \in Geometries, NEW c \in Consoles
    PROVE  /\ /\ CopyUp(c) \in Consoles
              /\ CopyUp(c).x = c.x /\ CopyUp(c).y = c.y /\ CopyUp(c).stray = c.stray
              /\ CopyUp(c).fb = Copied(geo, c.fb)
           /\ /\ ClearBottom(c) \in Consoles
              /\ ClearBottom(c).x = c.x /\ ClearBottom(c).y = c.y
              /\ ClearBottom(c).stray = c.stray
              /\ ClearBottom(c).fb = Cleared(geo, c.fb)
           /\ /\ FillScreen(c) \in Consoles
              /\ FillScreen(c).x = c.x /\ FillScreen(c).y = c.y
              /\ FillScreen(c).stray = c.stray
              /\ FillScreen(c).fb = Filled(geo, c.fb)
<1>1. Pixels = PixelsOf(geo)
  BY DEF Pixels, PixelsOf
<1>2. c.fb \in [PixelsOf(geo) -> Characters]
  BY <1>1 DEF Consoles
<1>3. /\ Copied(geo, c.fb) \in [Pixels -> Characters]
      /\ Cleared(geo, c.fb) \in [Pixels -> Characters]
      /\ Filled(geo, c.fb) \in [Pixels -> Characters]
  BY <1>1, <1>2, CopiedTyped
<1>4. /\ CopyUp(c) = [c EXCEPT !.fb = Copied(geo, c.fb)]
      /\ ClearBottom(c) = [c EXCEPT !.fb = Cleared(geo, c.fb)]
      /\ FillScreen(c) = [c EXCEPT !.fb = Filled(geo, c.fb)]
  BY DEF CopyUp, ClearBottom, FillScreen, Copied, Cleared, Filled, Pixels, PixelsOf
<1>5. ASSUME NEW f \in [Pixels -> Characters]
      PROVE  LET d == [c EXCEPT !.fb = f]
             IN  /\ d \in Consoles /\ d.fb = f
                 /\ d.x = c.x /\ d.y = c.y /\ d.stray = c.stray
  BY <1>5 DEF Consoles
<1> QED
  BY <1>3, <1>4, <1>5

LEMMA NewlineFacts ==
    ASSUME geo \in Geometries, NEW c \in Consoles
    PROVE  LET d == newline(c)
           IN  /\ d \in Consoles /\ d.x = 0 /\ d.stray = c.stray
               /\ c.y + 1 >= Height =>
                     d.y = Height - 1 /\ d.fb = Cleared(geo, Copied(geo, c.fb))
               /\ ~(c.y + 1 >= Height) => d.y = c.y + 1 /\ d.fb = c.fb
<1> DEFINE d == newline(c)
           s == scroll_up(c)
<1>1. /\ s \in Consoles /\ s.stray = c.stray
      /\ s.fb = Cleared(geo, Copied(geo, c.fb))
  BY ScrollFacts DEF scroll_up
<1>2. c.y \in Nat /\ Height - 1 \in Nat
  BY Sizes DEF Consoles
<1> HIDE DEF s
<1>3. CASE c.y + 1 >= Height
  <2>1. d = [s EXCEPT !.x = 0, !.y = Height - 1]
    BY <1>3 DEF newline, s
  <2> HIDE DEF d
  <2>2. /\ d \in Consoles /\ d.x = 0 /\ d.y = Height - 1
        /\ d.fb = s.fb /\ d.stray = s.stray
    BY <1>1, <1>2, <2>1 DEF Consoles
  <2>3. /\ d \in Consoles /\ d.x = 0 /\ d.y = Height - 1 /\ d.stray = c.stray
        /\ d.fb = Cleared(geo, Copied(geo, c.fb))
    BY <1>1, <2>2
  <2> QED
    BY <1>3, <2>3 DEF d
<1>4. CASE ~(c.y + 1 >= Height)
  <2>1. d = [c EXCEPT !.x = 0, !.y = c.y + 1]
    BY <1>4 DEF newline
  <2> HIDE DEF d
  <2>2. c.y + 1 \in Nat
    BY <1>2
  <2>3. /\ d \in Consoles /\ d.x = 0 /\ d.y = c.y + 1
        /\ d.fb = c.fb /\ d.stray = c.stray
    BY <2>1, <2>2 DEF Consoles
  <2> QED
    BY <1>4, <2>3 DEF d
<1> QED
  BY <1>3, <1>4

\* A handler's character leaves the cursor between the edges, and is drawn on the
\* screen if the cursor is.
LEMMA PutcharFacts ==
    ASSUME geo \in Geometries, NEW c \in Consoles, NEW ch \in Characters
    PROVE  LET d == console_putchar(c, ch)
           IN  /\ d \in Consoles /\ d.x < Width
               /\ c.y <= Height => d.y <= Height
               /\ c.y < Height => d.y < Height
               /\ c.x < Width /\ c.y < Height => d.stray = c.stray
<1> DEFINE e == DrawChar(c, ch)
           f == [e EXCEPT !.x = @ + 1]
           d == console_putchar(c, ch)
<1>1. /\ e \in Consoles /\ e.x = c.x /\ e.y = c.y
      /\ c.x < Width /\ c.y < Height => e.stray = c.stray
  BY DrawFacts
<1> HIDE DEF e
<1>2. /\ f \in Consoles /\ f.x = c.x + 1 /\ f.y = c.y /\ f.stray = e.stray
      /\ f.x \in Nat /\ f.y \in Nat
  BY <1>1 DEF Consoles
<1>3. d = IF f.x >= Width THEN newline(f) ELSE f
  BY DEF console_putchar, e
<1> HIDE DEF f, d
<1>4. CASE f.x >= Width
  <2>1. /\ d \in Consoles /\ d.x = 0 /\ d.stray = f.stray
        /\ f.y + 1 >= Height => d.y = Height - 1
        /\ ~(f.y + 1 >= Height) => d.y = f.y + 1
    BY <1>2, <1>3, <1>4, NewlineFacts
  <2> QED
    BY <1>1, <1>2, <2>1, Sizes DEF d
<1>5. CASE ~(f.x >= Width)
  BY <1>1, <1>2, <1>3, <1>5, Sizes DEF d
<1> QED
  BY <1>4, <1>5

-----------------------------------------------------------------------------
(* The main flow, one access at a time *)

Unfinished == Pending(geo, sheet, con, main.at, main.ch, main.reg)

LEMMA StateFacts ==
    ASSUME IInv
    PROVE  /\ geo \in Geometries /\ con \in Consoles
           /\ con.x \in Nat /\ con.y \in Nat
           /\ main.ch \in Kinds /\ main.reg \in Int
           /\ main.at = "draw" => main.ch \in Characters
           /\ "space" \in Characters /\ "T" \in Characters /\ "!" \in Characters
           /\ CursorOk(con, main.at) /\ RegisterOk(main.at, main.reg)
<1>1. con \in Consoles => con.x \in Nat /\ con.y \in Nat
  BY DEF Consoles
<1> QED
  BY <1>1 DEF IInv, TypeInv, Characters, Printable

\* The cursor is moved: c is what con becomes.
LEMMA Moved ==
    ASSUME NEW d \in Consoles, NEW i \in Nat
    PROVE  /\ LET c == [d EXCEPT !.x = i]
              IN  /\ c \in Consoles /\ c.x = i /\ c.y = d.y
                  /\ c.fb = d.fb /\ c.stray = d.stray
           /\ LET c == [d EXCEPT !.y = i]
              IN  /\ c \in Consoles /\ c.x = d.x /\ c.y = i
                  /\ c.fb = d.fb /\ c.stray = d.stray
BY DEF Consoles

\* The main flow may go on from here to there with this register and console.
MayGo(from, to, reg, c) ==
    /\ to \in Places \ {"draw"} /\ reg \in Int
    /\ c \in Consoles /\ c.stray = con.stray
    /\ CursorOk(c, to) /\ RegisterOk(to, reg)
    /\ Pending(geo, sheet, con, from, main.ch, main.reg)
           => Pending(geo, sheet, c, to, main.ch, reg)

\* Such a step keeps the invariant, writes nothing outside, and what is unfinished
\* after it is what was before, or less.
LEMMA MainStep ==
    ASSUME IInv, NEW from, NEW to, NEW reg, NEW c,
           Step(from, to, reg, c), MayGo(from, to, reg, c)
    PROVE  IInv' /\ con'.stray = con.stray /\ (Unfinished => Unfinished')
<1>0. /\ to \in Places \ {"draw"} /\ reg \in Int
      /\ c \in Consoles /\ c.stray = con.stray
      /\ CursorOk(c, to) /\ RegisterOk(to, reg)
      /\ Pending(geo, sheet, con, from, main.ch, main.reg)
             => Pending(geo, sheet, c, to, main.ch, reg)
  BY DEF MayGo
<1>1. main \in [at : Places, ch : Kinds, reg : Int]
  BY DEF IInv, TypeInv
<1>2. /\ main.at = from /\ main' = [main EXCEPT !.at = to, !.reg = reg] /\ con' = c
      /\ UNCHANGED <<geo, irr, isr, ticks, fate, interrupts, text, sheet, disturbed>>
  BY DEF Step, hardware
<1>3. /\ main'.at = to /\ main'.reg = reg /\ main'.ch = main.ch
      /\ main' \in [at : Places, ch : Kinds, reg : Int]
  BY <1>0, <1>1, <1>2
<1>4. Consoles' = Consoles
  BY <1>2 DEF Consoles, Pixels
<1>5. TypeInv'
  BY <1>0, <1>2, <1>3, <1>4 DEF IInv, TypeInv
<1>6. CursorOk(con, main.at)' /\ RegisterOk(main.at, main.reg)'
  BY <1>0, <1>2, <1>3 DEF CursorOk, RegisterOk
<1>7. Unfinished => Unfinished'
  BY <1>0, <1>2, <1>3 DEF Unfinished
<1> QED
  BY <1>0, <1>2, <1>5, <1>6, <1>7 DEF IInv

LEMMA PrintingStep ==
    ASSUME IInv, Printing
    PROVE  IInv' /\ con'.stray = con.stray /\ (Unfinished => Unfinished')
<1>0. /\ geo \in Geometries /\ con \in Consoles
      /\ con.x \in Nat /\ con.y \in Nat
      /\ main.ch \in Kinds /\ main.reg \in Int
      /\ main.at = "draw" => main.ch \in Characters
      /\ "space" \in Characters
      /\ CursorOk(con, main.at) /\ RegisterOk(main.at, main.reg)
      /\ Width \in Nat \ {0} /\ Height \in Nat \ {0}
  BY StateFacts, Sizes
<1>1. CASE Draw
  <2> DEFINE c == DrawChar(con, main.ch)
  <2>1. main.at = "draw"
    BY <1>1 DEF Draw, Step
  <2>2. con.x < Width /\ con.y < Height
    BY <1>0, <2>1 DEF CursorOk, OffRight, OffBelow
  <2>3. /\ c \in Consoles /\ c.stray = con.stray
        /\ c.x = con.x /\ c.y = con.y /\ c.fb = Drawn(geo, con.fb, con.x, con.y, main.ch)
    BY <1>0, <2>1, <2>2, DrawFacts
  <2> HIDE DEF c
  <2>4. Step("draw", "advance", 0, c)
    BY <1>1 DEF Draw, c
  <2>5. CursorOk(c, "advance") /\ RegisterOk("advance", 0) /\ "advance" \in Places \ {"draw"}
    BY <1>0, <2>1, <2>2, <2>3 DEF CursorOk, RegisterOk, OffRight, OffBelow, Places
  <2>6. Pending(geo, sheet, con, "draw", main.ch, main.reg)
           => Pending(geo, sheet, c, "advance", main.ch, 0)
    BY <1>0, <2>1, <2>2, <2>3 DEF Pending, ShowsFrom, ShowsBelow, CursorOk, OffRight, OffBelow
  <2>7. MayGo("draw", "advance", 0, c)
    BY <1>0, <2>2, <2>3, <2>5, <2>6 DEF MayGo
  <2> QED
    BY <2>4, <2>7, MainStep
<1>2. CASE ReadX
  <2> DEFINE r == con.x + 1
  <2>1. main.at = "advance"
    BY <1>2 DEF ReadX, Step
  <2>2. r \in Nat
    BY <1>0, <2>1
  <2> HIDE DEF r
  <2>3. Step("advance", "store", r, con)
    BY <1>2 DEF ReadX, r
  <2>4. CursorOk(con, "store") /\ RegisterOk("store", r) /\ "store" \in Places \ {"draw"}
    BY <1>0, <2>1, <2>2 DEF CursorOk, RegisterOk, OffRight, OffBelow, Places
  <2>5. Pending(geo, sheet, con, "advance", main.ch, main.reg)
           => Pending(geo, sheet, con, "store", main.ch, r)
    BY <1>0, <2>1, <2>2 DEF Pending, r, ShowsFrom, ShowsBelow, CursorOk, OffRight, OffBelow
  <2>6. MayGo("advance", "store", r, con)
    BY <1>0, <2>2, <2>4, <2>5 DEF MayGo
  <2> QED
    BY <2>3, <2>6, MainStep
<1>3. CASE StoreX
  <2> DEFINE c == [con EXCEPT !.x = main.reg]
  <2>1. main.at = "store"
    BY <1>3 DEF StoreX, Step
  <2>2. main.reg \in Nat
    BY <1>0, <2>1 DEF RegisterOk
  <2>3. /\ c \in Consoles /\ c.stray = con.stray
        /\ c.x = main.reg /\ c.y = con.y /\ c.fb = con.fb
    BY <1>0, <2>1, <2>2, Moved
  <2> HIDE DEF c
  <2>4. CASE main.reg >= Width
    <3>1. Step("store", "newline", main.reg, c)
      BY <1>3, <2>4 DEF StoreX, c
    <3>2. CursorOk(c, "newline") /\ RegisterOk("newline", main.reg) /\ "newline" \in Places \ {"draw"}
      BY <1>0, <2>1, <2>2, <2>3, <2>4 DEF CursorOk, RegisterOk, OffRight, OffBelow, Places
    <3>3. Pending(geo, sheet, con, "store", main.ch, main.reg)
             => Pending(geo, sheet, c, "newline", main.ch, main.reg)
      BY <1>0, <2>1, <2>2, <2>3, <2>4 DEF Pending, ShowsFrom, ShowsBelow
    <3>4. MayGo("store", "newline", main.reg, c)
      BY <1>0, <2>2, <2>3, <3>2, <3>3 DEF MayGo
    <3> QED
      BY <3>1, <3>4, MainStep
  <2>5. CASE ~(main.reg >= Width)
    <3>1. Step("store", "idle", main.reg, c)
      BY <1>3, <2>5 DEF StoreX, c
    <3>2. CursorOk(c, "idle") /\ RegisterOk("idle", main.reg) /\ "idle" \in Places \ {"draw"}
      BY <1>0, <2>1, <2>2, <2>3, <2>5 DEF CursorOk, RegisterOk, OffRight, OffBelow, Places
    <3>3. Pending(geo, sheet, con, "store", main.ch, main.reg)
             => Pending(geo, sheet, c, "idle", main.ch, main.reg)
      BY <1>0, <2>1, <2>2, <2>3, <2>5 DEF Pending, ShowsFrom, ShowsBelow
    <3>4. MayGo("store", "idle", main.reg, c)
      BY <1>0, <2>2, <2>3, <3>2, <3>3 DEF MayGo
    <3> QED
      BY <3>1, <3>4, MainStep
  <2> QED
    BY <2>4, <2>5
<1>4. CASE Tab
  <2> DEFINE r == NextTab(con.x)
  <2>1. main.at = "tab"
    BY <1>4 DEF Tab, Step
  <2>2. NextTab(con.x) \in Nat
    BY <1>0, TabFacts
  <2>3. r \in Nat
    BY <1>0, <2>1, <2>2
  <2> HIDE DEF r
  <2>4. Step("tab", "store", r, con)
    BY <1>4 DEF Tab, r
  <2>5. CursorOk(con, "store") /\ RegisterOk("store", r) /\ "store" \in Places \ {"draw"}
    BY <1>0, <2>1, <2>2, <2>3 DEF CursorOk, RegisterOk, OffRight, OffBelow, Places
  <2>6. Pending(geo, sheet, con, "tab", main.ch, main.reg)
           => Pending(geo, sheet, con, "store", main.ch, r)
    BY <1>0, <2>1, <2>2, <2>3 DEF Pending, r, ShowsFrom, ShowsBelow, CursorOk, OffRight, OffBelow
  <2>7. MayGo("tab", "store", r, con)
    BY <1>0, <2>2, <2>3, <2>5, <2>6 DEF MayGo
  <2> QED
    BY <2>4, <2>7, MainStep
<1>5. CASE Return
  <2> DEFINE c == [con EXCEPT !.x = 0]
  <2>1. main.at = "return"
    BY <1>5 DEF Return, Step
  <2>2. /\ c \in Consoles /\ c.stray = con.stray
        /\ c.x = 0 /\ c.y = con.y /\ c.fb = con.fb
    BY <1>0, <2>1, Moved
  <2> HIDE DEF c
  <2>3. Step("return", "idle", 0, c)
    BY <1>5 DEF Return, c
  <2>4. CursorOk(c, "idle") /\ RegisterOk("idle", 0) /\ "idle" \in Places \ {"draw"}
    BY <1>0, <2>1, <2>2 DEF CursorOk, RegisterOk, OffRight, OffBelow, Places
  <2>5. Pending(geo, sheet, con, "return", main.ch, main.reg)
           => Pending(geo, sheet, c, "idle", main.ch, 0)
    BY <1>0, <2>1, <2>2 DEF Pending, ShowsFrom, ShowsBelow, CursorOk, OffRight, OffBelow
  <2>6. MayGo("return", "idle", 0, c)
    BY <1>0, <2>2, <2>4, <2>5 DEF MayGo
  <2> QED
    BY <2>3, <2>6, MainStep
<1>6. CASE Backspace
  <2> DEFINE r == con.x - 1
  <2>1. main.at = "backspace"
    BY <1>6 DEF Backspace, Step
  <2>2. r \in Int /\ (con.x > 0 => r \in Nat /\ r < Width)
    BY <1>0, <2>1 DEF CursorOk, OffRight, OffBelow
  <2> HIDE DEF r
  <2>3. CASE con.x > 0
    <3>1. Step("backspace", "back", r, con)
      BY <1>6, <2>3 DEF Backspace, r
    <3>2. CursorOk(con, "back") /\ RegisterOk("back", r) /\ "back" \in Places \ {"draw"}
      BY <1>0, <2>1, <2>2, <2>3 DEF CursorOk, RegisterOk, OffRight, OffBelow, Places
    <3>3. Pending(geo, sheet, con, "backspace", main.ch, main.reg)
             => Pending(geo, sheet, con, "back", main.ch, r)
      BY <1>0, <2>1, <2>2, <2>3 DEF Pending, r, ShowsFrom, ShowsBelow
    <3>4. MayGo("backspace", "back", r, con)
      BY <1>0, <2>2, <3>2, <3>3 DEF MayGo
    <3> QED
      BY <3>1, <3>4, MainStep
  <2>4. CASE ~(con.x > 0)
    <3>1. Step("backspace", "idle", r, con)
      BY <1>6, <2>4 DEF Backspace, r
    <3>2. CursorOk(con, "idle") /\ RegisterOk("idle", r) /\ "idle" \in Places \ {"draw"}
      BY <1>0, <2>1, <2>2, <2>4 DEF CursorOk, RegisterOk, OffRight, OffBelow, Places
    <3>3. Pending(geo, sheet, con, "backspace", main.ch, main.reg)
             => Pending(geo, sheet, con, "idle", main.ch, r)
      BY <1>0, <2>1, <2>2, <2>4 DEF Pending, r, ShowsFrom, ShowsBelow
    <3>4. MayGo("backspace", "idle", r, con)
      BY <1>0, <2>2, <3>2, <3>3 DEF MayGo
    <3> QED
      BY <3>1, <3>4, MainStep
  <2> QED
    BY <2>3, <2>4
<1>7. CASE Back
  <2> DEFINE c == [con EXCEPT !.x = main.reg]
  <2>1. main.at = "back"
    BY <1>7 DEF Back, Step
  <2>2. main.reg \in Nat
    BY <1>0, <2>1 DEF RegisterOk
  <2>3. /\ c \in Consoles /\ c.stray = con.stray
        /\ c.x = main.reg /\ c.y = con.y /\ c.fb = con.fb
    BY <1>0, <2>1, <2>2, Moved
  <2> HIDE DEF c
  <2>4. Step("back", "erase", 0, c)
    BY <1>7 DEF Back, c
  <2>5. CursorOk(c, "erase") /\ RegisterOk("erase", 0) /\ "erase" \in Places \ {"draw"}
    BY <1>0, <2>1, <2>2, <2>3 DEF CursorOk, RegisterOk, OffRight, OffBelow, Places
  <2>6. Pending(geo, sheet, con, "back", main.ch, main.reg)
           => Pending(geo, sheet, c, "erase", main.ch, 0)
    BY <1>0, <2>1, <2>2, <2>3 DEF Pending, ShowsFrom, ShowsBelow, CursorOk, OffRight, OffBelow
  <2>7. MayGo("back", "erase", 0, c)
    BY <1>0, <2>2, <2>3, <2>5, <2>6 DEF MayGo
  <2> QED
    BY <2>4, <2>7, MainStep
<1>8. CASE Erase
  <2> DEFINE c == DrawChar(con, "space")
  <2>1. main.at = "erase"
    BY <1>8 DEF Erase, Step
  <2>2. con.x < Width /\ con.y < Height
    BY <1>0, <2>1 DEF CursorOk, OffRight, OffBelow
  <2>3. /\ c \in Consoles /\ c.stray = con.stray
        /\ c.x = con.x /\ c.y = con.y /\ c.fb = Drawn(geo, con.fb, con.x, con.y, "space")
    BY <1>0, <2>1, <2>2, DrawFacts
  <2> HIDE DEF c
  <2>4. Step("erase", "idle", 0, c)
    BY <1>8 DEF Erase, c
  <2>5. CursorOk(c, "idle") /\ RegisterOk("idle", 0) /\ "idle" \in Places \ {"draw"}
    BY <1>0, <2>1, <2>2, <2>3 DEF CursorOk, RegisterOk, OffRight, OffBelow, Places
  <2>6. Pending(geo, sheet, con, "erase", main.ch, main.reg)
           => Pending(geo, sheet, c, "idle", main.ch, 0)
    BY <1>0, <2>1, <2>2, <2>3 DEF Pending, ShowsFrom, ShowsBelow, CursorOk, OffRight, OffBelow
  <2>7. MayGo("erase", "idle", 0, c)
    BY <1>0, <2>2, <2>3, <2>5, <2>6 DEF MayGo
  <2> QED
    BY <2>4, <2>7, MainStep
<1>9. CASE NewlineX
  <2> DEFINE c == [con EXCEPT !.x = 0]
  <2>1. main.at = "newline"
    BY <1>9 DEF NewlineX, Step
  <2>2. /\ c \in Consoles /\ c.stray = con.stray
        /\ c.x = 0 /\ c.y = con.y /\ c.fb = con.fb
    BY <1>0, <2>1, Moved
  <2> HIDE DEF c
  <2>3. Step("newline", "down", 0, c)
    BY <1>9 DEF NewlineX, c
  <2>4. CursorOk(c, "down") /\ RegisterOk("down", 0) /\ "down" \in Places \ {"draw"}
    BY <1>0, <2>1, <2>2 DEF CursorOk, RegisterOk, OffRight, OffBelow, Places
  <2>5. Pending(geo, sheet, con, "newline", main.ch, main.reg)
           => Pending(geo, sheet, c, "down", main.ch, 0)
    BY <1>0, <2>1, <2>2 DEF Pending, ShowsFrom, ShowsBelow, CursorOk, OffRight, OffBelow
  <2>6. MayGo("newline", "down", 0, c)
    BY <1>0, <2>2, <2>4, <2>5 DEF MayGo
  <2> QED
    BY <2>3, <2>6, MainStep
<1>10. CASE ReadY
  <2> DEFINE r == con.y + 1
  <2>1. main.at = "down"
    BY <1>10 DEF ReadY, Step
  <2>2. r \in 1 .. Height
    BY <1>0, <2>1 DEF CursorOk, OffRight, OffBelow
  <2> HIDE DEF r
  <2>3. Step("down", "below", r, con)
    BY <1>10 DEF ReadY, r
  <2>4. CursorOk(con, "below") /\ RegisterOk("below", r) /\ "below" \in Places \ {"draw"}
    BY <1>0, <2>1, <2>2 DEF CursorOk, RegisterOk, OffRight, OffBelow, Places
  <2>5. Pending(geo, sheet, con, "down", main.ch, main.reg)
           => Pending(geo, sheet, con, "below", main.ch, r)
    BY <1>0, <2>1, <2>2 DEF Pending, r, ShowsFrom, ShowsBelow, CursorOk, OffRight, OffBelow
  <2>6. MayGo("down", "below", r, con)
    BY <1>0, <2>2, <2>4, <2>5 DEF MayGo
  <2> QED
    BY <2>3, <2>6, MainStep
<1>11. CASE StoreY
  <2> DEFINE c == [con EXCEPT !.y = main.reg]
  <2>1. main.at = "below"
    BY <1>11 DEF StoreY, Step
  <2>2. main.reg \in Nat
    BY <1>0, <2>1 DEF RegisterOk
  <2>3. /\ c \in Consoles /\ c.stray = con.stray
        /\ c.x = con.x /\ c.y = main.reg /\ c.fb = con.fb
    BY <1>0, <2>1, <2>2, Moved
  <2> HIDE DEF c
  <2>4. CASE main.reg >= Height
    <3>1. Step("below", "copy", main.reg, c)
      BY <1>11, <2>4 DEF StoreY, c
    <3>2. CursorOk(c, "copy") /\ RegisterOk("copy", main.reg) /\ "copy" \in Places \ {"draw"}
      BY <1>0, <2>1, <2>2, <2>3, <2>4 DEF CursorOk, RegisterOk, OffRight, OffBelow, Places
    <3>3. Pending(geo, sheet, con, "below", main.ch, main.reg)
             => Pending(geo, sheet, c, "copy", main.ch, main.reg)
      BY <1>0, <2>1, <2>2, <2>3, <2>4 DEF Pending, ShowsFrom, ShowsBelow
    <3>4. MayGo("below", "copy", main.reg, c)
      BY <1>0, <2>2, <2>3, <3>2, <3>3 DEF MayGo
    <3> QED
      BY <3>1, <3>4, MainStep
  <2>5. CASE ~(main.reg >= Height)
    <3>1. Step("below", "idle", main.reg, c)
      BY <1>11, <2>5 DEF StoreY, c
    <3>2. CursorOk(c, "idle") /\ RegisterOk("idle", main.reg) /\ "idle" \in Places \ {"draw"}
      BY <1>0, <2>1, <2>2, <2>3, <2>5 DEF CursorOk, RegisterOk, OffRight, OffBelow, Places
    <3>3. Pending(geo, sheet, con, "below", main.ch, main.reg)
             => Pending(geo, sheet, c, "idle", main.ch, main.reg)
      BY <1>0, <2>1, <2>2, <2>3, <2>5 DEF Pending, ShowsFrom, ShowsBelow
    <3>4. MayGo("below", "idle", main.reg, c)
      BY <1>0, <2>2, <2>3, <3>2, <3>3 DEF MayGo
    <3> QED
      BY <3>1, <3>4, MainStep
  <2> QED
    BY <2>4, <2>5
<1>12. CASE Copy
  <2> DEFINE c == CopyUp(con)
  <2>1. main.at = "copy"
    BY <1>12 DEF Copy, Step
  <2>2. /\ c \in Consoles /\ c.stray = con.stray
        /\ c.x = con.x /\ c.y = con.y /\ c.fb = Copied(geo, con.fb)
    BY <1>0, <2>1, ScrollFacts
  <2> HIDE DEF c
  <2>3. Step("copy", "blank", 0, c)
    BY <1>12 DEF Copy, c
  <2>4. CursorOk(c, "blank") /\ RegisterOk("blank", 0) /\ "blank" \in Places \ {"draw"}
    BY <1>0, <2>1, <2>2 DEF CursorOk, RegisterOk, OffRight, OffBelow, Places
  <2>5. Pending(geo, sheet, con, "copy", main.ch, main.reg)
           => Pending(geo, sheet, c, "blank", main.ch, 0)
    BY <1>0, <2>1, <2>2 DEF Pending, ShowsFrom, ShowsBelow, CursorOk, OffRight, OffBelow
  <2>6. MayGo("copy", "blank", 0, c)
    BY <1>0, <2>2, <2>4, <2>5 DEF MayGo
  <2> QED
    BY <2>3, <2>6, MainStep
<1>13. CASE Blank
  <2> DEFINE c == ClearBottom(con)
  <2>1. main.at = "blank"
    BY <1>13 DEF Blank, Step
  <2>2. /\ c \in Consoles /\ c.stray = con.stray
        /\ c.x = con.x /\ c.y = con.y /\ c.fb = Cleared(geo, con.fb)
    BY <1>0, <2>1, ScrollFacts
  <2> HIDE DEF c
  <2>3. Step("blank", "last", 0, c)
    BY <1>13 DEF Blank, c
  <2>4. CursorOk(c, "last") /\ RegisterOk("last", 0) /\ "last" \in Places \ {"draw"}
    BY <1>0, <2>1, <2>2 DEF CursorOk, RegisterOk, OffRight, OffBelow, Places
  <2>5. Pending(geo, sheet, con, "blank", main.ch, main.reg)
           => Pending(geo, sheet, c, "last", main.ch, 0)
    BY <1>0, <2>1, <2>2 DEF Pending, ShowsFrom, ShowsBelow, CursorOk, OffRight, OffBelow
  <2>6. MayGo("blank", "last", 0, c)
    BY <1>0, <2>2, <2>4, <2>5 DEF MayGo
  <2> QED
    BY <2>3, <2>6, MainStep
<1>14. CASE Last
  <2> DEFINE c == [con EXCEPT !.y = Height - 1]
  <2>1. main.at = "last"
    BY <1>14 DEF Last, Step
  <2>2. Height - 1 \in Nat
    BY <1>0
  <2>3. /\ c \in Consoles /\ c.stray = con.stray
        /\ c.x = con.x /\ c.y = Height - 1 /\ c.fb = con.fb
    BY <1>0, <2>1, <2>2, Moved
  <2> HIDE DEF c
  <2>4. Step("last", "idle", 0, c)
    BY <1>14 DEF Last, c
  <2>5. CursorOk(c, "idle") /\ RegisterOk("idle", 0) /\ "idle" \in Places \ {"draw"}
    BY <1>0, <2>1, <2>2, <2>3 DEF CursorOk, RegisterOk, OffRight, OffBelow, Places
  <2>6. Pending(geo, sheet, con, "last", main.ch, main.reg)
           => Pending(geo, sheet, c, "idle", main.ch, 0)
    BY <1>0, <2>1, <2>2, <2>3 DEF Pending, ShowsFrom, ShowsBelow, CursorOk, OffRight, OffBelow
  <2>7. MayGo("last", "idle", 0, c)
    BY <1>0, <2>2, <2>3, <2>5, <2>6 DEF MayGo
  <2> QED
    BY <2>4, <2>7, MainStep
<1>15. CASE Fill
  <2> DEFINE c == FillScreen(con)
  <2>1. main.at = "clear"
    BY <1>15 DEF Fill, Step
  <2>2. /\ c \in Consoles /\ c.stray = con.stray
        /\ c.x = con.x /\ c.y = con.y /\ c.fb = Filled(geo, con.fb)
    BY <1>0, <2>1, ScrollFacts
  <2> HIDE DEF c
  <2>3. Step("clear", "home", 0, c)
    BY <1>15 DEF Fill, c
  <2>4. CursorOk(c, "home") /\ RegisterOk("home", 0) /\ "home" \in Places \ {"draw"}
    BY <1>0, <2>1, <2>2 DEF CursorOk, RegisterOk, OffRight, OffBelow, Places
  <2>5. Pending(geo, sheet, con, "clear", main.ch, main.reg)
           => Pending(geo, sheet, c, "home", main.ch, 0)
    BY <1>0, <2>1, <2>2 DEF Pending, ShowsFrom, ShowsBelow, CursorOk, OffRight, OffBelow
  <2>6. MayGo("clear", "home", 0, c)
    BY <1>0, <2>2, <2>4, <2>5 DEF MayGo
  <2> QED
    BY <2>3, <2>6, MainStep
<1>16. CASE HomeX
  <2> DEFINE c == [con EXCEPT !.x = 0]
  <2>1. main.at = "home"
    BY <1>16 DEF HomeX, Step
  <2>2. /\ c \in Consoles /\ c.stray = con.stray
        /\ c.x = 0 /\ c.y = con.y /\ c.fb = con.fb
    BY <1>0, <2>1, Moved
  <2> HIDE DEF c
  <2>3. Step("home", "top", 0, c)
    BY <1>16 DEF HomeX, c
  <2>4. CursorOk(c, "top") /\ RegisterOk("top", 0) /\ "top" \in Places \ {"draw"}
    BY <1>0, <2>1, <2>2 DEF CursorOk, RegisterOk, OffRight, OffBelow, Places
  <2>5. Pending(geo, sheet, con, "home", main.ch, main.reg)
           => Pending(geo, sheet, c, "top", main.ch, 0)
    BY <1>0, <2>1, <2>2 DEF Pending, ShowsFrom, ShowsBelow, CursorOk, OffRight, OffBelow
  <2>6. MayGo("home", "top", 0, c)
    BY <1>0, <2>2, <2>4, <2>5 DEF MayGo
  <2> QED
    BY <2>3, <2>6, MainStep
<1>17. CASE HomeY
  <2> DEFINE c == [con EXCEPT !.y = 0]
  <2>1. main.at = "top"
    BY <1>17 DEF HomeY, Step
  <2>2. /\ c \in Consoles /\ c.stray = con.stray
        /\ c.x = con.x /\ c.y = 0 /\ c.fb = con.fb
    BY <1>0, <2>1, Moved
  <2> HIDE DEF c
  <2>3. Step("top", "idle", 0, c)
    BY <1>17 DEF HomeY, c
  <2>4. CursorOk(c, "idle") /\ RegisterOk("idle", 0) /\ "idle" \in Places \ {"draw"}
    BY <1>0, <2>1, <2>2 DEF CursorOk, RegisterOk, OffRight, OffBelow, Places
  <2>5. Pending(geo, sheet, con, "top", main.ch, main.reg)
           => Pending(geo, sheet, c, "idle", main.ch, 0)
    BY <1>0, <2>1, <2>2 DEF Pending, ShowsFrom, ShowsBelow, CursorOk, OffRight, OffBelow
  <2>6. MayGo("top", "idle", 0, c)
    BY <1>0, <2>2, <2>4, <2>5 DEF MayGo
  <2> QED
    BY <2>3, <2>6, MainStep
<1> QED
  BY <1>1, <1>2, <1>3, <1>4, <1>5, <1>6, <1>7, <1>8, <1>9, <1>10,
     <1>11, <1>12, <1>13, <1>14, <1>15, <1>16, <1>17 DEF Printing

-----------------------------------------------------------------------------
(* Calls and interrupts *)

\* What a step that leaves main alone, or begins a character, has to show.
LEMMA KeepsInvariant ==
    ASSUME IInv, geo' = geo, con' \in Consoles,
           main' \in [at : Places, ch : Kinds, reg : Int],
           main'.at = "draw" => main'.ch \in Printable,
           text' \in [chars : SUBSET (Kinds \ {"space"}), left : Int],
           irr' \subseteq 0 .. 255, isr' \subseteq 0 .. 255, ticks' \in Nat,
           fate' \in {"runs", "halted"}, interrupts' \in BOOLEAN, disturbed' \in BOOLEAN,
           CursorOk(con', main'.at), RegisterOk(main'.at, main'.reg)
    PROVE  IInv'
<1>1. Consoles' = Consoles
  BY DEF Consoles, Pixels
<1>2. TypeInv'
  BY <1>1 DEF IInv, TypeInv
<1>3. CursorOk(con, main.at)' /\ RegisterOk(main.at, main.reg)'
  BY DEF CursorOk, RegisterOk
<1> QED
  BY <1>2, <1>3 DEF IInv

LEMMA BeginStep ==
    ASSUME IInv, NEW ch \in text.chars, Begin(ch)
    PROVE  IInv'
<1>1. /\ main.at = "idle" /\ text' = [text EXCEPT !.left = @ - 1]
      /\ main' = [at |-> CASE ch \in Printable -> "draw"    [] ch = "\n" -> "newline"
                           [] ch = "\t" -> "tab"            [] ch = "\r" -> "return"
                           [] ch = "erase" -> "backspace"   [] ch = "clear" -> "clear",
                  ch |-> ch, reg |-> 0]
      /\ UNCHANGED <<geo, con, interrupts, irr, isr, ticks, fate, disturbed>>
  BY DEF Begin, Idle, hardware
<1>2. ch \in Kinds \ {"space"} /\ text' \in [chars : SUBSET (Kinds \ {"space"}), left : Int]
  BY <1>1 DEF IInv, TypeInv
<1>3. /\ main'.at \in {"draw", "newline", "tab", "return", "backspace", "clear"}
      /\ main'.at = "draw" => ch \in Printable
  BY <1>1, <1>2 DEF Kinds, Printable
<1>4. main' = [at |-> main'.at, ch |-> ch, reg |-> 0]
  BY <1>1
<1>5. main' \in [at : Places, ch : Kinds, reg : Int] /\ main'.ch = ch /\ main'.reg = 0
  BY <1>2, <1>3, <1>4 DEF Places
<1>6. CursorOk(con', main'.at) /\ RegisterOk(main'.at, main'.reg)
  BY <1>1, <1>3 DEF IInv, CursorOk, RegisterOk, OffRight, OffBelow
<1> QED
  <2>1. geo' = geo /\ con' \in Consoles
    BY <1>1 DEF IInv, TypeInv
  <2>2. main'.at = "draw" => main'.ch \in Printable
    BY <1>3, <1>5
  <2>3. /\ irr' \subseteq 0 .. 255 /\ isr' \subseteq 0 .. 255 /\ ticks' \in Nat
        /\ fate' \in {"runs", "halted"} /\ interrupts' \in BOOLEAN /\ disturbed' \in BOOLEAN
    BY <1>1 DEF IInv, TypeInv
  <2> QED
    BY <1>2, <1>5, <1>6, <2>1, <2>2, <2>3, KeepsInvariant

\* The character of a handler, wherever it interrupted the main flow.
LEMMA HandlerPrints ==
    ASSUME IInv, NEW ch \in Characters
    PROVE  LET d == console_putchar(con, ch)
           IN  /\ d \in Consoles /\ CursorOk(d, main.at)
               /\ main.at \notin OffRight \cup OffBelow => d.stray = con.stray
<1> DEFINE d == console_putchar(con, ch)
<1>1. geo \in Geometries /\ con \in Consoles /\ CursorOk(con, main.at)
  BY StateFacts
<1>2. /\ d \in Consoles /\ d.x < Width
      /\ con.y <= Height => d.y <= Height
      /\ con.y < Height => d.y < Height
      /\ con.x < Width /\ con.y < Height => d.stray = con.stray
  BY <1>1, PutcharFacts
<1> HIDE DEF d
<1>3. CursorOk(d, main.at) /\ (main.at \notin OffRight \cup OffBelow => d.stray = con.stray)
  BY <1>1, <1>2 DEF CursorOk
<1> QED
  BY <1>2, <1>3 DEF d

\* The report of an exception begins on a new line: it is on the screen.
LEMMA ReportIsDrawn ==
    ASSUME IInv
    PROVE  LET d == console_putchar(newline(con), "!")
           IN  d \in Consoles /\ CursorOk(d, main.at) /\ d.stray = con.stray
<1> DEFINE n == newline(con)
           d == console_putchar(n, "!")
<1>1. geo \in Geometries /\ con \in Consoles /\ con.y \in Nat /\ "!" \in Characters
  BY StateFacts
<1>2. /\ n \in Consoles /\ n.x = 0 /\ n.stray = con.stray
      /\ con.y + 1 >= Height => n.y = Height - 1
      /\ ~(con.y + 1 >= Height) => n.y = con.y + 1
  BY <1>1, NewlineFacts
<1> HIDE DEF n
<1>3. n.x < Width /\ n.y < Height /\ n.y <= Height
  BY <1>1, <1>2, Sizes
<1>4. d \in Consoles /\ d.x < Width /\ d.y < Height /\ d.y <= Height /\ d.stray = n.stray
  BY <1>1, <1>2, <1>3, PutcharFacts
<1> HIDE DEF d
<1>5. CursorOk(d, main.at)
  BY <1>4 DEF CursorOk
<1> QED
  BY <1>2, <1>4, <1>5 DEF d, n

\* An interrupt, by what it does to the console.
LEMMA InterruptCases ==
    ASSUME IInv, Interrupt
    PROVE  /\ UNCHANGED <<geo, main, interrupts, text>>
           /\ irr' \subseteq 0 .. 255 /\ isr' \subseteq 0 .. 255
           /\ fate' \in {"runs", "halted"}
           /\ \/ /\ ticks' = ticks + 1 /\ ticks' % EVERY = 0
                 /\ Prints(console_putchar(con, "T"), "T")
              \/ /\ ticks' \in {ticks, ticks + 1}
                 /\ UNCHANGED <<con, sheet, disturbed>>
              \/ /\ ticks' = ticks /\ disturbed' = TRUE /\ sheet' = sheet
                 /\ con' = console_putchar(newline(con), "!")
<1>1. PICK v \in irr : irr' = irr \ {v} /\ interrupt_common_handler(v)
  BY DEF Interrupt
<1>2. UNCHANGED <<geo, main, interrupts, text>>
  BY DEF Interrupt
<1>3. /\ v \in 0 .. 255 /\ irr' \subseteq 0 .. 255 /\ isr \subseteq 0 .. 255
      /\ fate \in {"runs", "halted"}
  BY <1>1 DEF IInv, TypeInv
<1>4. CASE v = TIMER
  <2>1. timer_handler
    BY <1>1, <1>4 DEF interrupt_common_handler, TIMER, Gates
  <2> QED
    BY <1>2, <1>3, <2>1 DEF timer_handler
<1>5. CASE v # TIMER /\ v \notin Gates
  <2>1. Exception(v)
    BY <1>1, <1>5 DEF interrupt_common_handler
  <2> QED
    BY <1>2, <1>3, <2>1 DEF Exception
<1>6. CASE v # TIMER /\ v \in Gates
  <2>1. EndOfInterrupt
    BY <1>1, <1>6 DEF interrupt_common_handler
  <2> QED
    BY <1>2, <1>3, <2>1 DEF EndOfInterrupt
<1> QED
  BY <1>4, <1>5, <1>6

\* It keeps the invariant; if it writes outside, it is the timer's, at an edge.
LEMMA InterruptStep ==
    ASSUME IInv, Interrupt
    PROVE  /\ IInv'
           /\ con'.stray /\ ~con.stray =>
                 /\ main' = main /\ ticks' # ticks
                 /\ main.at \in {"newline", "copy", "blank", "last"}
<1>1. /\ UNCHANGED <<geo, main, interrupts, text>>
      /\ irr' \subseteq 0 .. 255 /\ isr' \subseteq 0 .. 255
      /\ fate' \in {"runs", "halted"}
  BY InterruptCases
<1>2. ticks \in Nat /\ disturbed \in BOOLEAN
  BY DEF IInv, TypeInv
<1>3. /\ con' \in Consoles /\ CursorOk(con', main.at)
      /\ ticks' \in Nat /\ disturbed' \in BOOLEAN
      /\ con'.stray # con.stray => ticks' # ticks /\ main.at \in OffRight \cup OffBelow
  <2>1. CASE ticks' = ticks + 1 /\ Prints(console_putchar(con, "T"), "T")
    <3>1. con' = console_putchar(con, "T") /\ disturbed' \in BOOLEAN
      BY <2>1, <1>2 DEF Prints
    <3> QED
      BY <3>1, <2>1, <1>2, HandlerPrints, StateFacts
  <2>2. CASE ticks' \in {ticks, ticks + 1} /\ UNCHANGED <<con, sheet, disturbed>>
    BY <2>2, <1>2, StateFacts
  <2>3. CASE ticks' = ticks /\ disturbed' = TRUE /\ con' = console_putchar(newline(con), "!")
    BY <2>3, <1>2, ReportIsDrawn
  <2>4. \/ ticks' = ticks + 1 /\ Prints(console_putchar(con, "T"), "T")
        \/ ticks' \in {ticks, ticks + 1} /\ UNCHANGED <<con, sheet, disturbed>>
        \/ ticks' = ticks /\ disturbed' = TRUE /\ con' = console_putchar(newline(con), "!")
    BY InterruptCases
  <2> QED
    BY <2>1, <2>2, <2>3, <2>4
<1>4. IInv'
  BY <1>1, <1>3, KeepsInvariant DEF IInv, TypeInv
<1> QED
  BY <1>1, <1>3, <1>4 DEF OffRight, OffBelow

LEMMA RequestStep ==
    ASSUME IInv, NEW v \in 0 .. 255, Request(v)
    PROVE  IInv' /\ con' = con
<1>1. irr' \subseteq 0 .. 255
  BY DEF Request, IInv, TypeInv
<1>2. UNCHANGED <<geo, con, main, interrupts, isr, ticks, fate, text, disturbed>>
  BY DEF Request
<1> QED
  BY <1>1, <1>2, KeepsInvariant DEF IInv, TypeInv

LEMMA InitIInv == Init => IInv
<1> SUFFICES ASSUME Init
             PROVE  IInv
  OBVIOUS
<1>1. geo \in Geometries /\ geo.size \in Nat
  BY GeometryFacts DEF Init
<1>2. PICK x \in 0 .. Width - 1, y \in 0 .. Height - 1 :
          con = [x |-> x, y |-> y, fb |-> [p \in 0 .. geo.size - 1 |-> "space"],
                 stray |-> FALSE]
  BY DEF Init
<1>3. x \in Nat /\ x < Width /\ y \in Nat /\ y < Height
  BY Sizes
<1>4. [p \in 0 .. geo.size - 1 |-> "space"] \in [Pixels -> Characters]
  BY DEF Pixels, Characters
<1>5. con \in Consoles /\ con.x < Width /\ con.y < Height /\ con.y <= Height
  BY <1>2, <1>3, <1>4, Sizes DEF Consoles
<1>6. main = [at |-> "idle", ch |-> "space", reg |-> 0]
  BY DEF Init
<1>7. main \in [at : Places, ch : Kinds, reg : Int] /\ main.at = "idle"
  BY <1>6 DEF Places, Kinds
<1>8. text \in [chars : SUBSET (Kinds \ {"space"}), left : Int]
  <2>1. text \in [chars : SUBSET (Printable \cup {"\n", "\r", "\t", "erase", "clear"}),
                  left : Nat]
    BY TextsAssumption DEF Init
  <2>2. Printable \cup {"\n", "\r", "\t", "erase", "clear"} \subseteq Kinds \ {"space"}
    BY DEF Printable, Kinds
  <2> QED
    BY <2>1, <2>2
<1>9. irr \subseteq 0 .. 255
  BY ScreenAssumption DEF Init
<1>10. TypeInv
  BY <1>1, <1>5, <1>7, <1>8, <1>9 DEF Init, TypeInv
<1> QED
  BY <1>5, <1>7, <1>10 DEF IInv, CursorOk, RegisterOk

\* Every step keeps the invariant, and only the timer's writes outside.
StrayStep ==
    con'.stray /\ ~con.stray =>
        /\ main' = main /\ ticks' # ticks
        /\ main.at \in {"newline", "copy", "blank", "last"}

LEMMA NextIInv == IInv /\ [Next]_vars => IInv' /\ StrayStep
<1> SUFFICES ASSUME IInv, [Next]_vars
             PROVE  IInv' /\ StrayStep
  OBVIOUS
<1>1. ASSUME NEW ch \in text.chars, Begin(ch)
      PROVE  IInv' /\ con' = con
  BY <1>1, BeginStep DEF Begin
<1>2. CASE Printing
  BY <1>2, PrintingStep DEF StrayStep
<1>3. CASE interrupts_enable
  <2>1. /\ UNCHANGED <<geo, con, main, irr, isr, ticks, fate, text, disturbed>>
        /\ interrupts' = TRUE
    BY <1>3 DEF interrupts_enable
  <2> QED
    BY <2>1, KeepsInvariant DEF IInv, TypeInv, StrayStep
<1>4. CASE Interrupt
  BY <1>4, InterruptStep DEF StrayStep
<1>5. CASE TimerExpires \/ KeyComes \/ Spurious
  <2>1. TIMER \in 0 .. 255 /\ KEYBOARD \in 0 .. 255 /\ SPURIOUS \in 0 .. 255
    BY DEF TIMER, KEYBOARD, SPURIOUS
  <2>2. IInv' /\ con' = con
    BY <1>5, <2>1, RequestStep DEF TimerExpires, KeyComes, Spurious
  <2> QED
    BY <2>2 DEF StrayStep
<1>6. CASE UNCHANGED vars
  BY <1>6, KeepsInvariant DEF vars, IInv, TypeInv, StrayStep
<1> QED
  BY <1>1, <1>2, <1>3, <1>4, <1>5, <1>6 DEF Next, StrayStep

THEOREM Invariance == Spec => []IInv
BY InitIInv, NextIInv, PTL DEF Spec

\* Type correctness; and wherever the timer's character came, with half of an update
\* of the cursor done or lost, the cursor is on the screen when nothing is printed.
THEOREM Types == Spec => []TypeOK
<1>1. IInv => TypeOK
  <2> SUFFICES ASSUME IInv
               PROVE  TypeOK
    OBVIOUS
  <2>1. /\ con.x \in Nat /\ con.y \in Nat /\ con.stray \in BOOLEAN
        /\ con.fb \in [Pixels -> Characters]
    BY DEF IInv, TypeInv, Consoles
  <2>2. Idle => con.x < Width /\ con.y < Height
    BY DEF IInv, CursorOk, OffRight, OffBelow, Idle
  <2> QED
    BY <2>1, <2>2 DEF IInv, TypeInv, TypeOK
<1> QED
  BY Invariance, <1>1, PTL

\* DrawChar writes outside the frame buffer only for the timer's handler, between the
\* main flow's two stores of a column or a row past the edge.
THEOREM StraysAreTheTimers == Spec => StraysExplained
<1>1. IInv /\ [Next]_vars =>
          [con'.stray /\ ~con.stray =>
              /\ main' = main /\ ticks' # ticks
              /\ main.at \in {"newline", "copy", "blank", "last"}]_vars
  BY NextIInv DEF StrayStep
<1> QED
  BY Invariance, <1>1, PTL DEF Spec, StraysExplained

-----------------------------------------------------------------------------
(* The sheet *)

LEMMA SheetFacts ==
    ASSUME NEW s, SheetOk(s)
    PROVE  /\ s \in Sheets /\ s.line \in Nat /\ s.x \in 0 .. Width - 1
           /\ s.ink \subseteq Nat \X Nat \X Characters
           /\ \A i \in s.ink : i[1] <= s.line
           /\ \A i, j \in s.ink : i[1] = j[1] /\ i[2] = j[2] => i = j
           /\ TopOf(s) \in Nat /\ TopOf(s) <= s.line /\ s.line - TopOf(s) < Height
           /\ TopOf(s) = 0 => s.line < Height
           /\ TopOf(s) # 0 => TopOf(s) = s.line - Height + 1
<1>1. /\ s \in Sheets /\ s.line \in Nat /\ s.x \in 0 .. Width - 1
      /\ s.ink \subseteq Nat \X Nat \X Characters
      /\ \A i \in s.ink : i[1] <= s.line
      /\ \A i, j \in s.ink : i[1] = j[1] /\ i[2] = j[2] => i = j
  BY DEF SheetOk, Sheets
<1>2. /\ TopOf(s) \in Nat /\ TopOf(s) <= s.line /\ s.line - TopOf(s) < Height
      /\ TopOf(s) = 0 => s.line < Height
      /\ TopOf(s) # 0 => TopOf(s) = s.line - Height + 1
  BY <1>1, Sizes DEF TopOf
<1> QED
  BY <1>1, <1>2

\* What a cell of the sheet shows.
LEMMA ShownInk ==
    ASSUME NEW s, SheetOk(s), NEW i \in s.ink
    PROVE  ShownOn(s, i[1], i[2]) = i[3]
<1> DEFINE j == CHOOSE j \in s.ink : j[1] = i[1] /\ j[2] = i[2]
<1>1. j \in s.ink /\ j[1] = i[1] /\ j[2] = i[2]
  OBVIOUS
<1>2. j = i
  <2> HIDE DEF j
  <2> QED
    BY <1>1 DEF SheetOk
<1>3. ShownOn(s, i[1], i[2]) = j[3]
  BY DEF ShownOn
<1> QED
  BY <1>2, <1>3

LEMMA ShownNothing ==
    ASSUME NEW s, NEW l, NEW k, \A i \in s.ink : ~(i[1] = l /\ i[2] = k)
    PROVE  ShownOn(s, l, k) = "space"
BY DEF ShownOn

\* The pen moves: nothing else changes.
LEMMA PenMoves ==
    ASSUME NEW s, SheetOk(s), NEW k \in 0 .. Width - 1
    PROVE  /\ LET d == [s EXCEPT !.x = k]
              IN  /\ SheetOk(d) /\ d.ink = s.ink /\ d.line = s.line /\ d.x = k
                  /\ TopOf(d) = TopOf(s)
           /\ LET d == NewLine(s)
              IN  /\ SheetOk(d) /\ d.ink = s.ink /\ d.line = s.line + 1 /\ d.x = 0
<1>0. /\ s \in Sheets /\ s.line \in Nat
      /\ \A i \in s.ink : i[1] \in Nat /\ i[1] <= s.line
      /\ \A i, j \in s.ink : i[1] = j[1] /\ i[2] = j[2] => i = j
  BY SheetFacts
<1>1. 0 \in 0 .. Width - 1
  BY Sizes
<1> DEFINE a == [s EXCEPT !.x = k]
           b == NewLine(s)
<1>2. a \in Sheets /\ a.ink = s.ink /\ a.line = s.line /\ a.x = k
  BY <1>0 DEF Sheets
<1>3. b \in Sheets /\ b.ink = s.ink /\ b.line = s.line + 1 /\ b.x = 0
  <2>1. b = [s EXCEPT !.x = 0, !.line = s.line + 1]
    BY DEF NewLine
  <2>2. s.line + 1 \in Nat
    BY <1>0
  <2> HIDE DEF b
  <2> QED
    BY <1>0, <1>1, <2>1, <2>2 DEF Sheets
<1> HIDE DEF a, b
<1>4. SheetOk(a) /\ TopOf(a) = TopOf(s)
  BY <1>0, <1>2 DEF SheetOk, TopOf
<1>5. SheetOk(b)
  BY <1>0, <1>3 DEF SheetOk
<1> QED
  BY <1>2, <1>3, <1>4, <1>5 DEF a, b

LEMMA SameInk ==
    ASSUME NEW s, NEW d, d.ink = s.ink, NEW l, NEW k
    PROVE  ShownOn(d, l, k) = ShownOn(s, l, k)
BY DEF ShownOn

\* A character is written: in its cell and nowhere else.
LEMMA PutFacts ==
    ASSUME NEW s, SheetOk(s), NEW ch \in Characters
    PROVE  LET d == Put(s, ch)
           IN  /\ SheetOk(d) /\ d.line = s.line /\ d.x = s.x /\ TopOf(d) = TopOf(s)
               /\ ShownOn(d, s.line, s.x) = ch
               /\ \A l, k : ~(l = s.line /\ k = s.x) => ShownOn(d, l, k) = ShownOn(s, l, k)
<1> DEFINE n == <<s.line, s.x, ch>>
           rest == {i \in s.ink : <<i[1], i[2]>> # <<s.line, s.x>>}
           d == Put(s, ch)
<1>0. /\ s \in Sheets /\ s.line \in Nat /\ s.x \in Nat
      /\ s.ink \subseteq Nat \X Nat \X Characters
      /\ \A i \in s.ink : i[1] <= s.line
      /\ \A i, j \in s.ink : i[1] = j[1] /\ i[2] = j[2] => i = j
  BY SheetFacts, Sizes
<1>1. n \in Nat \X Nat \X Characters /\ n[1] = s.line /\ n[2] = s.x /\ n[3] = ch
  BY <1>0
<1>2. /\ rest \subseteq s.ink
      /\ \A i \in s.ink : i \in rest <=> ~(i[1] = s.line /\ i[2] = s.x)
  OBVIOUS
<1>3. d = [s EXCEPT !.ink = rest \cup {n}]
  BY <1>0 DEF Put, Sheets
<1> HIDE DEF n, rest, d
<1>4. d \in Sheets /\ d.ink = rest \cup {n} /\ d.line = s.line /\ d.x = s.x
  BY <1>0, <1>1, <1>2, <1>3 DEF Sheets
<1>5. \A i \in d.ink : i = n \/ (i \in s.ink /\ ~(i[1] = s.line /\ i[2] = s.x))
  BY <1>2, <1>4
<1>6. SheetOk(d)
  <2>1. \A i \in d.ink : i[1] <= d.line
    BY <1>0, <1>1, <1>4, <1>5
  <2>2. \A i, j \in d.ink : i[1] = j[1] /\ i[2] = j[2] => i = j
    BY <1>0, <1>1, <1>5
  <2> QED
    BY <1>4, <2>1, <2>2 DEF SheetOk
<1>7. ShownOn(d, s.line, s.x) = ch
  <2>1. n \in d.ink
    BY <1>4
  <2>2. ShownOn(d, n[1], n[2]) = n[3]
    BY <1>6, <2>1, ShownInk
  <2> QED
    BY <1>1, <2>2
<1>8. ASSUME NEW l, NEW k, ~(l = s.line /\ k = s.x)
      PROVE  ShownOn(d, l, k) = ShownOn(s, l, k)
  <2>1. CASE \E i \in s.ink : i[1] = l /\ i[2] = k
    <3>1. PICK i \in s.ink : i[1] = l /\ i[2] = k
      BY <2>1
    <3>2. i \in d.ink
      BY <1>2, <1>4, <1>8, <3>1
    <3>3. ShownOn(s, i[1], i[2]) = i[3] /\ ShownOn(d, i[1], i[2]) = i[3]
      BY <1>6, <3>2, ShownInk
    <3> QED
      BY <3>1, <3>3
  <2>2. CASE ~(\E i \in s.ink : i[1] = l /\ i[2] = k)
    <3>1. \A i \in d.ink : ~(i[1] = l /\ i[2] = k)
      BY <1>1, <1>5, <1>8, <2>2
    <3> QED
      BY <2>2, <3>1, ShownNothing
  <2> QED
    BY <2>1, <2>2
<1>9. TopOf(d) = TopOf(s)
  BY <1>4 DEF TopOf
<1> QED
  BY <1>4, <1>6, <1>7, <1>8, <1>9 DEF d

-----------------------------------------------------------------------------
(* The screen follows the sheet *)

\* A frame buffer of the screen's size has no padding.
LEMMA NoPadding ==
    ASSUME NEW g \in Geometries, g.size = Width * Height
    PROVE  /\ g.stride = Width
           /\ 2 * ((g.size - Width) \div 2) = g.size - Width
<1>1. /\ g.stride \in Nat /\ g.size \in Nat /\ g.stride >= Width /\ g.size >= g.stride * Height
      /\ g.size % 2 = 0 /\ Width \in Nat \ {0} /\ Height \in Nat \ {0} /\ Width % 2 = 0
  BY GeometryFacts, Sizes
<1>2. g.stride = Width
  <2>1. ASSUME g.stride # Width
        PROVE  FALSE
    <3>1. Width < g.stride
      BY <1>1, <2>1
    <3>2. Width * Height + Height <= g.stride * Height
      BY <1>1, <3>1, RowsBefore
    <3>3. Width * Height \in Nat /\ g.stride * Height \in Nat
      BY <1>1
    <3> QED
      BY <1>1, <3>2, <3>3
  <2> QED
    BY <2>1
<1>3. \A a, b \in Int : a % 2 = 0 /\ b % 2 = 0 => 2 * ((a - b) \div 2) = a - b
  OBVIOUS
<1>4. 2 * ((g.size - Width) \div 2) = g.size - Width
  BY <1>1, <1>3
<1> QED
  BY <1>2, <1>4

\* The drawing of a character at the cursor.
LEMMA DrawnShows ==
    ASSUME NEW g \in Geometries, NEW s, SheetOk(s), NEW ch \in Characters,
           NEW fb \in [PixelsOf(g) -> Characters],
           NEW x \in 0 .. Width - 1, NEW y \in 0 .. Height - 1, Shows(g, s, x, y, fb)
    PROVE  Shows(g, Put(s, ch), x, y, Drawn(g, fb, x, y, ch))
<1> DEFINE d == Put(s, ch)
           n == g.stride
           p == y * n + x
           f == Drawn(g, fb, x, y, ch)
<1>1. /\ SheetOk(d) /\ d.line = s.line /\ d.x = s.x /\ TopOf(d) = TopOf(s)
      /\ ShownOn(d, s.line, s.x) = ch
      /\ \A l, k : ~(l = s.line /\ k = s.x) => ShownOn(d, l, k) = ShownOn(s, l, k)
  BY PutFacts
<1> HIDE DEF d
<1>2. CASE Seen(g, d)
  <2>1. /\ x = s.x /\ y = s.line - TopOf(s) /\ TopOf(s) \in Nat /\ s.line \in Nat
        /\ \A r \in 0 .. Height - 1, k \in 0 .. Width - 1 :
               fb[r * n + k] = ShownOn(s, TopOf(s) + r, k)
    BY <1>1, <1>2, SheetFacts DEF Shows, Picture, Seen
  <2>2. p \in PixelsOf(g)
    BY OnScreen
  <2>3. f[p] = ch /\ \A q \in PixelsOf(g) : q # p => f[q] = fb[q]
    BY <2>2 DEF Drawn
  <2>4. ASSUME NEW r \in 0 .. Height - 1, NEW k \in 0 .. Width - 1
        PROVE  f[r * n + k] = ShownOn(d, TopOf(d) + r, k)
    <3>1. CASE r = y /\ k = x
      BY <1>1, <2>1, <2>3, <3>1
    <3>2. CASE ~(r = y /\ k = x)
      <4>1. r * n + k \in PixelsOf(g)
        BY OnScreen
      <4>2. r \in Nat /\ y \in Nat
        OBVIOUS
      <4>3. r * n + k # p
        BY <3>2, <4>2, OnePixelEach
      <4>4. f[r * n + k] = ShownOn(s, TopOf(s) + r, k)
        BY <2>1, <2>3, <4>1, <4>3
      <4>5. ~(TopOf(s) + r = s.line /\ k = s.x)
        BY <2>1, <3>2
      <4> QED
        BY <1>1, <4>4, <4>5
    <3> QED
      BY <3>1, <3>2
  <2> QED
    BY <1>1, <2>1, <2>4 DEF Shows, Picture, d
<1> QED
  BY <1>2 DEF Shows, Picture, d

\* The new line, with what it scrolls away.
LEMMA BelowShows ==
    ASSUME NEW g \in Geometries, NEW s, SheetOk(s),
           NEW fb \in [PixelsOf(g) -> Characters],
           NEW y \in 0 .. Height - 1, Picture(g, s, y, fb)
    PROVE  ShowsBelow(g, NewLine(s), y, fb)
<1> DEFINE d == NewLine(s)
           n == g.stride
           T == TopOf(s)
           f == Cleared(g, Copied(g, fb))
<1>0. Width \in Nat \ {0} /\ Height \in Nat \ {0}
  BY Sizes
<1>1. SheetOk(d) /\ d.ink = s.ink /\ d.line = s.line + 1 /\ d.x = 0
  <2>1. 0 \in 0 .. Width - 1
    BY <1>0
  <2> QED
    BY <2>1, PenMoves
<1> HIDE DEF d
<1>2. /\ s.line \in Nat /\ T \in Nat /\ T <= s.line
      /\ T = 0 => s.line < Height
      /\ T # 0 => T = s.line - Height + 1
      /\ \A i \in s.ink : i[1] <= s.line
  BY SheetFacts
<1>3. TopOf(d) = IF s.line + 1 < Height THEN 0 ELSE s.line - Height + 2
  BY <1>0, <1>1, <1>2 DEF TopOf
<1>4. Seen(g, d) => Seen(g, s)
  BY <1>0, <1>2, <1>3 DEF Seen, TopOf
<1>5. Seen(g, s) =>
        /\ y = s.line - T
        /\ \A r \in 0 .. Height - 1, k \in 0 .. Width - 1 : fb[r * n + k] = ShownOn(s, T + r, k)
  BY DEF Picture
<1>6. \A l, k : ShownOn(d, l, k) = ShownOn(s, l, k)
  BY <1>1, SameInk
<1> HIDE DEF T
<1>7. CASE ~Seen(g, d)
  BY <1>7 DEF ShowsBelow, Shows, Picture, d
<1>8. CASE Seen(g, d) /\ ~(y + 1 >= Height)
  <2>1. y = s.line - T
    BY <1>4, <1>5, <1>8
  <2>2. T = 0 /\ TopOf(d) = 0 /\ y + 1 = d.line - TopOf(d)
    BY <1>0, <1>1, <1>2, <1>3, <1>8, <2>1
  <2>3. \A r \in 0 .. Height - 1, k \in 0 .. Width - 1 :
            fb[r * n + k] = ShownOn(d, TopOf(d) + r, k)
    BY <1>4, <1>5, <1>6, <1>8, <2>2
  <2> QED
    BY <1>1, <1>8, <2>2, <2>3 DEF ShowsBelow, Shows, Picture, d
<1>9. CASE Seen(g, d) /\ y + 1 >= Height
  <2>1. y = s.line - T /\ y = Height - 1
    BY <1>0, <1>4, <1>5, <1>9
  <2>2. TopOf(d) = T + 1 /\ TopOf(d) # 0 /\ Height - 1 = d.line - TopOf(d)
    BY <1>0, <1>1, <1>2, <1>3, <2>1
  <2>3. g.size = Width * Height
    BY <1>9, <2>2 DEF Seen
  <2>4. n = Width /\ 2 * ((g.size - Width) \div 2) = g.size - Width
    BY <2>3, NoPadding
  <2>5. ASSUME NEW r \in 0 .. Height - 1, NEW k \in 0 .. Width - 1
        PROVE  f[r * n + k] = ShownOn(d, TopOf(d) + r, k)
    <3> DEFINE p == r * n + k
               w == r * Width
               h == Width * Height
    <3>1. p \in PixelsOf(g)
      BY OnScreen
    <3>2. r \in Nat /\ k \in Nat /\ w \in Nat /\ h \in Nat
      BY <1>0
    <3>3. f[p] = IF p >= h - Width THEN "space"
                 ELSE IF p < h - Width THEN fb[p + Width] ELSE fb[p]
      BY <2>3, <2>4, <3>1 DEF Cleared, Copied
    <3>4. p = w + k
      BY <2>4
    <3>5. CASE r = Height - 1
      <4>1. w = h - Width
        <5>1. \A a, b \in Int : (a - 1) * b = b * a - b
          OBVIOUS
        <5> QED
          BY <1>0, <3>5, <5>1
      <4> HIDE DEF p, w, h
      <4>2. f[p] = "space"
        BY <1>0, <3>2, <3>3, <3>4, <4>1
      <4>3. \A i \in s.ink : ~(i[1] = TopOf(d) + r /\ i[2] = k)
        <5>1. TopOf(d) + r = s.line + 1
          BY <1>0, <1>2, <2>1, <2>2, <3>5
        <5>2. \A i \in s.ink : i[1] \in Nat
          BY SheetFacts
        <5> QED
          BY <1>2, <5>1, <5>2
      <4> QED
        BY <1>6, <4>2, <4>3, ShownNothing DEF p
    <3>6. CASE r # Height - 1
      <4>1. r + 1 \in 0 .. Height - 1 /\ r + 1 \in Nat
        BY <1>0, <3>2, <3>6
      <4>2. w + Width <= h - Width /\ (r + 1) * Width = w + Width
        <5>1. (r + 1) * Width + Width <= Height * Width
          BY <1>0, <4>1, RowsBefore
        <5>2. \A a, b \in Int : (a + 1) * b = a * b + b /\ a * b = b * a
          OBVIOUS
        <5>3. (r + 1) * Width = w + Width /\ Height * Width = h
          BY <1>0, <3>2, <5>2
        <5> HIDE DEF w, h
        <5> QED
          BY <1>0, <3>2, <5>1, <5>3
      <4>3. fb[(r + 1) * n + k] = ShownOn(s, T + (r + 1), k)
        BY <1>4, <1>5, <1>9, <4>1
      <4>4. (r + 1) * n + k = p + Width
        <5> HIDE DEF p, w
        <5> QED
          BY <1>0, <2>4, <3>2, <3>4, <4>2
      <4>5. p < h - Width
        <5> HIDE DEF p, w, h
        <5> QED
          BY <1>0, <3>2, <3>4, <4>2
      <4>6. f[p] = fb[p + Width]
        <5> HIDE DEF f, w, h
        <5>1. p \in Int /\ h - Width \in Int
          BY <1>0, <3>2, <3>4
        <5> HIDE DEF p
        <5> QED
          BY <3>3, <4>5, <5>1
      <4>7. T + (r + 1) = TopOf(d) + r
        BY <1>2, <2>2, <3>2
      <4> QED
        BY <1>6, <4>3, <4>4, <4>6, <4>7
    <3> QED
      BY <3>5, <3>6
  <2> QED
    <3>1. Shows(g, d, 0, Height - 1, f)
      BY <1>1, <2>2, <2>5 DEF Shows, Picture
    <3> QED
      BY <1>9, <3>1 DEF ShowsBelow, d
<1> QED
  BY <1>7, <1>8, <1>9 DEF d

LEMMA AdvanceShows ==
    ASSUME NEW g \in Geometries, NEW s, SheetOk(s),
           NEW fb \in [PixelsOf(g) -> Characters],
           NEW x \in Nat, NEW y \in 0 .. Height - 1, Picture(g, s, y, fb)
    PROVE  SheetOk(Advance(s, x)) /\ ShowsFrom(g, Advance(s, x), x, y, fb)
<1>0. Width \in Nat \ {0} /\ 0 \in 0 .. Width - 1
  BY Sizes
<1>1. CASE x >= Width
  <2>1. Advance(s, x) = NewLine(s)
    BY <1>1 DEF Advance
  <2>2. SheetOk(NewLine(s))
    BY <1>0, PenMoves
  <2> QED
    BY <1>1, <2>1, <2>2, BelowShows DEF ShowsFrom
<1>2. CASE ~(x >= Width)
  <2> DEFINE d == [s EXCEPT !.x = x]
  <2>1. Advance(s, x) = d
    BY <1>2 DEF Advance
  <2>2. x \in 0 .. Width - 1
    BY <1>0, <1>2
  <2>3. SheetOk(d) /\ d.ink = s.ink /\ d.line = s.line /\ d.x = x /\ TopOf(d) = TopOf(s)
    BY <2>2, PenMoves
  <2> HIDE DEF d
  <2>4. \A l, k : ShownOn(d, l, k) = ShownOn(s, l, k)
    BY <2>3, SameInk
  <2>5. Shows(g, d, x, y, fb)
    BY <2>3, <2>4 DEF Shows, Picture, Seen
  <2> QED
    BY <1>2, <2>1, <2>3, <2>5 DEF ShowsFrom
<1> QED
  BY <1>1, <1>2

\* The screen is cleared.
LEMMA ClearShows ==
    ASSUME NEW g \in Geometries, NEW fb \in [PixelsOf(g) -> Characters]
    PROVE  LET d == [ink |-> {}, line |-> 0, x |-> 0]
           IN  SheetOk(d) /\ Shows(g, d, 0, 0, Filled(g, fb))
<1> DEFINE d == [ink |-> {}, line |-> 0, x |-> 0]
           n == g.stride
<1>0. /\ Width \in Nat \ {0} /\ Height \in Nat \ {0} /\ 0 \in 0 .. Width - 1
      /\ n \in Nat \ {0} /\ n >= Width
  BY Sizes, GeometryFacts
<1>1. d.ink = {} /\ d.line = 0 /\ d.x = 0 /\ d \in Sheets
  BY <1>0 DEF Sheets
<1> HIDE DEF d
<1>2. SheetOk(d) /\ TopOf(d) = 0
  BY <1>0, <1>1 DEF SheetOk, TopOf
<1>3. ASSUME NEW r \in 0 .. Height - 1, NEW k \in 0 .. Width - 1
      PROVE  Filled(g, fb)[r * n + k] = "space"
  <2>1. r * n + k \in PixelsOf(g)
    BY OnScreen
  <2>2. r \in Nat /\ k \in Nat /\ k < n
    BY <1>0
  <2>3. (r * n + k) % n = k /\ (r * n + k) \div n = r
    <3> HIDE DEF n
    <3> DEFINE p == r * n + k
               q == p \div n
               m == p % n
    <3>1. p \in Nat /\ q \in Nat /\ m \in 0 .. n - 1 /\ p = q * n + m
      <4>1. p \in Nat
        BY <1>0, <2>2
      <4> HIDE DEF p
      <4> QED
        BY <1>0, <4>1
    <3>2. q < r => q * n + n <= r * n
      BY <1>0, <2>2, <3>1, RowsBefore
    <3>3. r < q => r * n + n <= q * n
      BY <1>0, <2>2, <3>1, RowsBefore
    <3>4. r * n \in Nat /\ q * n \in Nat /\ p = r * n + k
      BY <1>0, <2>2, <3>1
    <3> HIDE DEF p, q, m
    <3>5. q = r
      BY <1>0, <2>2, <3>1, <3>2, <3>3, <3>4
    <3>6. m = k
      BY <1>0, <2>2, <3>1, <3>4, <3>5
    <3> QED
      BY <3>5, <3>6 DEF p, q, m
  <2> DEFINE p == r * n + k
  <2>4. p \in PixelsOf(g) /\ p % g.stride = k /\ p \div g.stride = r
    BY <2>1, <2>3
  <2> HIDE DEF p
  <2>5. Filled(g, fb)[p] = "space"
    BY <1>0, <2>4 DEF Filled
  <2> QED
    BY <2>5 DEF p
<1>4. \A l, k : ShownOn(d, l, k) = "space"
  BY <1>1, ShownNothing
<1>5. Shows(g, d, 0, 0, Filled(g, fb))
  <2>1. 0 = d.line - TopOf(d)
    BY <1>1, <1>2
  <2> QED
    BY <1>1, <1>3, <1>4, <2>1 DEF Shows, Picture
<1> QED
  BY <1>2, <1>5 DEF d

\* Every character has a sheet to be written on, and where the screen did not show
\* the old one, it need not show the new one, unless it is cleared.
LEMMA WriteFacts ==
    ASSUME NEW s, SheetOk(s), NEW ch \in Kinds \ {"space", "clear"}
    PROVE  /\ SheetOk(Write(s, ch)) /\ s.line <= Write(s, ch).line
           /\ \A g : Seen(g, Write(s, ch)) => Seen(g, s)
<1> DEFINE d == Write(s, ch)
<1>0. /\ Width \in Nat \ {0} /\ 0 \in 0 .. Width - 1 /\ s.line \in Nat
      /\ s.x \in 0 .. Width - 1 /\ s.x \in Nat /\ s \in Sheets
  BY Sizes, SheetFacts
<1>1. ASSUME NEW e, SheetOk(e), e.line = s.line, NEW x \in Nat
      PROVE  SheetOk(Advance(e, x)) /\ s.line <= Advance(e, x).line
  <2>1. CASE x >= Width
    <3>1. SheetOk(NewLine(e)) /\ NewLine(e).line = e.line + 1
      BY <1>0, <1>1, PenMoves
    <3> QED
      BY <1>0, <1>1, <2>1, <3>1 DEF Advance
  <2>2. CASE ~(x >= Width)
    <3> DEFINE f == [e EXCEPT !.x = x]
    <3>1. x \in 0 .. Width - 1
      BY <1>0, <2>2
    <3>2. SheetOk(f) /\ f.line = e.line
      BY <1>1, <3>1, PenMoves
    <3>3. Advance(e, x) = f
      BY <2>2 DEF Advance
    <3> HIDE DEF f
    <3> QED
      BY <1>0, <1>1, <3>2, <3>3
  <2> QED
    BY <2>1, <2>2
<1>2. SheetOk(d) /\ s.line <= d.line
  <2>1. CASE ch = "\n"
    <3>1. SheetOk(NewLine(s)) /\ NewLine(s).line = s.line + 1
      BY <1>0, PenMoves
    <3> QED
      BY <1>0, <2>1, <3>1 DEF Write
  <2>2. CASE ch = "\r"
    <3> DEFINE e == [s EXCEPT !.x = 0]
    <3>1. SheetOk(e) /\ e.line = s.line
      BY <1>0, PenMoves
    <3>2. d = e
      BY <2>2 DEF Write
    <3> HIDE DEF e, d
    <3> QED
      BY <1>0, <3>1, <3>2 DEF d
  <2>3. CASE ch = "\t"
    <3>1. NextTab(s.x) \in Nat
      BY <1>0, TabFacts
    <3> QED
      BY <1>0, <1>1, <2>3, <3>1 DEF Write
  <2>4. CASE ch = "erase" /\ s.x = 0
    BY <1>0, <2>4 DEF Write
  <2>5. CASE ch = "erase" /\ s.x # 0
    <3> DEFINE e == [s EXCEPT !.x = s.x - 1]
    <3>1. s.x - 1 \in 0 .. Width - 1
      BY <1>0, <2>5
    <3>2. SheetOk(e) /\ e.line = s.line
      BY <3>1, PenMoves
    <3>3. d = Put(e, "space")
      BY <2>5 DEF Write
    <3> HIDE DEF e, d
    <3>4. SheetOk(d) /\ d.line = s.line
      BY <3>2, <3>3, PutFacts DEF Characters
    <3> QED
      BY <1>0, <3>4 DEF d
  <2>6. CASE ch \in Printable
    <3> DEFINE e == Put(s, ch)
    <3>1. ch \in Characters
      BY <2>6 DEF Printable, Characters
    <3>2. SheetOk(e) /\ e.line = s.line
      BY <3>1, PutFacts
    <3>3. d = Advance(e, s.x + 1) /\ s.x + 1 \in Nat
      BY <1>0, <2>6 DEF Write, Printable
    <3> HIDE DEF e, d
    <3> QED
      BY <1>1, <3>2, <3>3 DEF d
  <2> HIDE DEF d
  <2> QED
    BY <2>1, <2>2, <2>3, <2>4, <2>5, <2>6 DEF Kinds
<1> HIDE DEF d
<1>3. TopOf(d) = 0 => TopOf(s) = 0
  BY <1>0, <1>2, SheetFacts, Sizes DEF TopOf
<1>4. \A g : Seen(g, d) => Seen(g, s)
  BY <1>3 DEF Seen
<1> QED
  BY <1>2, <1>4 DEF d

\* A character begins on a screen that shows the sheet: what is to be done for it
\* makes the screen show the sheet with the character.
LEMMA BeginShows ==
    ASSUME NEW g \in Geometries, NEW s, SheetOk(s),
           NEW fb \in [PixelsOf(g) -> Characters],
           NEW x \in 0 .. Width - 1, NEW y \in 0 .. Height - 1, Shows(g, s, x, y, fb),
           NEW ch \in Kinds \ {"space"}
    PROVE  /\ ch \in Printable => ShowsFrom(g, Write(s, ch), x + 1, y, Drawn(g, fb, x, y, ch))
           /\ ch = "\n" => ShowsBelow(g, Write(s, ch), y, fb)
           /\ ch = "\r" => Shows(g, Write(s, ch), 0, y, fb)
           /\ ch = "\t" => ShowsFrom(g, Write(s, ch), NextTab(x), y, fb)
           /\ ch = "erase" => IF x > 0 THEN Shows(g, Write(s, ch), x - 1, y,
                                                  Drawn(g, fb, x - 1, y, "space"))
                                       ELSE Shows(g, Write(s, ch), x, y, fb)
           /\ ch = "clear" => Shows(g, Write(s, ch), 0, 0, Filled(g, fb))
<1> DEFINE d == Write(s, ch)
<1>0. /\ Width \in Nat \ {0} /\ 0 \in 0 .. Width - 1 /\ x \in Nat /\ s.x \in 0 .. Width - 1
      /\ "space" \in Characters
  BY Sizes, SheetFacts DEF Characters
<1>1. CASE ch = "clear"
  <2>1. d = [ink |-> {}, line |-> 0, x |-> 0]
    BY <1>1 DEF Write
  <2>2. Shows(g, d, 0, 0, Filled(g, fb))
    BY <2>1, ClearShows
  <2> QED
    BY <1>1, <2>2 DEF Printable
<1>2. CASE ch # "clear" /\ ~Seen(g, d)
  <2> HIDE DEF d
  <2>1. \A i, j, f : ShowsFrom(g, d, i, j, f) /\ ShowsBelow(g, d, j, f) /\ Shows(g, d, i, j, f)
    BY <1>2 DEF ShowsFrom, ShowsBelow, Shows, Picture
  <2> QED
    BY <1>2, <2>1 DEF d
<1>3. CASE ch # "clear" /\ Seen(g, d)
  <2>1. Seen(g, s)
    BY <1>3, WriteFacts
  <2>2. x = s.x /\ Picture(g, s, y, fb)
    BY <2>1 DEF Shows
  <2>3. ASSUME ch \in Printable
        PROVE  ShowsFrom(g, d, x + 1, y, Drawn(g, fb, x, y, ch))
    <3> DEFINE e == Put(s, ch)
               f == Drawn(g, fb, x, y, ch)
    <3>1. ch \in Characters
      BY <2>3 DEF Printable, Characters
    <3>2. SheetOk(e)
      BY <3>1, PutFacts
    <3>3. Shows(g, e, x, y, f)
      BY <3>1, DrawnShows
    <3>4. f \in [PixelsOf(g) -> Characters]
      BY <3>1 DEF Drawn
    <3>5. d = Advance(e, x + 1) /\ x + 1 \in Nat
      BY <1>0, <2>2, <2>3 DEF Write, Printable
    <3> HIDE DEF d, e, f
    <3>6. Picture(g, e, y, f)
      BY <3>3 DEF Shows
    <3>7. ShowsFrom(g, d, x + 1, y, f)
      BY <3>2, <3>4, <3>5, <3>6, AdvanceShows
    <3> QED
      BY <3>7 DEF f
  <2>4. ASSUME ch = "\n"
        PROVE  ShowsBelow(g, d, y, fb)
    <3>1. d = NewLine(s)
      BY <2>4 DEF Write
    <3> QED
      BY <2>2, <3>1, BelowShows
  <2>5. ASSUME ch = "\r"
        PROVE  Shows(g, d, 0, y, fb)
    <3> DEFINE e == [s EXCEPT !.x = 0]
    <3>1. d = e
      BY <2>5 DEF Write
    <3>2. SheetOk(e) /\ e.ink = s.ink /\ e.line = s.line /\ e.x = 0 /\ TopOf(e) = TopOf(s)
      BY <1>0, PenMoves
    <3> HIDE DEF d, e
    <3> QED
      BY <2>2, <3>1, <3>2, SameInk DEF Shows, Picture, Seen
  <2>6. ASSUME ch = "\t"
        PROVE  ShowsFrom(g, d, NextTab(x), y, fb)
    <3>1. d = Advance(s, NextTab(x)) /\ NextTab(x) \in Nat
      BY <1>0, <2>2, <2>6, TabFacts DEF Write
    <3> QED
      BY <2>2, <3>1, AdvanceShows
  <2>7. ASSUME ch = "erase", x > 0
        PROVE  Shows(g, d, x - 1, y, Drawn(g, fb, x - 1, y, "space"))
    <3> DEFINE e == [s EXCEPT !.x = x - 1]
    <3>1. d = Put(e, "space")
      BY <1>0, <2>2, <2>7 DEF Write
    <3>2. x - 1 \in 0 .. Width - 1
      BY <1>0, <2>7
    <3>3. SheetOk(e) /\ e.ink = s.ink /\ e.line = s.line /\ e.x = x - 1 /\ TopOf(e) = TopOf(s)
      BY <3>2, PenMoves
    <3> HIDE DEF d, e
    <3>4. Shows(g, e, x - 1, y, fb)
      BY <2>2, <3>3, SameInk DEF Shows, Picture, Seen
    <3> QED
      BY <1>0, <3>1, <3>2, <3>3, <3>4, DrawnShows
  <2>8. ASSUME ch = "erase", ~(x > 0)
        PROVE  Shows(g, d, x, y, fb)
    <3>1. d = s
      BY <1>0, <2>2, <2>8 DEF Write
    <3> QED
      BY <3>1
  <2> HIDE DEF d
  <2> QED
    BY <1>3, <2>3, <2>4, <2>5, <2>6, <2>7, <2>8 DEF d
<1> QED
  BY <1>1, <1>2, <1>3

LEMMA BeginScreen ==
    ASSUME IInv, ScreenInv, NEW ch \in text.chars, Begin(ch)
    PROVE  ScreenInv'
<1> DEFINE at == CASE ch \in Printable -> "draw"    [] ch = "\n" -> "newline"
                   [] ch = "\t" -> "tab"            [] ch = "\r" -> "return"
                   [] ch = "erase" -> "backspace"   [] ch = "clear" -> "clear"
<1>1. /\ main.at = "idle" /\ UNCHANGED <<geo, con, disturbed>>
      /\ main' = [at |-> at, ch |-> ch, reg |-> 0]
      /\ sheet' = IF disturbed THEN sheet ELSE Write(sheet, ch)
  BY DEF Begin, Idle
<1>2. ch \in Kinds \ {"space"}
  BY DEF IInv, TypeInv
<1>3. SheetOk(sheet)
  BY DEF ScreenInv
<1>4. SheetOk(Write(sheet, ch))
  <2>1. CASE ch = "clear"
    <3>1. Write(sheet, ch) = [ink |-> {}, line |-> 0, x |-> 0]
      BY <2>1 DEF Write
    <3>2. geo \in Geometries
      BY StateFacts
    <3>3. con.fb \in [PixelsOf(geo) -> Characters]
      BY StateFacts DEF Consoles, Pixels, PixelsOf
    <3> QED
      BY <3>1, <3>2, <3>3, ClearShows
  <2>2. CASE ch # "clear"
    BY <1>2, <1>3, <2>2, WriteFacts
  <2> QED
    BY <2>1, <2>2
<1>5. CASE disturbed
  BY <1>1, <1>3, <1>5 DEF ScreenInv
<1>6. CASE ~disturbed
  <2>1. /\ con.x \in 0 .. Width - 1 /\ con.y \in 0 .. Height - 1 /\ geo \in Geometries
        /\ con.fb \in [PixelsOf(geo) -> Characters]
    BY <1>1, StateFacts, Sizes DEF CursorOk, OffRight, OffBelow, Consoles, Pixels, PixelsOf
  <2>2. Shows(geo, sheet, con.x, con.y, con.fb)
    BY <1>1, <1>6 DEF ScreenInv, Pending
  <2> DEFINE s == Write(sheet, ch)
             x == con.x
             y == con.y
             fb == con.fb
  <2>3. /\ ch \in Printable => ShowsFrom(geo, s, x + 1, y, Drawn(geo, fb, x, y, ch))
        /\ ch = "\n" => ShowsBelow(geo, s, y, fb)
        /\ ch = "\r" => Shows(geo, s, 0, y, fb)
        /\ ch = "\t" => ShowsFrom(geo, s, NextTab(x), y, fb)
        /\ ch = "erase" => IF x > 0 THEN Shows(geo, s, x - 1, y,
                                               Drawn(geo, fb, x - 1, y, "space"))
                                    ELSE Shows(geo, s, x, y, fb)
        /\ ch = "clear" => Shows(geo, s, 0, 0, Filled(geo, fb))
    BY <1>2, <1>3, <2>1, <2>2, BeginShows
  <2> HIDE DEF s
  <2>4. Pending(geo, s, con, at, ch, 0)
    <3>1. CASE ch \in Printable
      BY <2>3, <3>1 DEF Pending
    <3>2. CASE ch = "\n"
      BY <2>3, <3>2 DEF Pending, Printable
    <3>3. CASE ch = "\r"
      BY <2>3, <3>3 DEF Pending, Printable
    <3>4. CASE ch = "\t"
      BY <2>3, <3>4 DEF Pending, Printable
    <3>5. CASE ch = "erase"
      BY <2>3, <3>5 DEF Pending, Printable
    <3>6. CASE ch = "clear"
      BY <2>3, <3>6 DEF Pending, Printable
    <3> QED
      BY <1>2, <3>1, <3>2, <3>3, <3>4, <3>5, <3>6 DEF Kinds
  <2>5. sheet' = s /\ main'.at = at /\ main'.ch = ch /\ main'.reg = 0
    BY <1>1, <1>6 DEF s
  <2> HIDE DEF at
  <2>6. Pending(geo, sheet, con, main.at, main.ch, main.reg)'
    BY <1>1, <2>4, <2>5
  <2> QED
    BY <1>4, <2>5, <2>6 DEF ScreenInv, s
<1> QED
  BY <1>5, <1>6

\* A handler's character between two of the main flow's.
LEMMA TimerShows ==
    ASSUME IInv, ScreenInv, Idle, ~disturbed
    PROVE  LET d == console_putchar(con, "T")
               s == Write(sheet, "T")
           IN  SheetOk(s) /\ Shows(geo, s, d.x, d.y, d.fb)
<1> DEFINE d == console_putchar(con, "T")
           s == Write(sheet, "T")
           e == DrawChar(con, "T")
           f == [e EXCEPT !.x = @ + 1]
<1>0. /\ geo \in Geometries /\ con \in Consoles /\ "T" \in Characters
      /\ con.x < Width /\ con.y < Height /\ con.x \in Nat /\ con.y \in Nat
      /\ Width \in Nat \ {0} /\ Height \in Nat \ {0}
  BY StateFacts, Sizes DEF Idle, CursorOk, OffRight, OffBelow
<1>1. con.x \in 0 .. Width - 1 /\ con.y \in 0 .. Height - 1
  BY <1>0
<1>2. con.fb \in [PixelsOf(geo) -> Characters]
  BY <1>0 DEF Consoles, Pixels, PixelsOf
<1>3. SheetOk(sheet) /\ Shows(geo, sheet, con.x, con.y, con.fb)
  BY DEF ScreenInv, Pending, Idle
<1>4. "T" \in Kinds \ {"space", "clear"} /\ "T" \in Printable
  BY DEF Kinds, Printable
<1>5. SheetOk(s)
  BY <1>3, <1>4, WriteFacts
<1>6. ShowsFrom(geo, s, con.x + 1, con.y, Drawn(geo, con.fb, con.x, con.y, "T"))
  BY <1>0, <1>1, <1>2, <1>3, <1>4, BeginShows
<1>7. /\ e \in Consoles /\ e.x = con.x /\ e.y = con.y
      /\ e.fb = Drawn(geo, con.fb, con.x, con.y, "T")
  BY <1>0, DrawFacts
<1> HIDE DEF e, s
<1>8. /\ f \in Consoles /\ f.x = con.x + 1 /\ f.y = con.y
      /\ f.fb = Drawn(geo, con.fb, con.x, con.y, "T")
  BY <1>0, <1>7 DEF Consoles
<1>9. d = IF f.x >= Width THEN newline(f) ELSE f
  BY DEF console_putchar, e
<1> HIDE DEF f, d
<1>10. CASE f.x >= Width
  <2>1. ShowsBelow(geo, s, f.y, f.fb)
    BY <1>6, <1>8, <1>10 DEF ShowsFrom
  <2>2. /\ d.x = 0
        /\ f.y + 1 >= Height => d.y = Height - 1 /\ d.fb = Cleared(geo, Copied(geo, f.fb))
        /\ ~(f.y + 1 >= Height) => d.y = f.y + 1 /\ d.fb = f.fb
    BY <1>0, <1>8, <1>9, <1>10, NewlineFacts
  <2> QED
    BY <1>5, <2>1, <2>2 DEF ShowsBelow, d, s
<1>11. CASE ~(f.x >= Width)
  BY <1>5, <1>6, <1>8, <1>9, <1>11 DEF ShowsFrom, d, s
<1> QED
  BY <1>10, <1>11

LEMMA InterruptScreen ==
    ASSUME IInv, ScreenInv, Interrupt
    PROVE  ScreenInv'
<1>1. UNCHANGED <<geo, main>> /\ SheetOk(sheet)
  BY InterruptCases DEF ScreenInv
<1>2. CASE Prints(console_putchar(con, "T"), "T")
  <2>1. CASE Idle /\ ~disturbed
    <3> DEFINE d == console_putchar(con, "T")
               s == Write(sheet, "T")
    <3>1. con' = d /\ sheet' = s /\ disturbed' = disturbed
      BY <1>2, <2>1 DEF Prints
    <3>2. SheetOk(s) /\ Shows(geo, s, d.x, d.y, d.fb)
      BY <2>1, TimerShows
    <3> HIDE DEF d, s
    <3>3. main'.at = "idle"
      BY <1>1, <2>1 DEF Idle
    <3>4. Pending(geo, sheet, con, main.at, main.ch, main.reg)'
      BY <1>1, <3>1, <3>2, <3>3 DEF Pending
    <3> QED
      BY <3>1, <3>2, <3>4 DEF ScreenInv
  <2>2. CASE ~(Idle /\ ~disturbed)
    <3>1. sheet' = sheet /\ disturbed' = TRUE
      BY <1>2, <2>2 DEF Prints, IInv, TypeInv
    <3> QED
      BY <1>1, <3>1 DEF ScreenInv
  <2> QED
    BY <2>1, <2>2
<1>3. CASE UNCHANGED <<con, sheet, disturbed>>
  BY <1>1, <1>3 DEF ScreenInv
<1>4. CASE disturbed' = TRUE /\ sheet' = sheet
  BY <1>1, <1>4 DEF ScreenInv
<1> QED
  BY <1>2, <1>3, <1>4, InterruptCases

LEMMA NextScreen == IInv /\ ScreenInv /\ [Next]_vars => ScreenInv'
<1> SUFFICES ASSUME IInv, ScreenInv, [Next]_vars
             PROVE  ScreenInv'
  OBVIOUS
<1>1. ASSUME NEW ch \in text.chars, Begin(ch)
      PROVE  ScreenInv'
  BY <1>1, BeginScreen
<1>2. CASE Printing
  <2>1. Unfinished => Unfinished'
    BY <1>2, PrintingStep
  <2>2. sheet' = sheet /\ disturbed' = disturbed
    BY <1>2 DEF Printing, Draw, ReadX, StoreX, Tab, Return, Backspace, Back, Erase,
                NewlineX, ReadY, StoreY, Copy, Blank, Last, Fill, HomeX, HomeY, Step
  <2> QED
    BY <2>1, <2>2 DEF ScreenInv, Unfinished
<1>3. CASE Interrupt
  BY <1>3, InterruptScreen
<1>4. CASE interrupts_enable \/ TimerExpires \/ KeyComes \/ Spurious \/ UNCHANGED vars
  <2>1. UNCHANGED <<geo, con, main, sheet, disturbed>>
    BY <1>4 DEF interrupts_enable, TimerExpires, KeyComes, Spurious, Request, vars
  <2> QED
    BY <2>1 DEF ScreenInv
<1> QED
  BY <1>1, <1>2, <1>3, <1>4 DEF Next

LEMMA InitScreen == Init => ScreenInv
<1> SUFFICES ASSUME Init
             PROVE  ScreenInv
  OBVIOUS
<1>0. Width \in Nat \ {0} /\ Height \in Nat \ {0} /\ geo \in Geometries
  BY Sizes DEF Init
<1>1. PICK x \in 0 .. Width - 1, y \in 0 .. Height - 1 :
          /\ con = [x |-> x, y |-> y, fb |-> [p \in 0 .. geo.size - 1 |-> "space"],
                    stray |-> FALSE]
          /\ sheet = [ink |-> {}, line |-> y, x |-> x]
  BY DEF Init
<1>2. y \in Nat /\ y < Height /\ main.at = "idle"
  BY <1>0 DEF Init
<1>3. SheetOk(sheet) /\ TopOf(sheet) = 0 /\ sheet.ink = {} /\ sheet.line = y /\ sheet.x = x
  BY <1>1, <1>2 DEF SheetOk, Sheets, TopOf
<1>4. \A l, k : ShownOn(sheet, l, k) = "space"
  BY <1>3, ShownNothing
<1>5. ASSUME NEW r \in 0 .. Height - 1, NEW k \in 0 .. Width - 1
      PROVE  con.fb[r * geo.stride + k] = "space"
  <2> DEFINE p == r * geo.stride + k
  <2>1. p \in PixelsOf(geo)
    BY <1>0, OnScreen
  <2> HIDE DEF p
  <2>2. con.fb[p] = "space"
    BY <1>1, <2>1 DEF PixelsOf
  <2> QED
    BY <2>2 DEF p
<1>6. Shows(geo, sheet, con.x, con.y, con.fb)
  <2>1. con.x = x /\ con.y = y /\ y = y - 0
    BY <1>1, <1>2
  <2> QED
    BY <1>3, <1>4, <1>5, <2>1 DEF Shows, Picture
<1> QED
  BY <1>2, <1>3, <1>6 DEF ScreenInv, Pending

\* Unless a handler printed in the middle of it, what was printed is on the screen and
\* nothing else, with all that wrapping, scrolling, tabs and erasing do.
THEOREM ScreenIsTrue == Spec => []ScreenTrue
<1>1. IInv /\ ScreenInv => ScreenTrue
  <2> SUFFICES ASSUME IInv, ScreenInv, Idle, ~disturbed, geo.size = Width * Height \/ Top = 0
               PROVE  /\ con.x = sheet.x /\ con.y = sheet.line - Top
                      /\ \A y \in 0 .. Height - 1, x \in 0 .. Width - 1 :
                             con.fb[y * geo.stride + x] = Shown(Top + y, x)
    BY DEF ScreenTrue
  <2>1. Top = TopOf(sheet) /\ \A l, k : Shown(l, k) = ShownOn(sheet, l, k)
    BY DEF Top, TopOf, Shown, ShownOn
  <2>2. Shows(geo, sheet, con.x, con.y, con.fb)
    BY DEF ScreenInv, Pending, Idle
  <2>3. Seen(geo, sheet)
    BY <2>1 DEF Seen
  <2> QED
    BY <2>1, <2>2, <2>3 DEF Shows, Picture
<1>2. Spec => []ScreenInv
  BY InitScreen, Invariance, NextScreen, PTL DEF Spec
<1> QED
  BY Invariance, <1>1, <1>2, PTL

=============================================================================
