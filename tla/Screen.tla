------------------------------- MODULE Screen -------------------------------
(***************************************************************************)
(* Where characters appear: fb_init and _putchar of framebuffer.c.  A      *)
(* screen is the cursor, in pixels, and the glyphs drawn so far; colours   *)
(* are in PanicConsole, font and pixels are data.  The module only offers  *)
(* operators: Printf keeps the screen.                                     *)
(***************************************************************************)
EXTENDS Integers, Sequences

CONSTANTS
  FONT_WIDTH, FONT_HEIGHT,
  FbWidth, FbHeight,    \* fb->width, fb->height
  Margin                \* on every side: kmain asks for the same four times

Newline == "\n"

(* A narrower framebuffer makes x_max wrap around. *)
ASSUME ScreenAssumption ==
  /\ {FONT_WIDTH, FONT_HEIGHT} \subseteq Nat \ {0} /\ {FbWidth, FbHeight, Margin} \subseteq Nat
  /\ FbWidth >= FONT_WIDTH + 2 * Margin /\ FbHeight >= FONT_HEIGHT + 2 * Margin

x_min == Margin
y_min == Margin
x_max == FbWidth - FONT_WIDTH - Margin
y_max == FbHeight - FONT_HEIGHT - Margin

Columns == (x_max - x_min) \div FONT_WIDTH + 1

(* The screen as earlier text leaves it, in a column of a row. *)
Cursor(column, row) ==
  [x |-> x_min + column * FONT_WIDTH, y |-> y_min + row * FONT_HEIGHT, glyphs |-> <<>>]

NextRow(screen) == [screen EXCEPT !.x = x_min, !.y = @ + FONT_HEIGHT]

FullAtTheEdge(x) == x > FbWidth - Margin     \* mutant: the width of the glyph is forgotten

Full(x) == x > x_max

(* A glyph that ends the row moves the cursor at once. *)
Draw(screen, char) ==
  LET right == [screen EXCEPT !.x = @ + FONT_WIDTH,
                              !.glyphs = Append(@, [char |-> char, x |-> screen.x, y |-> screen.y])]
  IN  IF Full(right.x) THEN NextRow(right) ELSE right

_putchar(screen, char) == IF char = Newline THEN NextRow(screen) ELSE Draw(screen, char)

-----------------------------------------------------------------------------
Before(g, h) == g.y + FONT_HEIGHT <= h.y \/ (g.y = h.y /\ g.x + FONT_WIDTH <= h.x)

(* No glyph is drawn over another or out of the order of the text.         *)
ReadingOrder(glyphs) == \A j, k \in 1 .. Len(glyphs) : j < k => Before(glyphs[j], glyphs[k])

BetweenMargins(glyphs) ==
  \A k \in 1 .. Len(glyphs) : glyphs[k].x >= Margin /\ glyphs[k].x + FONT_WIDTH <= FbWidth - Margin

AboveTheEnd(glyphs) ==
  \A k \in 1 .. Len(glyphs) : glyphs[k].y + FONT_HEIGHT <= FbHeight - Margin
=============================================================================
