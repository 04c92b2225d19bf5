------------------------------ MODULE Console ------------------------------
(***************************************************************************)
(* console/console.c: the text console with its scroll-back.  Lines have   *)
(* absolute numbers; the last CONSOLE_HISTORY_LINES of them are kept in a  *)
(* ring, and the screen shows VGA_HEIGHT of them from viewport_top on.     *)
(*                                                                         *)
(* The state is one record c with the names of the source; a function      *)
(* takes it and returns the new one, since a call prints many characters.  *)
(* Colours are left out.  console_write_at, console_put_char_at and        *)
(* console_clear_line have no caller.                                      *)
(***************************************************************************)
EXTENDS Naturals, Integers, Sequences

CONSTANTS
  VGA_WIDTH, VGA_HEIGHT,     \* 80, 25
  CONSOLE_HISTORY_LINES,     \* 512
  SIZE_RANGE                 \* 2^32: size_t is unsigned

ASSUME ConsoleAssumption ==
  /\ VGA_WIDTH \in Nat \ {0} /\ VGA_HEIGHT \in Nat \ {0}
  /\ CONSOLE_HISTORY_LINES \in Nat /\ CONSOLE_HISTORY_LINES >= VGA_HEIGHT
  /\ SIZE_RANGE \in Nat

Columns == 0 .. VGA_WIDTH - 1
ScreenRows == 0 .. VGA_HEIGHT - 1
BlankRow == [col \in Columns |-> " "]

history_slot(row) == row % CONSOLE_HISTORY_LINES

clear_history_row(c, row) == [c EXCEPT !.history[history_slot(row)] = BlankRow]

bottom_viewport_top(c) ==
  IF c.cursor_row + 1 <= VGA_HEIGHT THEN 0 ELSE c.cursor_row - (VGA_HEIGHT - 1)

console_is_scrolled(c) == c.viewport_top # bottom_viewport_top(c)

\* What render_viewport shows in a row of the screen.
RenderedRow(c, screen_row) ==
  LET row == c.viewport_top + screen_row IN
  IF row >= c.history_first_row /\ row < c.history_first_row + c.history_row_count
  THEN c.history[history_slot(row)] ELSE BlankRow

render_viewport(c) == [c EXCEPT !.screen = [r \in ScreenRows |-> RenderedRow(c, r)]]

clamp_viewport(c) ==
  LET bottom == bottom_viewport_top(c)
      top == IF c.viewport_top < c.history_first_row THEN c.history_first_row ELSE c.viewport_top
  IN [c EXCEPT !.viewport_top = IF top > bottom THEN bottom ELSE top]

\* Mutant: the oldest line stays in the count when the ring is full.
advance_without_dropping(c) ==
  LET next == [c EXCEPT !.cursor_row = @ + 1, !.history_row_count = @ + 1]
  IN clamp_viewport(clear_history_row(next, next.cursor_row))

\* A full ring drops its oldest line.
advance_to_next_line(c) ==
  LET next == IF c.history_row_count < CONSOLE_HISTORY_LINES
              THEN [c EXCEPT !.cursor_row = @ + 1, !.history_row_count = @ + 1]
              ELSE [c EXCEPT !.cursor_row = @ + 1, !.history_first_row = @ + 1]
  IN clamp_viewport(clear_history_row(next, next.cursor_row))

console_init ==
  [cursor_row |-> 0, cursor_col |-> 0, viewport_top |-> 0,
   history_first_row |-> 0, history_row_count |-> 1,
   history |-> [slot \in 0 .. CONSOLE_HISTORY_LINES - 1 |-> BlankRow],
   screen |-> [r \in ScreenRows |-> BlankRow]]

\* The lines other than the first keep what they held; it is not shown.
console_clear(c) ==
  LET cleared == [c EXCEPT !.cursor_row = 0, !.cursor_col = 0, !.viewport_top = 0,
                           !.history_first_row = 0, !.history_row_count = 1]
  IN render_viewport(clear_history_row(cleared, 0))

\* The three branches of console_put_char: newline, backspace, character.
Newline(c) == advance_to_next_line([c EXCEPT !.cursor_col = 0])

Backspace(c) ==
  IF c.cursor_col = 0 THEN c
  ELSE [c EXCEPT !.cursor_col = @ - 1,
                 !.history[history_slot(c.cursor_row)][c.cursor_col - 1] = " "]

Character(c, ch) ==
  LET put == [c EXCEPT !.history[history_slot(c.cursor_row)][c.cursor_col] = ch,
                       !.cursor_col = @ + 1]
  IN IF put.cursor_col >= VGA_WIDTH
     THEN advance_to_next_line([put EXCEPT !.cursor_col = 0]) ELSE put

\* Mutant: the view follows the output also while the user reads back.
Follow_always(before, c) == [c EXCEPT !.viewport_top = bottom_viewport_top(c)]

\* A view at the bottom stays there; any other stays where it is.
Follow(before, c) ==
  IF console_is_scrolled(before) THEN clamp_viewport(c)
  ELSE [c EXCEPT !.viewport_top = bottom_viewport_top(c)]

console_put_char(c, ch) ==
  render_viewport(Follow(c, CASE ch = "\n" -> Newline(c)
                              [] ch = "BS" -> Backspace(c)
                              [] OTHER -> Character(c, ch)))

console_write(c, text) ==
  LET Written[n \in 0 .. Len(text)] ==
        IF n = 0 THEN c ELSE console_put_char(Written[n - 1], text[n])
  IN Written[Len(text)]

\* Moving the view; the screen is only drawn again when it moved.
MoveView(c, top) ==
  IF top = c.viewport_top THEN c ELSE render_viewport([c EXCEPT !.viewport_top = top])

\* The difference of two size_t.
UnsignedMinus(a, b) == IF a >= b THEN a - b ELSE SIZE_RANGE + a - b

console_scroll_up(c, lines) ==
  MoveView(c, IF lines > UnsignedMinus(c.viewport_top, c.history_first_row)
              THEN c.history_first_row
              ELSE UnsignedMinus(c.viewport_top, lines))

console_scroll_down(c, lines) ==
  MoveView(c, IF c.viewport_top + lines > bottom_viewport_top(c)
              THEN bottom_viewport_top(c) ELSE c.viewport_top + lines)

console_scroll_to_bottom(c) == MoveView(c, bottom_viewport_top(c))
=============================================================================
