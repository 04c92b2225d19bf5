------------------------------ MODULE Terminal ------------------------------
(***************************************************************************)
(* The terminal: Keyboard, the line editor of shell/shell.c and Console.   *)
(* kernel_main hands every key it reads to shell_handle_key; between two   *)
(* keys it may run a process, whose output the shell has to place around   *)
(* the prompt and the line being typed.  IRQ1 comes at any time.           *)
(*                                                                         *)
(* loop says where kernel_main is: "wait" between two keys, "key" with a   *)
(* key to handle, "async" inside process_schedule_auto.  What a command or *)
(* a process prints is any of OUTPUTS.  async_output_dirty is only read    *)
(* while async_output_active, so what a sched command leaves in it is left *)
(* out.                                                                    *)
(***************************************************************************)
EXTENDS Keyboard, Console

CONSTANTS
  INPUT_MAX,      \* 128
  PROMPT,         \* "MyOS> "
  OUTPUTS,        \* bound: the texts printed
  MAX_KEYS,       \* bound: keys pressed
  MAX_ROW         \* bound: lines printed

ASSUME TerminalAssumption ==
  /\ INPUT_MAX \in Nat \ {0} /\ MAX_KEYS \in Nat /\ MAX_ROW \in Nat
  /\ PROMPT \in Seq(STRING) /\ OUTPUTS \subseteq Seq(STRING)
  /\ \A n \in 1 .. Len(PROMPT) : PROMPT[n] \notin {"\n", "BS"}

VARIABLES
  console,
  input_buffer,        \* its first input_len characters
  prompt_visible, async_output_active, async_output_dirty,
  loop,
  pressed,             \* keys pressed (for MAX_KEYS)
  prompt_at,           \* history: line and column of the last prompt
  torn                 \* history: "edge" or "exit", see LineShown; else "no"

shell == <<input_buffer, prompt_visible, async_output_active, async_output_dirty>>
terminal_vars == <<keyboard_vars, console, shell, loop, pressed, prompt_at, torn>>

Position(c) == <<c.cursor_row, c.cursor_col>>

TerminalInit ==
  /\ keyboard_init
  /\ console = console_write(console_init, PROMPT)
  /\ input_buffer = <<>>
  /\ prompt_visible = TRUE
  /\ async_output_active = FALSE /\ async_output_dirty = FALSE
  /\ loop = "wait" /\ pressed = 0
  /\ prompt_at = <<0, 0>> /\ torn = "no"

\* shell_prompt after the console reached c, followed by what text is typed.
shell_prompt(c, text) ==
  /\ console' = console_write(c, PROMPT \o text)
  /\ prompt_at' = Position(c)
  /\ torn' = "no"
  /\ prompt_visible' = TRUE

-----------------------------------------------------------------------------
(* Keys.                                                                   *)

IRQ1(code) ==
  /\ pressed < MAX_KEYS
  /\ keyboard_irq_handler(code)
  /\ pressed' = IF op' = <<"none">> THEN pressed ELSE pressed + 1
  /\ UNCHANGED <<console, shell, loop, prompt_at, torn>>

ReadingKey ==
  /\ loop = "wait"
  /\ \/ (ReadTest \/ ReadKey) /\ UNCHANGED loop
     \/ ReadStep /\ loop' = "key"
  /\ UNCHANGED <<console, shell, pressed, prompt_at, torn>>

Scroll ==
  /\ console' = IF out = "KEY_UP" THEN console_scroll_up(console, 1)
                ELSE console_scroll_down(console, 1)
  /\ UNCHANGED <<shell, prompt_at, torn>>

\* Any key but the arrows first brings the view back to the bottom.
AtBottom == console_scroll_to_bottom(console)

\* Enter: the command prints a text, or is clear; the line is emptied.
Enter ==
  /\ \/ \E text \in OUTPUTS :
          shell_prompt(console_write(console_put_char(AtBottom, "\n"), text), <<>>)
     \/ shell_prompt(console_clear(console_put_char(AtBottom, "\n")), <<>>)
  /\ console'.cursor_row <= MAX_ROW
  /\ input_buffer' = <<>>
  /\ UNCHANGED <<async_output_active, async_output_dirty>>

\* The console does not go back over the left edge of the screen.
Erase ==
  /\ IF input_buffer = <<>>
     THEN console' = AtBottom /\ UNCHANGED <<input_buffer, torn>>
     ELSE /\ input_buffer' = SubSeq(input_buffer, 1, Len(input_buffer) - 1)
          /\ console' = console_put_char(AtBottom, "BS")
          /\ torn' = IF console.cursor_col = 0 /\ torn = "no" THEN "edge" ELSE torn
  /\ UNCHANGED <<prompt_visible, async_output_active, async_output_dirty, prompt_at>>

\* A character; one cell of the buffer is kept for the final 0.
Type(ch) ==
  /\ IF Len(input_buffer) >= INPUT_MAX - 1
     THEN console' = AtBottom /\ UNCHANGED input_buffer
     ELSE /\ input_buffer' = Append(input_buffer, ch)
          /\ console' = console_put_char(AtBottom, ch)
  /\ UNCHANGED <<prompt_visible, async_output_active, async_output_dirty, prompt_at, torn>>

shell_handle_key ==
  /\ loop = "key" /\ loop' = "wait"
  /\ CASE out \in {"KEY_UP", "KEY_DOWN"} -> Scroll
       [] out = "\n" -> Enter
       [] out = "BS" -> Erase
       [] OTHER -> Type(out)
  /\ UNCHANGED <<keyboard_vars, pressed>>

-----------------------------------------------------------------------------
(* A process run by the main loop.                                         *)

shell_begin_async_output ==
  /\ loop = "wait" /\ rpc = "idle"
  /\ loop' = "async"
  /\ async_output_active' = TRUE /\ async_output_dirty' = FALSE
  /\ UNCHANGED <<keyboard_vars, console, input_buffer, prompt_visible, pressed, prompt_at, torn>>

\* shell_note_async_output: the first output leaves the line of the prompt.
shell_note_async_output(c) ==
  IF ~async_output_dirty /\ prompt_visible THEN console_put_char(c, "\n") ELSE c

SysWrite(text) ==
  /\ loop = "async"
  /\ console' = console_write(shell_note_async_output(console), text)
  /\ console'.cursor_row <= MAX_ROW
  /\ prompt_visible' = (prompt_visible /\ async_output_dirty)
  /\ async_output_dirty' = TRUE
  /\ UNCHANGED <<keyboard_vars, input_buffer, async_output_active, loop, pressed, prompt_at, torn>>

\* "process exited", printed by process_schedule_auto without a word to the
\* shell: after a slice without output it lands on the line being typed.
ProcessExited ==
  /\ loop = "async"
  /\ console' = console_write(console, <<"x", "\n">>)
  /\ console'.cursor_row <= MAX_ROW
  /\ torn' = IF prompt_visible THEN "exit" ELSE torn
  /\ loop' = "exited"
  /\ UNCHANGED <<keyboard_vars, shell, pressed, prompt_at>>

\* Mutant: the line typed so far is not printed again.
Restored_prompt_only == <<>>

\* What is printed again after the prompt.
Restored == input_buffer

shell_end_async_output ==
  /\ loop \in {"async", "exited"} /\ loop' = "wait"
  /\ IF async_output_dirty /\ ~prompt_visible
     THEN shell_prompt(console, Restored)
     ELSE UNCHANGED <<console, prompt_visible, prompt_at, torn>>
  /\ async_output_active' = FALSE /\ async_output_dirty' = FALSE
  /\ UNCHANGED <<keyboard_vars, input_buffer, pressed>>

-----------------------------------------------------------------------------
TerminalNext ==
  \/ \E code \in ScanCodes : IRQ1(code)
  \/ ReadingKey
  \/ shell_handle_key
  \/ shell_begin_async_output
  \/ \E text \in OUTPUTS : SysWrite(text)
  \/ ProcessExited
  \/ shell_end_async_output

TerminalSpec == TerminalInit /\ [][TerminalNext]_terminal_vars

-----------------------------------------------------------------------------
(* Properties.                                                             *)

\* The view lies inside the kept lines, so that no unsigned difference of
\* console.c wraps, the cursor is on the last of them, and the screen shows
\* what the history holds although it is only drawn when something moved.
ViewExact ==
  /\ console.history_first_row <= console.viewport_top
  /\ console.viewport_top <= bottom_viewport_top(console)
  /\ console.cursor_row = console.history_first_row + console.history_row_count - 1
  /\ console.history_row_count \in 1 .. CONSOLE_HISTORY_LINES
  /\ console.cursor_col \in Columns
  /\ \A r \in ScreenRows : console.screen[r] = RenderedRow(console, r)

\* Every index of the ring of keys and of the ring of kept lines stays inside,
\* and the screen shows the view.
IndexesInside == KeyboardTypeOK /\ ViewExact

\* The character at a position counted in cells from the start of the history.
Cell(n) == console.history[history_slot(n \div VGA_WIDTH)][n % VGA_WIDTH]
CellNumber(position) == position[1] * VGA_WIDTH + position[2]

(***************************************************************************)
(* Whenever the shell waits for a key, the screen ends with the prompt and *)
(* exactly the characters Enter would execute, whatever was typed, erased, *)
(* dropped or printed by processes meanwhile.  Two exceptions, both of the *)
(* code: a backspace at the left edge of a line that wrapped erases        *)
(* nothing, and the message of a process that exits without output is      *)
(* printed into the line.                                                  *)
(***************************************************************************)
LineShown ==
  loop = "wait" /\ torn = "no" =>
    LET line == PROMPT \o input_buffer
        start == CellNumber(prompt_at) IN
    /\ prompt_visible
    /\ CellNumber(Position(console)) = start + Len(line)
    /\ \A k \in 1 .. Len(line) :
         (start + k - 1) \div VGA_WIDTH >= console.history_first_row
           => Cell(start + k - 1) = line[k]

\* Output of a process does not disturb a user who reads back: the view stays
\* on its lines, and they keep their text, until the ring drops them.
ReadingUndisturbed ==
  [][loop # "key" /\ console_is_scrolled(console) =>
       /\ console'.viewport_top = (IF console.viewport_top < console'.history_first_row
                                   THEN console'.history_first_row ELSE console.viewport_top)
       /\ \A r \in ScreenRows :
            LET row == console'.viewport_top + r IN
            row < console.cursor_row =>
              console'.screen[r] = console.history[history_slot(row)]]_terminal_vars
=============================================================================
