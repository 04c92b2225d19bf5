----------------------------- MODULE MCTerminal -----------------------------
(* An instance of Terminal for TLC.                                        *)
EXTENDS Terminal

OnePrompt == <<">">>

\* A text that ends its line and one that does not.
Texts == {<<"o", "\n">>, <<"o">>}

(***************************************************************************)
(* States that differ only in what nothing reads any more are one state:   *)
(* the cells of the ring that hold no waiting key, out and op once the key *)
(* is handled, the lines of the history that were dropped.                 *)
(***************************************************************************)
Live ==
  <<Unread, key_head, shift_pressed, extended_prefix, rpc,
    IF rpc = "step" \/ loop = "key" THEN out ELSE "a",
    [console EXCEPT !.history =
       [n \in 1 .. console.history_row_count |->
          console.history[history_slot(console.history_first_row + n - 1)]]],
    shell, loop, pressed, prompt_at, torn>>
=============================================================================
