--------------------------- MODULE TerminalProofs ---------------------------
(***************************************************************************)
(* Proofs about Terminal: the keyboard's ring implements the queue of      *)
(* KeyQueue for every size of the buffer, and the console's view stays     *)
(* inside its history, for every size of the screen and of the history,    *)
(* whatever is typed and printed.                                          *)
(***************************************************************************)
EXTENDS Terminal, Induction, SequenceTheorems

N == KEYBOARD_BUFFER_SIZE

\* The reader's view of the ring is still right after an interrupt: the key it
\* tested for is there, and the one it has read is still the oldest.
KeyboardInv ==
  /\ KeyboardTypeOK
  /\ rpc # "idle" => key_head # key_tail
  /\ rpc = "step" => out = key_buffer[key_tail]

-----------------------------------------------------------------------------
(* The ring.                                                               *)

\* The arithmetic of the ring's indexes without %.
LEMMA RingArithmetic ==
  ASSUME NEW h \in Slots, NEW t \in Slots
  PROVE  /\ Following(h) \in Slots
         /\ Following(h) = IF h + 1 = N THEN 0 ELSE h + 1
         /\ (h + N - t) % N = IF h < t THEN h + N - t ELSE h - t
         /\ \A n \in 1 .. N : /\ (t + n - 1) % N \in Slots
                              /\ (t + n - 1) % N = IF t + n - 1 < N THEN t + n - 1
                                                   ELSE t + n - 1 - N
<1>1. N \in Nat \ {0} /\ h \in 0 .. N - 1 /\ t \in 0 .. N - 1
  BY KeyboardAssumption DEF N, Slots
<1>2. /\ (h + 1) % N = IF h + 1 = N THEN 0 ELSE h + 1
      /\ (h + 1) % N \in 0 .. N - 1
  BY <1>1, RingIndexes
<1> QED BY <1>1, <1>2, RingIndexes DEF Following, Slots, N

\* The unread keys are a sequence of at most N - 1 keys.
UnreadExact ==
  /\ Waiting = IF key_head < key_tail THEN key_head + N - key_tail
               ELSE key_head - key_tail
  /\ Waiting \in 0 .. N - 1
  /\ Unread \in Seq(KEYS) /\ Len(Unread) = Waiting
  /\ \A n \in 1 .. Waiting : Unread[n] = key_buffer[(key_tail + n - 1) % N]

\* So they are whenever the indexes are inside the buffer.
LEMMA UnreadSequence == KeyboardTypeOK => UnreadExact
<1> SUFFICES ASSUME KeyboardTypeOK PROVE UnreadExact
  OBVIOUS
<1>1. key_head \in 0 .. N - 1 /\ key_tail \in 0 .. N - 1 /\ N \in Nat \ {0}
  BY KeyboardAssumption DEF KeyboardTypeOK, Slots, N
<1>2. Waiting = IF key_head < key_tail THEN key_head + N - key_tail
                ELSE key_head - key_tail
  BY RingArithmetic DEF KeyboardTypeOK, Waiting, N
<1>3. Waiting \in 0 .. N - 1
  BY <1>1, <1>2
<1>4. \A n \in 1 .. Waiting : (key_tail + n - 1) % N \in Slots
  <2>1. \A n \in 1 .. N : (key_tail + n - 1) % N \in Slots
    BY RingArithmetic DEF KeyboardTypeOK
  <2>2. \A n \in 1 .. Waiting : n \in 1 .. N
    BY <1>1, <1>3
  <2> QED BY <2>1, <2>2, Zenon
<1>5. Unread \in [1 .. Waiting -> KEYS]
  BY <1>4 DEF Unread, KeyboardTypeOK, N
<1>6. Unread \in Seq(KEYS)
  BY <1>3, <1>5, SeqDef
<1>7. Len(Unread) = Waiting
  BY <1>3, <1>5, <1>6, LenProperties
<1>8. \A n \in 1 .. Waiting : Unread[n] = key_buffer[(key_tail + n - 1) % N]
  BY DEF Unread, N
<1> QED BY <1>2, <1>3, <1>6, <1>7, <1>8 DEF UnreadExact

-----------------------------------------------------------------------------
(* The keyboard's invariant.                                               *)

\* What an interrupt or a read may do to the ring, one alternative for each
\* path of keyboard_irq_handler and for the steps of keyboard_read_key.
LEMMA KeyboardStepKinds ==
  ASSUME KeyboardNext
  PROVE  \/ NoKey /\ UNCHANGED reader
         \/ \E k \in KEYS : keyboard_buffer_push(k) /\ UNCHANGED reader
         \/ ReadTest \/ ReadKey \/ ReadStep
<1>1. ASSUME NEW code \in ScanCodes, keyboard_irq_handler(code)
      PROVE  \/ NoKey /\ UNCHANGED reader
             \/ \E k \in KEYS : keyboard_buffer_push(k) /\ UNCHANGED reader
  <2>1. CASE Prefix(code)
    BY <1>1, <2>1 DEF keyboard_irq_handler, Prefix
  <2>2. CASE Extended(code)
    <3>1. "KEY_UP" \in KEYS /\ "KEY_DOWN" \in KEYS
      BY DEF KEYS
    <3> QED BY <1>1, <2>2, <3>1 DEF keyboard_irq_handler, Extended
  <2>3. CASE Plain(code)
    <3>1. /\ (IF shift_pressed THEN "A" ELSE "a") \in KEYS
          /\ "\n" \in KEYS /\ "BS" \in KEYS
      BY DEF KEYS
    <3> QED BY <1>1, <2>3, <3>1 DEF keyboard_irq_handler, Plain
  <2> QED BY <1>1, <2>1, <2>2, <2>3 DEF keyboard_irq_handler
<1> QED BY <1>1 DEF KeyboardNext

\* Shift and the prefix stay flags.
LEMMA KeyboardFlags ==
  ASSUME KeyboardTypeOK, KeyboardNext
  PROVE  shift_pressed' \in BOOLEAN /\ extended_prefix' \in BOOLEAN
<1>1. ASSUME NEW code, Prefix(code) \/ Extended(code) \/ Plain(code)
      PROVE  shift_pressed' \in BOOLEAN /\ extended_prefix' \in BOOLEAN
  BY <1>1, Zenon DEF Prefix, Extended, Plain, KeyboardTypeOK
<1>2. ASSUME ReadTest \/ ReadKey \/ ReadStep
      PROVE  shift_pressed' \in BOOLEAN /\ extended_prefix' \in BOOLEAN
  BY <1>2, Zenon DEF ReadTest, ReadKey, ReadStep, KeyboardTypeOK
<1> QED BY <1>1, <1>2 DEF KeyboardNext, keyboard_irq_handler

\* The invariant is inductive: a push never makes the ring look empty, and
\* never writes the cell at key_tail while a key waits there.
LEMMA KeyboardInvStep == KeyboardInv /\ [KeyboardNext]_keyboard_vars => KeyboardInv'
<1> SUFFICES ASSUME KeyboardInv, [KeyboardNext]_keyboard_vars PROVE KeyboardInv'
  OBVIOUS
<1>1. CASE UNCHANGED keyboard_vars
  BY <1>1 DEF keyboard_vars, ring, reader, KeyboardInv, KeyboardTypeOK
<1>2. CASE KeyboardNext
  <2>1. shift_pressed' \in BOOLEAN /\ extended_prefix' \in BOOLEAN
    BY <1>2, KeyboardFlags DEF KeyboardInv
  <2>2. /\ key_buffer \in [Slots -> KEYS] /\ key_head \in Slots /\ key_tail \in Slots
        /\ rpc \in {"idle", "read", "step"} /\ out \in KEYS
        /\ rpc # "idle" => key_head # key_tail
        /\ rpc = "step" => out = key_buffer[key_tail]
    BY DEF KeyboardInv, KeyboardTypeOK
  <2>3. Following(key_head) \in Slots /\ Following(key_tail) \in Slots
    BY <2>2, RingArithmetic
  <2>4. CASE NoKey /\ UNCHANGED reader
    BY <2>1, <2>2, <2>4 DEF NoKey, ring, reader, KeyboardInv, KeyboardTypeOK
  <2>5. ASSUME NEW k \in KEYS, keyboard_buffer_push(k), UNCHANGED reader
        PROVE  KeyboardInv'
    <3>1. CASE Following(key_head) = key_tail
      BY <2>1, <2>2, <2>5, <3>1
      DEF keyboard_buffer_push, ring, reader, KeyboardInv, KeyboardTypeOK
    <3>2. CASE Following(key_head) # key_tail
      BY <2>1, <2>2, <2>3, <2>5, <3>2
      DEF keyboard_buffer_push, reader, KeyboardInv, KeyboardTypeOK
    <3> QED BY <3>1, <3>2
  <2>6. CASE ReadTest
    BY <2>1, <2>2, <2>6 DEF ReadTest, NoKey, ring, KeyboardInv, KeyboardTypeOK
  <2>7. CASE ReadKey
    BY <2>1, <2>2, <2>7 DEF ReadKey, NoKey, ring, KeyboardInv, KeyboardTypeOK
  <2>8. CASE ReadStep
    BY <2>1, <2>2, <2>3, <2>8 DEF ReadStep, KeyboardInv, KeyboardTypeOK
  <2> QED BY <1>2, <2>4, <2>5, <2>6, <2>7, <2>8, KeyboardStepKinds
<1> QED BY <1>1, <1>2

\* The buffer is empty after keyboard_init.
LEMMA KeyboardInit ==
  ASSUME keyboard_init PROVE KeyboardInv /\ Queue!Init
<1> USE DEF keyboard_init
<1>1. 0 \in Slots /\ "a" \in KEYS
  BY KeyboardAssumption DEF Slots, KEYS
<1>2. shift_pressed \in BOOLEAN /\ extended_prefix \in BOOLEAN
  BY Zenon
<1>3. KeyboardInv
  BY <1>1, <1>2 DEF KeyboardInv, KeyboardTypeOK
<1>4. Unread = <<>>
  <2>1. Waiting = 0 /\ Unread \in Seq(KEYS) /\ Len(Unread) = Waiting
    BY <1>3, UnreadSequence DEF KeyboardInv, UnreadExact
  <2> QED BY <2>1
<1> QED BY <1>3, <1>4 DEF Queue!Init

-----------------------------------------------------------------------------
(* The ring implements the queue.                                          *)

\* A push appends the key, unless N - 1 keys wait.
LEMMA PushImplementsPress ==
  ASSUME KeyboardInv, KeyboardInv', NEW k \in KEYS, keyboard_buffer_push(k)
  PROVE  Queue!Press(k)
<1>1. KeyboardTypeOK /\ KeyboardTypeOK'
  BY DEF KeyboardInv
<1>2. key_head \in 0 .. N - 1 /\ key_tail \in 0 .. N - 1 /\ N \in Nat \ {0}
  BY <1>1, KeyboardAssumption DEF KeyboardTypeOK, Slots, N
<1>3. Following(key_head) = IF key_head + 1 = N THEN 0 ELSE key_head + 1
  BY <1>1, RingArithmetic DEF KeyboardTypeOK
<1>4. /\ Waiting = IF key_head < key_tail THEN key_head + N - key_tail
                   ELSE key_head - key_tail
      /\ Waiting \in 0 .. N - 1
      /\ Unread \in Seq(KEYS) /\ Len(Unread) = Waiting
      /\ \A n \in 1 .. Waiting : Unread[n] = key_buffer[(key_tail + n - 1) % N]
  BY <1>1, UnreadSequence DEF UnreadExact
<1>5. CASE Following(key_head) = key_tail
  <2>1. Len(Unread) = N - 1
    BY <1>2, <1>3, <1>4, <1>5
  <2>2. UNCHANGED ring /\ op' = <<"press", k>>
    BY <1>5 DEF keyboard_buffer_push
  <2>3. Unread' = Unread
    BY <2>2 DEF Unread, Waiting, ring
  <2> QED BY <1>2, <2>1, <2>2, <2>3 DEF Queue!Press, N
<1>6. CASE Following(key_head) # key_tail
  <2>1. /\ key_buffer' = [key_buffer EXCEPT ![key_head] = k]
        /\ key_head' = Following(key_head) /\ key_tail' = key_tail
        /\ op' = <<"press", k>>
    BY <1>6 DEF keyboard_buffer_push
  <2>2. /\ Waiting' = IF key_head' < key_tail' THEN key_head' + N - key_tail'
                      ELSE key_head' - key_tail'
        /\ Unread' \in Seq(KEYS) /\ Len(Unread') = Waiting'
        /\ \A n \in 1 .. Waiting' : Unread'[n] = key_buffer'[(key_tail' + n - 1) % N]
    <3>1. UnreadExact'
      BY <1>1, UnreadSequence, PTL
    <3> QED BY <3>1 DEF UnreadExact
  <2>3. Waiting' = Waiting + 1 /\ Waiting < N - 1
    BY <1>2, <1>3, <1>4, <1>6, <2>1, <2>2
  <2>4. \A n \in 1 .. N : (key_tail + n - 1) % N = IF key_tail + n - 1 < N
                                                  THEN key_tail + n - 1
                                                  ELSE key_tail + n - 1 - N
    BY <1>2, RingIndexes
  <2>5. \A n \in 1 .. N : (key_tail + n - 1) % N \in Slots
    BY <1>1, RingArithmetic DEF KeyboardTypeOK
  <2>6. ASSUME NEW n \in 1 .. Waiting PROVE Unread'[n] = Unread[n]
    <3>1. n \in 1 .. N /\ n \in 1 .. Waiting'
      BY <1>2, <1>4, <2>3
    <3>2. (key_tail + n - 1) % N # key_head
      BY <1>2, <1>4, <2>4, <3>1
    <3>3. key_buffer'[(key_tail + n - 1) % N] = key_buffer[(key_tail + n - 1) % N]
      BY <1>1, <2>1, <2>5, <3>1, <3>2 DEF KeyboardTypeOK
    <3> QED BY <1>4, <2>1, <2>2, <3>1, <3>3
  <2>7. Unread'[Waiting + 1] = k
    <3>1. Waiting + 1 \in 1 .. N /\ Waiting + 1 \in 1 .. Waiting'
      BY <1>2, <1>4, <2>3
    <3>2. (key_tail + (Waiting + 1) - 1) % N = key_head
      BY <1>2, <1>4, <2>4, <3>1
    <3>3. key_buffer'[key_head] = k
      BY <1>1, <2>1 DEF KeyboardTypeOK
    <3> QED BY <2>1, <2>2, <3>1, <3>2, <3>3
  <2>8. Unread' = Append(Unread, k)
    <3>1. /\ Append(Unread, k) \in Seq(KEYS) /\ Len(Append(Unread, k)) = Waiting + 1
          /\ \A n \in 1 .. Waiting : Append(Unread, k)[n] = Unread[n]
          /\ Append(Unread, k)[Waiting + 1] = k
      BY <1>4, AppendProperties
    <3>2. \A n \in 1 .. Waiting + 1 : Unread'[n] = Append(Unread, k)[n]
      <4>1. \A n \in 1 .. Waiting + 1 : n \in 1 .. Waiting \/ n = Waiting + 1
        BY <1>4
      <4> QED BY <2>6, <2>7, <3>1, <4>1
    <3> QED BY <2>2, <2>3, <3>1, <3>2, SeqEqual
  <2> QED BY <1>4, <2>1, <2>3, <2>8 DEF Queue!Press, N
<1> QED BY <1>5, <1>6

\* The last step of keyboard_read_key takes the oldest key, the one it read
\* before, whatever IRQ1 pushed meanwhile.
LEMMA ReadStepImplementsRead ==
  ASSUME KeyboardInv, KeyboardInv', ReadStep
  PROVE  Queue!Read
<1>1. /\ KeyboardTypeOK /\ KeyboardTypeOK'
      /\ key_head # key_tail /\ out = key_buffer[key_tail]
  BY DEF KeyboardInv, ReadStep
<1>2. key_head \in 0 .. N - 1 /\ key_tail \in 0 .. N - 1 /\ N \in Nat \ {0}
  BY <1>1, KeyboardAssumption DEF KeyboardTypeOK, Slots, N
<1>3. Following(key_tail) = IF key_tail + 1 = N THEN 0 ELSE key_tail + 1
  BY <1>1, RingArithmetic DEF KeyboardTypeOK
<1>4. /\ Waiting = IF key_head < key_tail THEN key_head + N - key_tail
                   ELSE key_head - key_tail
      /\ Waiting \in 0 .. N - 1
      /\ Unread \in Seq(KEYS) /\ Len(Unread) = Waiting
      /\ \A n \in 1 .. Waiting : Unread[n] = key_buffer[(key_tail + n - 1) % N]
  BY <1>1, UnreadSequence DEF UnreadExact
<1>5. /\ key_tail' = Following(key_tail) /\ op' = <<"read", out>>
      /\ key_buffer' = key_buffer /\ key_head' = key_head
  BY DEF ReadStep
<1>6. /\ Waiting' = IF key_head' < key_tail' THEN key_head' + N - key_tail'
                    ELSE key_head' - key_tail'
      /\ Unread' \in Seq(KEYS) /\ Len(Unread') = Waiting'
      /\ \A n \in 1 .. Waiting' : Unread'[n] = key_buffer'[(key_tail' + n - 1) % N]
  <2>1. UnreadExact'
    BY <1>1, UnreadSequence, PTL
  <2> QED BY <2>1 DEF UnreadExact
<1>7. Waiting \in 1 .. N - 1 /\ Waiting' = Waiting - 1
  BY <1>1, <1>2, <1>3, <1>4, <1>5, <1>6
<1>8. \A n \in 1 .. N : (key_tail + n - 1) % N = IF key_tail + n - 1 < N
                                                THEN key_tail + n - 1
                                                ELSE key_tail + n - 1 - N
  BY <1>2, RingIndexes
<1>9. \A n \in 1 .. N : (key_tail' + n - 1) % N = IF key_tail' + n - 1 < N
                                                 THEN key_tail' + n - 1
                                                 ELSE key_tail' + n - 1 - N
  <2>1. key_tail' \in 0 .. N - 1
    BY <1>2, <1>3, <1>5
  <2> QED BY <1>2, <2>1, RingIndexes
<1>10. Unread # <<>> /\ Head(Unread) = out
  <2>1. (key_tail + 1 - 1) % N = key_tail
    BY <1>2, <1>8
  <2>2. Unread[1] = key_buffer[key_tail]
    BY <1>4, <1>7, <2>1
  <2> QED BY <1>1, <1>4, <1>7, <2>2
<1>11. Unread' = Tail(Unread)
  <2>1. /\ Tail(Unread) \in Seq(KEYS) /\ Len(Tail(Unread)) = Waiting - 1
        /\ \A n \in 1 .. Waiting - 1 : Tail(Unread)[n] = Unread[n + 1]
    BY <1>4, <1>10, HeadTailProperties
  <2>2. ASSUME NEW n \in 1 .. Waiting - 1 PROVE Unread'[n] = Tail(Unread)[n]
    <3>1. n \in 1 .. N /\ n + 1 \in 1 .. N /\ n + 1 \in 1 .. Waiting /\ n \in 1 .. Waiting'
      BY <1>2, <1>7
    <3>2. (key_tail' + n - 1) % N = (key_tail + (n + 1) - 1) % N
      <4>1. (key_tail' + n - 1) % N = IF key_tail' + n - 1 < N THEN key_tail' + n - 1
                                      ELSE key_tail' + n - 1 - N
        BY <1>9, <3>1
      <4>2. (key_tail + (n + 1) - 1) % N = IF key_tail + (n + 1) - 1 < N
                                           THEN key_tail + (n + 1) - 1
                                           ELSE key_tail + (n + 1) - 1 - N
        BY <1>8, <3>1
      <4> QED BY <1>2, <1>3, <1>5, <3>1, <4>1, <4>2
    <3>3. Unread'[n] = key_buffer[(key_tail' + n - 1) % N]
      BY <1>5, <1>6, <3>1
    <3>4. Unread[n + 1] = key_buffer[(key_tail + (n + 1) - 1) % N]
      BY <1>4, <3>1
    <3> QED BY <2>1, <3>2, <3>3, <3>4
  <2> QED BY <1>6, <1>7, <2>1, <2>2, SeqEqual
<1> QED BY <1>5, <1>10, <1>11 DEF Queue!Read

\* Every step of the keyboard is a step of the queue or leaves it alone.
LEMMA KeyboardStepImplementsQueue ==
  ASSUME KeyboardInv, KeyboardInv', [KeyboardNext]_keyboard_vars
  PROVE  [Queue!Next]_<<Unread, op>>
<1>1. CASE UNCHANGED keyboard_vars
  BY <1>1 DEF keyboard_vars, ring, Unread, Waiting
<1>2. ASSUME NoKey PROVE Queue!Next
  BY <1>2 DEF NoKey, ring, Unread, Waiting, Queue!Next, Queue!Internal
<1>3. ASSUME NEW k \in KEYS, keyboard_buffer_push(k) PROVE Queue!Next
  BY <1>3, PushImplementsPress DEF Queue!Next
<1>4. CASE ReadStep
  BY <1>4, ReadStepImplementsRead DEF Queue!Next
<1>5. CASE KeyboardNext
  BY <1>2, <1>3, <1>4, <1>5, KeyboardStepKinds DEF ReadTest, ReadKey
<1> QED BY <1>1, <1>5

\* The steps of the terminal are steps of the keyboard or leave it alone.
LEMMA TerminalStepIsKeyboardStep ==
  [TerminalNext]_terminal_vars => [KeyboardNext]_keyboard_vars
BY DEF TerminalNext, terminal_vars, IRQ1, ReadingKey, shell_handle_key,
       shell_begin_async_output, SysWrite, ProcessExited, shell_end_async_output,
       KeyboardNext

\* The keyboard's ring is a first-in first-out queue that drops only the
\* newest key and only when it is full, for every size of the buffer, wherever
\* IRQ1 interrupts keyboard_read_key and whatever the shell does with the keys.
THEOREM KeyboardImplementsQueue == TerminalSpec => ImplementsQueue
<1>1. TerminalInit => KeyboardInv /\ Queue!Init
  BY KeyboardInit DEF TerminalInit
<1>2. KeyboardInv /\ [TerminalNext]_terminal_vars => KeyboardInv'
  BY TerminalStepIsKeyboardStep, KeyboardInvStep
<1>3. KeyboardInv /\ KeyboardInv' /\ [TerminalNext]_terminal_vars
        => [Queue!Next]_<<Unread, op>>
  BY TerminalStepIsKeyboardStep, KeyboardStepImplementsQueue
<1> QED BY <1>1, <1>2, <1>3, PTL DEF TerminalSpec, ImplementsQueue, Queue!Spec

-----------------------------------------------------------------------------
(* The console's view.                                                     *)

H == CONSOLE_HISTORY_LINES

\* What may stand in a cell of the screen.
CharactersOf(text) == {text[n] : n \in 1 .. Len(text)}
Characters ==
  KEYS \cup {" ", "x"} \cup UNION {CharactersOf(text) : text \in OUTPUTS \cup {PROMPT}}

Row == [Columns -> Characters]

Consoles ==
  [cursor_row : Nat, cursor_col : Columns, viewport_top : Nat,
   history_first_row : Nat, history_row_count : 1 .. H,
   history : [0 .. H - 1 -> Row], screen : [ScreenRows -> Row]]

\* The cursor is on the last kept line, and a line is only dropped when the
\* ring is full.
Kept(c) ==
  /\ c \in Consoles
  /\ c.cursor_row = c.history_first_row + c.history_row_count - 1
  /\ c.history_first_row > 0 => c.history_row_count = H

\* The view lies inside the kept lines.
Inside(c) ==
  /\ Kept(c)
  /\ c.history_first_row <= c.viewport_top
  /\ c.viewport_top <= bottom_viewport_top(c)

\* The consoles whose screen shows the view.
Views == {c \in Consoles : Inside(c) /\ \A r \in ScreenRows : c.screen[r] = RenderedRow(c, r)}

\* Whatever is printed is a text.
LEMMA Texts ==
  /\ PROMPT \in Seq(Characters) /\ OUTPUTS \subseteq Seq(Characters)
  /\ Seq(KEYS) \subseteq Seq(Characters)
  /\ <<"x", "\n">> \in Seq(Characters)
  /\ "\n" \in Characters /\ "BS" \in Characters
<1>1. ASSUME NEW text \in OUTPUTS \cup {PROMPT} PROVE text \in Seq(Characters)
  <2>1. text \in Seq(STRING)
    BY TerminalAssumption
  <2>2. \A n \in 1 .. Len(text) : text[n] \in Characters
    <3>1. CharactersOf(text) \subseteq Characters
      BY DEF Characters
    <3> QED BY <3>1 DEF CharactersOf
  <2>3. Len(text) \in Nat /\ text = [n \in 1 .. Len(text) |-> text[n]]
    BY <2>1
  <2>4. text \in [1 .. Len(text) -> Characters]
    BY <2>2, <2>3, Zenon
  <2> QED BY <2>3, <2>4, SeqDef
<1>2. KEYS \subseteq Characters /\ "\n" \in KEYS /\ "BS" \in KEYS /\ "x" \in Characters
  BY DEF KEYS, Characters
<1>3. Seq(KEYS) \subseteq Seq(Characters)
  BY <1>2
<1>4. <<"x", "\n">> \in Seq(Characters)
  BY <1>2
<1> QED BY <1>1, <1>2, <1>3, <1>4

\* What the sizes of the screen and of the ring are known to be.
LEMMA ConsoleSizes ==
  /\ H \in Nat \ {0} /\ VGA_WIDTH \in Nat \ {0} /\ VGA_HEIGHT \in Nat \ {0}
  /\ VGA_HEIGHT <= H /\ SIZE_RANGE \in Nat /\ CONSOLE_HISTORY_LINES = H
BY ConsoleAssumption DEF H

\* Every line has a slot of the ring, and lines less than H apart have
\* different slots.
LEMMA HistorySlots ==
  ASSUME NEW row \in Nat
  PROVE  /\ history_slot(row) \in 0 .. H - 1
         /\ \A other \in Nat : row < other /\ other < row + H
                                => history_slot(row) # history_slot(other)
<1>1. H \in Nat \ {0}
  BY ConsoleSizes
<1>2. history_slot(row) \in 0 .. H - 1
  BY <1>1 DEF history_slot, H
<1>3. ASSUME NEW other \in Nat, row < other, other < row + H,
             row % H = other % H
      PROVE  FALSE
  <2>1. row = H * (row \div H) + (row % H) /\ other = H * (other \div H) + (other % H)
    BY <1>1
  <2>2. row \div H \in Int /\ other \div H \in Int
    BY <1>1
  <2> DEFINE q == (other \div H) - (row \div H)
  <2>3. other - row = H * q /\ q \in Int
    BY <1>1, <1>3, <2>1, <2>2
  <2> HIDE DEF q
  <2>4. CASE q <= 0
    BY <1>1, <1>3, <2>3, <2>4
  <2>5. CASE q >= 1
    BY <1>1, <1>3, <2>3, <2>5
  <2> QED BY <2>3, <2>4, <2>5
<1> QED BY <1>2, <1>3 DEF history_slot, H

\* The bottom view shows the cursor's line and no dropped one.
LEMMA BottomView ==
  ASSUME NEW c, Kept(c)
  PROVE  /\ bottom_viewport_top(c) \in Nat
         /\ c.history_first_row <= bottom_viewport_top(c)
         /\ bottom_viewport_top(c) <= c.cursor_row
BY ConsoleSizes DEF Kept, Consoles, bottom_viewport_top

\* A view may be brought to any place between the first line and the bottom.
LEMMA PlacedView ==
  ASSUME NEW c, Kept(c), NEW top \in Nat,
         c.history_first_row <= top, top <= bottom_viewport_top(c)
  PROVE  Inside([c EXCEPT !.viewport_top = top])
BY DEF Inside, Kept, Consoles, bottom_viewport_top

\* clamp_viewport moves the view inside and changes nothing else.
LEMMA ClampedView ==
  ASSUME NEW c, Kept(c)
  PROVE  /\ Inside(clamp_viewport(c))
         /\ \E top \in Nat : clamp_viewport(c) = [c EXCEPT !.viewport_top = top]
<1>1. /\ bottom_viewport_top(c) \in Nat
      /\ c.history_first_row <= bottom_viewport_top(c)
  BY BottomView
<1>2. c.viewport_top \in Nat /\ c.history_first_row \in Nat
  BY DEF Kept, Consoles
<1> DEFINE high == IF c.viewport_top < c.history_first_row THEN c.history_first_row
                   ELSE c.viewport_top
           top == IF high > bottom_viewport_top(c) THEN bottom_viewport_top(c) ELSE high
<1>3. top \in Nat /\ c.history_first_row <= top /\ top <= bottom_viewport_top(c)
  BY <1>1, <1>2
<1>4. clamp_viewport(c) = [c EXCEPT !.viewport_top = top]
  BY DEF clamp_viewport
<1> HIDE DEF top
<1> QED BY <1>3, <1>4, PlacedView

\* render_viewport draws what the view shows.
LEMMA RenderedView ==
  ASSUME NEW c, Inside(c)
  PROVE  render_viewport(c) \in Views
<1>1. \A r \in ScreenRows : RenderedRow(c, r) \in Row
  <2> SUFFICES ASSUME NEW r \in ScreenRows PROVE RenderedRow(c, r) \in Row
    OBVIOUS
  <2>1. c.viewport_top + r \in Nat
    BY DEF Inside, Kept, Consoles, ScreenRows
  <2>2. history_slot(c.viewport_top + r) \in 0 .. H - 1
    BY <2>1, HistorySlots
  <2>3. BlankRow \in Row
    BY DEF BlankRow, Row, Characters
  <2> QED BY <2>2, <2>3 DEF RenderedRow, Inside, Kept, Consoles
<1> DEFINE scr == [r \in ScreenRows |-> RenderedRow(c, r)]
           d == [c EXCEPT !.screen = scr]
<1>2. scr \in [ScreenRows -> Row] /\ \A r \in ScreenRows : scr[r] = RenderedRow(c, r)
  BY <1>1
<1> HIDE DEF scr
<1>3. /\ d \in Consoles /\ Inside(d) /\ d.screen = scr
      /\ d.viewport_top = c.viewport_top /\ d.history_first_row = c.history_first_row
      /\ d.history_row_count = c.history_row_count /\ d.history = c.history
  BY <1>2 DEF Inside, Kept, Consoles, bottom_viewport_top
<1>4. render_viewport(c) = d
  BY DEF render_viewport, scr
<1> HIDE DEF d
<1>5. \A r \in ScreenRows : d.screen[r] = RenderedRow(d, r)
  BY <1>2, <1>3 DEF RenderedRow
<1> QED BY <1>3, <1>4, <1>5 DEF Views

-----------------------------------------------------------------------------
(* Printing.                                                               *)

\* d comes after c in the output: no kept line above c's cursor has changed,
\* and the view of c has not moved but to leave the dropped lines.
Printed(c, d) ==
  /\ Kept(d)
  /\ c.cursor_row <= d.cursor_row /\ c.history_first_row <= d.history_first_row
  /\ d.viewport_top = (IF c.viewport_top < d.history_first_row
                       THEN d.history_first_row ELSE c.viewport_top)
  /\ \A row \in Nat :
       d.history_first_row <= row /\ row < c.cursor_row
         => d.history[history_slot(row)] = c.history[history_slot(row)]

\* One part of the output after another.
LEMMA PrintedTransitive ==
  ASSUME NEW c, NEW d, NEW e, Kept(c), Printed(c, d), Printed(d, e)
  PROVE  Printed(c, e)
<1>1. /\ c.cursor_row \in Nat /\ d.cursor_row \in Nat /\ e.cursor_row \in Nat
      /\ c.history_first_row \in Nat /\ d.history_first_row \in Nat
      /\ e.history_first_row \in Nat /\ c.viewport_top \in Nat
  BY DEF Printed, Kept, Consoles
<1>2. ASSUME NEW row \in Nat, e.history_first_row <= row, row < c.cursor_row
      PROVE  e.history[history_slot(row)] = c.history[history_slot(row)]
  <2>1. d.history_first_row <= row /\ row < d.cursor_row
    BY <1>1, <1>2 DEF Printed
  <2> QED BY <1>2, <2>1 DEF Printed
<1>3. e.viewport_top = (IF c.viewport_top < e.history_first_row
                        THEN e.history_first_row ELSE c.viewport_top)
  BY <1>1 DEF Printed
<1> QED BY <1>1, <1>2, <1>3 DEF Printed

\* Writing on the cursor's line, wherever the cursor is put on it.
LEMMA LineWritten ==
  ASSUME NEW c, Inside(c), NEW line \in Row, NEW col \in Columns
  PROVE  LET d == [c EXCEPT !.history = [c.history EXCEPT ![history_slot(c.cursor_row)] = line],
                            !.cursor_col = col]
         IN Inside(d) /\ Printed(c, d) /\ d.cursor_row = c.cursor_row /\ d.cursor_col = col
<1> DEFINE h == [c.history EXCEPT ![history_slot(c.cursor_row)] = line]
           d == [c EXCEPT !.history = h, !.cursor_col = col]
<1>1. c.cursor_row \in Nat /\ c.history \in [0 .. H - 1 -> Row]
  BY DEF Inside, Kept, Consoles
<1>2. history_slot(c.cursor_row) \in 0 .. H - 1
  BY <1>1, HistorySlots
<1>3. h \in [0 .. H - 1 -> Row]
  BY <1>1, <1>2
<1>4. ASSUME NEW row \in Nat, c.history_first_row <= row, row < c.cursor_row
      PROVE  h[history_slot(row)] = c.history[history_slot(row)]
  <2>1. c.cursor_row < row + H
    BY <1>4, ConsoleSizes DEF Inside, Kept, Consoles
  <2>2. history_slot(row) # history_slot(c.cursor_row) /\ history_slot(row) \in 0 .. H - 1
    BY <1>1, <1>4, <2>1, HistorySlots
  <2> QED BY <1>1, <2>2
<1> HIDE DEF h
<1>5. /\ d \in Consoles /\ d.history = h /\ d.cursor_row = c.cursor_row
      /\ d.cursor_col = col /\ d.viewport_top = c.viewport_top
      /\ d.history_first_row = c.history_first_row
      /\ d.history_row_count = c.history_row_count
  BY <1>3 DEF Inside, Kept, Consoles
<1> HIDE DEF d
<1>6. Kept(d) /\ Inside(d)
  BY <1>5 DEF Inside, Kept, bottom_viewport_top
<1>7. Printed(c, d)
  <2>1. c.viewport_top \in Nat /\ c.history_first_row \in Nat
        /\ c.history_first_row <= c.viewport_top
    BY DEF Inside, Kept, Consoles
  <2> QED BY <1>1, <1>4, <1>5, <1>6, <2>1 DEF Printed
<1> QED BY <1>5, <1>6, <1>7 DEF d, h

\* A new line, with the oldest one dropped when the ring is full.
LEMMA LineAdvanced ==
  ASSUME NEW c, Inside(c)
  PROVE  LET d == advance_to_next_line(c)
         IN /\ Inside(d) /\ Printed(c, d)
            /\ d.cursor_row = c.cursor_row + 1 /\ d.cursor_col = c.cursor_col
            /\ d.history = [c.history EXCEPT ![history_slot(c.cursor_row + 1)] = BlankRow]
<1> DEFINE n == IF c.history_row_count < CONSOLE_HISTORY_LINES
                THEN [c EXCEPT !.cursor_row = @ + 1, !.history_row_count = @ + 1]
                ELSE [c EXCEPT !.cursor_row = @ + 1, !.history_first_row = @ + 1]
           h == [c.history EXCEPT ![history_slot(c.cursor_row + 1)] = BlankRow]
           e == clear_history_row(n, n.cursor_row)
           d == clamp_viewport(e)
<1>1. /\ c.cursor_row \in Nat /\ c.history_first_row \in Nat /\ c.viewport_top \in Nat
      /\ c.history_row_count \in 1 .. H /\ c.history \in [0 .. H - 1 -> Row]
      /\ c.cursor_row = c.history_first_row + c.history_row_count - 1
      /\ c.history_first_row > 0 => c.history_row_count = H
      /\ c.history_first_row <= c.viewport_top
      /\ c.viewport_top <= bottom_viewport_top(c)
  BY DEF Inside, Kept, Consoles
<1>2. /\ n.cursor_row = c.cursor_row + 1 /\ n.history = c.history
      /\ n.viewport_top = c.viewport_top /\ n.cursor_col = c.cursor_col
      /\ n.history_first_row \in Nat /\ n.history_row_count \in 1 .. H
      /\ n.cursor_row = n.history_first_row + n.history_row_count - 1
      /\ n.history_first_row > 0 => n.history_row_count = H
      /\ c.history_first_row <= n.history_first_row
      /\ n \in Consoles
  <2>1. CASE c.history_row_count < H
    <3> DEFINE row == c.cursor_row + 1
               new == c.history_row_count + 1
    <3>1. n = [c EXCEPT !.cursor_row = row, !.history_row_count = new]
      BY <2>1, ConsoleSizes
    <3>2. row \in Nat /\ new \in 1 .. H
      BY <1>1, <2>1, ConsoleSizes
    <3> HIDE DEF n, row, new
    <3>3. /\ n \in Consoles /\ n.cursor_row = row /\ n.history_row_count = new
          /\ n.history = c.history /\ n.viewport_top = c.viewport_top
          /\ n.cursor_col = c.cursor_col
          /\ n.history_first_row = c.history_first_row
      BY <3>1, <3>2 DEF Inside, Kept, Consoles
    <3> QED BY <1>1, <2>1, <3>2, <3>3, ConsoleSizes DEF row, new
  <2>2. CASE c.history_row_count = H
    <3> DEFINE row == c.cursor_row + 1
               new == c.history_first_row + 1
    <3>1. n = [c EXCEPT !.cursor_row = row, !.history_first_row = new]
      BY <2>2, ConsoleSizes
    <3>2. row \in Nat /\ new \in Nat
      BY <1>1, <2>2, ConsoleSizes
    <3> HIDE DEF n, row, new
    <3>3. /\ n \in Consoles /\ n.cursor_row = row /\ n.history_first_row = new
          /\ n.history = c.history /\ n.viewport_top = c.viewport_top
          /\ n.cursor_col = c.cursor_col
          /\ n.history_row_count = c.history_row_count
      BY <3>1, <3>2 DEF Inside, Kept, Consoles
    <3> QED BY <1>1, <2>2, <3>2, <3>3, ConsoleSizes DEF row, new
  <2> HIDE DEF n
  <2> QED BY <1>1, <2>1, <2>2, ConsoleSizes
<1> HIDE DEF n
<1>3. history_slot(c.cursor_row + 1) \in 0 .. H - 1
  <2> DEFINE k == c.cursor_row + 1
  <2>1. k \in Nat
    BY <1>1
  <2> HIDE DEF k
  <2>2. history_slot(k) \in 0 .. H - 1
    BY <2>1, HistorySlots
  <2> QED BY <2>2 DEF k
<1>4. h \in [0 .. H - 1 -> Row]
  <2>1. BlankRow \in Row
    BY DEF BlankRow, Row, Characters
  <2> QED BY <1>1, <1>3, <2>1
<1>5. e = [n EXCEPT !.history = h]
  BY <1>2 DEF clear_history_row
<1>6. ASSUME NEW row \in Nat, n.history_first_row <= row, row < c.cursor_row
      PROVE  h[history_slot(row)] = c.history[history_slot(row)]
  <2> DEFINE k == c.cursor_row + 1
  <2>1. k \in Nat /\ row < k /\ k < row + H
    BY <1>1, <1>2, <1>6, ConsoleSizes
  <2>2. history_slot(row) # history_slot(k) /\ history_slot(row) \in 0 .. H - 1
    <3> HIDE DEF k
    <3> QED BY <1>6, <2>1, HistorySlots
  <2> QED BY <1>1, <1>3, <2>2
<1> HIDE DEF h, e
<1>7. /\ Kept(e) /\ e.history = h /\ e.cursor_row = n.cursor_row
      /\ e.cursor_col = n.cursor_col /\ e.viewport_top = n.viewport_top
      /\ e.history_first_row = n.history_first_row
      /\ e.history_row_count = n.history_row_count
  BY <1>2, <1>4, <1>5 DEF Kept, Consoles
<1>8. /\ Inside(d)
      /\ \E top \in Nat : d = [e EXCEPT !.viewport_top = top]
  BY <1>7, ClampedView
<1>9. d.viewport_top = (IF c.viewport_top < n.history_first_row
                        THEN n.history_first_row ELSE c.viewport_top)
  <2>1. bottom_viewport_top(c) <= bottom_viewport_top(e)
    BY <1>1, <1>2, <1>7, ConsoleSizes DEF bottom_viewport_top
  <2>2. /\ bottom_viewport_top(e) \in Nat
        /\ e.history_first_row <= bottom_viewport_top(e)
    BY <1>7, BottomView
  <2>3. bottom_viewport_top(c) \in Nat
    BY BottomView DEF Inside
  <2>4. d.viewport_top = LET top == IF e.viewport_top < e.history_first_row
                                   THEN e.history_first_row ELSE e.viewport_top
                         IN IF top > bottom_viewport_top(e) THEN bottom_viewport_top(e) ELSE top
    BY <1>7 DEF clamp_viewport, Kept, Consoles
  <2> HIDE DEF d
  <2> QED BY <1>1, <1>2, <1>7, <2>1, <2>2, <2>3, <2>4
<1>10. d = advance_to_next_line(c)
  BY DEF advance_to_next_line, n, e
<1> HIDE DEF d
<1>11. /\ d.history = h /\ d.cursor_row = c.cursor_row + 1 /\ d.cursor_col = c.cursor_col
       /\ d.history_first_row = n.history_first_row
  BY <1>2, <1>7, <1>8 DEF Kept, Consoles
<1>12. Printed(c, d)
  BY <1>1, <1>2, <1>6, <1>8, <1>9, <1>11 DEF Printed, Inside
<1> QED BY <1>8, <1>10, <1>11, <1>12 DEF h

\* The line with one character put in place.
LinePut(c, col, ch) ==
  [c.history EXCEPT ![history_slot(c.cursor_row)] =
     [c.history[history_slot(c.cursor_row)] EXCEPT ![col] = ch]]

\* Writing one character on the cursor's line.
LEMMA CharacterWritten ==
  ASSUME NEW c, Inside(c), NEW ch \in Characters, NEW at \in Columns, NEW col \in Columns
  PROVE  LET d == [c EXCEPT !.history = LinePut(c, at, ch), !.cursor_col = col]
         IN /\ Inside(d) /\ Printed(c, d) /\ d.cursor_row = c.cursor_row
            /\ d.cursor_col = col
<1> DEFINE line == [c.history[history_slot(c.cursor_row)] EXCEPT ![at] = ch]
<1>1. c.cursor_row \in Nat /\ c.history \in [0 .. H - 1 -> Row]
  BY DEF Inside, Kept, Consoles
<1>2. history_slot(c.cursor_row) \in 0 .. H - 1
  BY <1>1, HistorySlots
<1>3. line \in Row
  BY <1>1, <1>2 DEF Row
<1>4. LinePut(c, at, ch) = [c.history EXCEPT ![history_slot(c.cursor_row)] = line]
  BY DEF LinePut
<1> HIDE DEF line
<1>5. LET d == [c EXCEPT !.history = [c.history EXCEPT ![history_slot(c.cursor_row)] = line],
                         !.cursor_col = col]
      IN Inside(d) /\ Printed(c, d) /\ d.cursor_row = c.cursor_row /\ d.cursor_col = col
  BY <1>3, LineWritten, Zenon
<1> QED BY <1>4, <1>5, Zenon

\* The first branch of console_put_char.
LEMMA NewlinePrinted ==
  ASSUME NEW c, Inside(c)
  PROVE  Inside(Newline(c)) /\ Printed(c, Newline(c))
<1> DEFINE d == [c EXCEPT !.cursor_col = 0]
<1>1. 0 \in Columns
  BY ConsoleSizes DEF Columns
<1>2. /\ d \in Consoles /\ d.history = c.history /\ d.cursor_row = c.cursor_row
      /\ d.viewport_top = c.viewport_top
      /\ d.history_first_row = c.history_first_row
      /\ d.history_row_count = c.history_row_count
  BY <1>1 DEF Inside, Kept, Consoles
<1> HIDE DEF d
<1>3. Inside(d)
  BY <1>2 DEF Inside, Kept, bottom_viewport_top
<1>4. c.viewport_top \in Nat /\ c.history_first_row \in Nat /\ c.cursor_row \in Nat
      /\ c.history_first_row <= c.viewport_top
  BY DEF Inside, Kept, Consoles
<1>5. Printed(c, d)
  BY <1>2, <1>3, <1>4 DEF Printed, Inside
<1>6. Inside(advance_to_next_line(d)) /\ Printed(d, advance_to_next_line(d))
  BY <1>3, LineAdvanced
<1>7. Newline(c) = advance_to_next_line(d)
  BY DEF Newline, d
<1> QED BY <1>5, <1>6, <1>7, PrintedTransitive DEF Inside

\* The second branch: nothing happens at the left edge.
LEMMA BackspacePrinted ==
  ASSUME NEW c, Inside(c)
  PROVE  Inside(Backspace(c)) /\ Printed(c, Backspace(c))
<1>1. CASE c.cursor_col = 0
  <2>1. Backspace(c) = c
    BY <1>1 DEF Backspace
  <2>2. c.viewport_top \in Nat /\ c.history_first_row \in Nat /\ c.cursor_row \in Nat
        /\ c.history_first_row <= c.viewport_top
    BY DEF Inside, Kept, Consoles
  <2> QED BY <2>1, <2>2 DEF Printed, Inside
<1>2. CASE c.cursor_col # 0
  <2> DEFINE col == c.cursor_col - 1
             d == [c EXCEPT !.history = LinePut(c, col, " "), !.cursor_col = col]
  <2>1. col \in Columns
    BY <1>2, ConsoleSizes DEF Columns, Inside, Kept, Consoles
  <2>2. " " \in Characters
    BY DEF Characters
  <2>3. Backspace(c) = d
    <3>1. /\ c \in Consoles
          /\ Backspace(c) = [c EXCEPT !.cursor_col = col, !.history = LinePut(c, col, " ")]
      BY <1>2 DEF Backspace, LinePut, Inside, Kept, Consoles
    <3> QED BY <3>1 DEF Consoles
  <2>4. Inside(d) /\ Printed(c, d)
    <3> HIDE DEF col
    <3> QED BY <2>1, <2>2, CharacterWritten
  <2> QED BY <2>3, <2>4
<1> QED BY <1>1, <1>2

\* The third branch, with its line feed at the right edge.
LEMMA CharacterPrinted ==
  ASSUME NEW c, Inside(c), NEW ch \in Characters
  PROVE  Inside(Character(c, ch)) /\ Printed(c, Character(c, ch))
<1> DEFINE new == LinePut(c, c.cursor_col, ch)
           put == [c EXCEPT !.history = new, !.cursor_col = c.cursor_col + 1]
           edge == [c EXCEPT !.history = new, !.cursor_col = 0]
<1>1. c \in Consoles /\ c.cursor_col \in Columns
  BY DEF Inside, Kept, Consoles
<1>2. Character(c, ch) = IF c.cursor_col + 1 >= VGA_WIDTH
                         THEN advance_to_next_line(edge) ELSE put
  <2>1. put = [c EXCEPT !.history[history_slot(c.cursor_row)][c.cursor_col] = ch,
                        !.cursor_col = @ + 1]
    BY <1>1 DEF LinePut, Consoles
  <2> HIDE DEF new
  <2>2. [put EXCEPT !.cursor_col = 0] = edge /\ put.cursor_col = c.cursor_col + 1
    BY <1>1 DEF Consoles
  <2> HIDE DEF put, edge
  <2> QED BY <2>1, <2>2 DEF Character
<1>3. CASE c.cursor_col + 1 >= VGA_WIDTH
  <2>1. 0 \in Columns
    BY ConsoleSizes DEF Columns
  <2>2. Inside(edge) /\ Printed(c, edge)
    BY <1>1, <2>1, CharacterWritten
  <2> HIDE DEF edge
  <2>3. Inside(advance_to_next_line(edge)) /\ Printed(edge, advance_to_next_line(edge))
    BY <2>2, LineAdvanced
  <2> QED BY <1>2, <1>3, <2>2, <2>3, PrintedTransitive DEF Inside
<1>4. CASE ~(c.cursor_col + 1 >= VGA_WIDTH)
  <2> DEFINE col == c.cursor_col + 1
  <2>1. col \in Columns
    BY <1>1, <1>4, ConsoleSizes DEF Columns
  <2>2. put = [c EXCEPT !.history = new, !.cursor_col = col]
    OBVIOUS
  <2> HIDE DEF put, col
  <2>3. Inside(put) /\ Printed(c, put)
    BY <1>1, <2>1, <2>2, CharacterWritten
  <2> QED BY <1>2, <1>4, <2>3
<1> QED BY <1>3, <1>4

\* What a call that prints leaves: the screen shows the view, and a view that
\* had been scrolled back is where it was.
After(c) ==
  {d \in Views : /\ Kept(d) /\ c.cursor_row <= d.cursor_row
                 /\ c.history_first_row <= d.history_first_row
                 /\ console_is_scrolled(c) => console_is_scrolled(d) /\ Printed(c, d)}

\* Output after output.
LEMMA AfterTransitive ==
  ASSUME NEW c \in Views, NEW d \in After(c), NEW e \in After(d)
  PROVE  e \in After(c)
<1>1. Kept(c) /\ Kept(d) /\ Kept(e)
  BY DEF After, Views, Inside
<1>2. console_is_scrolled(c) => Printed(c, e)
  BY <1>1, PrintedTransitive DEF After
<1>3. c.cursor_row <= e.cursor_row /\ c.history_first_row <= e.history_first_row
  BY <1>1 DEF After, Kept, Consoles
<1> QED BY <1>1, <1>2, <1>3 DEF After

\* What console_put_char does after its branch: the view at the bottom follows,
\* one scrolled back stays, and the screen is drawn.
LEMMA FollowedView ==
  ASSUME NEW c \in Views, NEW e, Inside(e), Printed(c, e)
  PROVE  render_viewport(Follow(c, e)) \in After(c)
<1>1. /\ Inside(c) /\ Kept(c) /\ Kept(e)
      /\ c.cursor_row \in Nat /\ c.history_first_row \in Nat /\ c.viewport_top \in Nat
      /\ e.cursor_row \in Nat /\ e.history_first_row \in Nat /\ e.viewport_top \in Nat
  BY DEF Views, Inside, Kept, Consoles
<1>2. /\ bottom_viewport_top(c) \in Nat /\ bottom_viewport_top(e) \in Nat
      /\ e.history_first_row <= bottom_viewport_top(e)
  BY <1>1, BottomView
<1> DEFINE top == IF console_is_scrolled(c) THEN e.viewport_top ELSE bottom_viewport_top(e)
           f == [e EXCEPT !.viewport_top = top]
<1>3. Follow(c, e) = f
  <2>1. CASE console_is_scrolled(c)
    <3>1. clamp_viewport(e) = [e EXCEPT !.viewport_top = e.viewport_top]
      BY <1>1, <1>2 DEF clamp_viewport, Inside
    <3> QED BY <2>1, <3>1 DEF Follow
  <2> QED BY <2>1 DEF Follow
<1>4. top \in Nat /\ e.history_first_row <= top /\ top <= bottom_viewport_top(e)
  BY <1>1, <1>2 DEF Inside
<1>5. Inside(f)
  <2> HIDE DEF top
  <2> QED BY <1>1, <1>4, PlacedView
<1>6. render_viewport(f) \in Views
  <2> HIDE DEF f
  <2> QED BY <1>5, RenderedView
<1> DEFINE d == render_viewport(f)
<1>7. /\ d.cursor_row = e.cursor_row /\ d.history_first_row = e.history_first_row
      /\ d.history = e.history /\ d.viewport_top = top
      /\ d.history_row_count = e.history_row_count
  <2> HIDE DEF top
  <2>1. /\ f \in Consoles /\ f.cursor_row = e.cursor_row
        /\ f.history_first_row = e.history_first_row
        /\ f.history = e.history /\ f.viewport_top = top
        /\ f.history_row_count = e.history_row_count
    BY <1>1, <1>4 DEF Kept, Consoles
  <2> HIDE DEF f
  <2> QED BY <2>1 DEF render_viewport, Consoles
<1>8. d = render_viewport(Follow(c, e))
  BY <1>3
<1> HIDE DEF d, f
<1>9. Kept(d)
  BY <1>6 DEF Views, Inside, d
<1>10. ASSUME console_is_scrolled(c) PROVE console_is_scrolled(d) /\ Printed(c, d)
  <2>1. d.viewport_top = e.viewport_top
    BY <1>7, <1>10
  <2>2. Printed(c, d)
    BY <1>7, <1>9, <2>1 DEF Printed
  <2>3. bottom_viewport_top(d) = bottom_viewport_top(e)
    BY <1>7 DEF bottom_viewport_top
  <2>4. e.viewport_top < bottom_viewport_top(e)
    <3>1. c.viewport_top < bottom_viewport_top(c)
      BY <1>1, <1>2, <1>10 DEF Inside, console_is_scrolled
    <3>2. /\ c.cursor_row = c.history_first_row + c.history_row_count - 1
          /\ c.history_row_count \in 1 .. H /\ c.history_first_row <= c.viewport_top
          /\ e.cursor_row = e.history_first_row + e.history_row_count - 1
          /\ e.history_row_count \in 1 .. H
          /\ e.history_first_row > 0 => e.history_row_count = H
          /\ c.cursor_row <= e.cursor_row /\ c.history_first_row <= e.history_first_row
          /\ e.viewport_top = (IF c.viewport_top < e.history_first_row
                               THEN e.history_first_row ELSE c.viewport_top)
      BY <1>1 DEF Inside, Kept, Consoles, Printed
    <3>3. bottom_viewport_top(c) = c.cursor_row - (VGA_HEIGHT - 1)
      BY <1>1, <3>1, ConsoleSizes DEF bottom_viewport_top
    <3>4. c.viewport_top < e.cursor_row - (VGA_HEIGHT - 1) /\ VGA_HEIGHT < H
      BY <1>1, <3>1, <3>2, <3>3, ConsoleSizes
    <3>5. bottom_viewport_top(e) = e.cursor_row - (VGA_HEIGHT - 1)
      BY <1>1, <3>4, ConsoleSizes DEF bottom_viewport_top
    <3>6. e.viewport_top < e.cursor_row - (VGA_HEIGHT - 1)
      <4>1. CASE c.viewport_top < e.history_first_row
        BY <1>1, <3>2, <3>4, <4>1, ConsoleSizes
      <4>2. CASE ~(c.viewport_top < e.history_first_row)
        BY <1>1, <3>2, <3>4, <4>2, ConsoleSizes
      <4> QED BY <4>1, <4>2
    <3> QED BY <3>5, <3>6
  <2> QED BY <1>1, <1>2, <2>1, <2>2, <2>3, <2>4 DEF console_is_scrolled
<1>11. c.cursor_row <= d.cursor_row /\ c.history_first_row <= d.history_first_row
  BY <1>7 DEF Printed
<1> QED BY <1>6, <1>8, <1>9, <1>10, <1>11 DEF After, d

\* console_put_char, whatever the character.
LEMMA PutCharAfter ==
  ASSUME NEW c \in Views, NEW ch \in Characters
  PROVE  console_put_char(c, ch) \in After(c)
<1>1. Inside(c)
  BY DEF Views
<1>2. CASE ch = "\n"
  <2>1. console_put_char(c, ch) = render_viewport(Follow(c, Newline(c)))
    BY <1>2 DEF console_put_char
  <2>2. Inside(Newline(c)) /\ Printed(c, Newline(c))
    BY <1>1, NewlinePrinted
  <2> QED BY <2>1, <2>2, FollowedView
<1>3. CASE ch = "BS"
  <2>1. console_put_char(c, ch) = render_viewport(Follow(c, Backspace(c)))
    BY <1>3 DEF console_put_char
  <2>2. Inside(Backspace(c)) /\ Printed(c, Backspace(c))
    BY <1>1, BackspacePrinted
  <2> QED BY <2>1, <2>2, FollowedView
<1>4. CASE ch # "\n" /\ ch # "BS"
  <2>1. console_put_char(c, ch) = render_viewport(Follow(c, Character(c, ch)))
    BY <1>4 DEF console_put_char
  <2>2. Inside(Character(c, ch)) /\ Printed(c, Character(c, ch))
    BY <1>1, CharacterPrinted
  <2> QED BY <2>1, <2>2, FollowedView
<1> QED BY <1>2, <1>3, <1>4

\* W[n] is the console after n passes of the loop of console_write.
IsWriting(W, c, text) ==
  /\ W[0] = c
  /\ \A n \in 0 .. Len(text) : W[n] \in After(c)
  /\ \A n \in 1 .. Len(text) : W[n] = console_put_char(W[n - 1], text[n])

\* console_write: every pass of its loop prints one character.
LEMMA WritePasses ==
  ASSUME NEW c \in Views, NEW text \in Seq(Characters)
  PROVE  \E W : IsWriting(W, c, text) /\ console_write(c, text) = W[Len(text)]
<1> DEFINE L == Len(text)
           S == After(c)
           D == [p \in (1 .. L) \X S |-> console_put_char(p[2], text[p[1]])]
           Body(f) == [n \in 0 .. L |-> IF n = 0 THEN c ELSE console_put_char(f[n - 1], text[n])]
<1>1. L \in Nat
  OBVIOUS
<1>2. c \in S
  <2>1. /\ Inside(c) /\ Kept(c) /\ c.viewport_top \in Nat /\ c.history_first_row \in Nat
        /\ c.cursor_row \in Nat /\ c.history_first_row <= c.viewport_top
    BY DEF Views, Inside, Kept, Consoles
  <2> QED BY <2>1 DEF After, Printed
<1>3. ASSUME NEW n \in 1 .. L, NEW d \in S PROVE console_put_char(d, text[n]) \in S
  <2>1. text[n] \in Characters
    OBVIOUS
  <2>2. d \in Views
    BY DEF After
  <2>3. console_put_char(d, text[n]) \in After(d)
    BY <2>1, <2>2, PutCharAfter
  <2> QED BY <2>3, AfterTransitive
<1> HIDE DEF L, S
<1>4. IsLoopBody(D, L, S)
  BY <1>3 DEF IsLoopBody
<1>5. \A n \in 1 .. L, d \in S : D[<<n, d>>] = console_put_char(d, text[n])
  OBVIOUS
<1> HIDE DEF D
<1>6. PICK g : IsLoopRun(g, c, D, L, S)
  BY <1>1, <1>2, <1>4, RecursionExists
<1>7. g = Body(g)
  <2>1. g \in [0 .. L -> S] /\ g[0] = c /\ \A n \in 1 .. L : g[n] = D[<<n, g[n - 1]>>]
    BY <1>6 DEF IsLoopRun
  <2>2. ASSUME NEW n \in 0 .. L
        PROVE  g[n] = IF n = 0 THEN c ELSE console_put_char(g[n - 1], text[n])
    <3>1. CASE n = 0
      BY <2>1, <3>1
    <3>2. CASE n # 0
      <4>1. n \in 1 .. L /\ g[n - 1] \in S
        BY <1>1, <2>1, <3>2
      <4> QED BY <1>5, <2>1, <3>2, <4>1
    <3> QED BY <3>1, <3>2
  <2> QED BY <2>1, <2>2
<1> DEFINE W == CHOOSE f : f = Body(f)
<1>8. console_write(c, text) = W[L]
  BY DEF console_write, L
<1>9. W = Body(W)
  <2> HIDE DEF Body
  <2> QED BY <1>7
<1> HIDE DEF W
<1> DEFINE T == {n \in 0 .. L : W[n] \in S}
<1>10. 0 \in T
  BY <1>1, <1>2, <1>9
<1>11. ASSUME NEW n \in 0 .. L - 1, n \in T PROVE n + 1 \in T
  <2>1. n + 1 \in 1 .. L /\ n + 1 \in 0 .. L /\ n + 1 # 0 /\ (n + 1) - 1 = n
    BY <1>1
  <2>2. W[n + 1] = console_put_char(W[n], text[n + 1])
    BY <1>9, <2>1
  <2>3. console_put_char(W[n], text[n + 1]) \in S
    BY <1>3, <1>11, <2>1
  <2> QED BY <2>1, <2>2, <2>3
<1>12. 0 .. L \subseteq T
  <2> HIDE DEF T
  <2> QED BY <1>1, <1>10, <1>11, IntervalInduction
<1>13. \A n \in 1 .. L : W[n] = console_put_char(W[n - 1], text[n])
  BY <1>1, <1>9
<1>14. W[0] = c
  BY <1>1, <1>9
<1>15. \A n \in 0 .. L : W[n] \in S
  BY <1>12
<1>16. IsWriting(W, c, text)
  BY <1>13, <1>14, <1>15 DEF IsWriting, L, S
<1> QED BY <1>8, <1>16 DEF L

\* And what it returns.
LEMMA WriteAfter ==
  ASSUME NEW c \in Views, NEW text \in Seq(Characters)
  PROVE  console_write(c, text) \in After(c)
<1>1. PICK W : IsWriting(W, c, text) /\ console_write(c, text) = W[Len(text)]
  BY WritePasses
<1>2. Len(text) \in 0 .. Len(text)
  OBVIOUS
<1> QED BY <1>1, <1>2 DEF IsWriting

\* The keys that scroll.
LEMMA ViewMoved ==
  ASSUME NEW c \in Views
  PROVE  /\ console_scroll_up(c, 1) \in Views
         /\ console_scroll_down(c, 1) \in Views
         /\ console_scroll_to_bottom(c) \in Views
<1>1. /\ Inside(c) /\ Kept(c) /\ c.viewport_top \in Nat /\ c.history_first_row \in Nat
      /\ c.history_first_row <= c.viewport_top
      /\ c.viewport_top <= bottom_viewport_top(c)
  BY DEF Views, Inside, Kept, Consoles
<1>2. bottom_viewport_top(c) \in Nat
  BY <1>1, BottomView
<1>3. ASSUME NEW top \in Nat, c.history_first_row <= top, top <= bottom_viewport_top(c)
      PROVE  MoveView(c, top) \in Views
  <2>1. Inside([c EXCEPT !.viewport_top = top])
    BY <1>1, <1>3, PlacedView
  <2>2. render_viewport([c EXCEPT !.viewport_top = top]) \in Views
    BY <2>1, RenderedView
  <2> QED BY <2>2 DEF MoveView
<1> DEFINE up == IF 1 > UnsignedMinus(c.viewport_top, c.history_first_row)
                 THEN c.history_first_row ELSE UnsignedMinus(c.viewport_top, 1)
           down == IF c.viewport_top + 1 > bottom_viewport_top(c)
                   THEN bottom_viewport_top(c) ELSE c.viewport_top + 1
<1>4. up \in Nat /\ c.history_first_row <= up /\ up <= bottom_viewport_top(c)
  BY <1>1, <1>2 DEF UnsignedMinus
<1>5. down \in Nat /\ c.history_first_row <= down /\ down <= bottom_viewport_top(c)
  BY <1>1, <1>2
<1>6. /\ console_scroll_up(c, 1) = MoveView(c, up)
      /\ console_scroll_down(c, 1) = MoveView(c, down)
      /\ console_scroll_to_bottom(c) = MoveView(c, bottom_viewport_top(c))
  BY DEF console_scroll_up, console_scroll_down, console_scroll_to_bottom
<1> HIDE DEF up, down
<1> QED BY <1>1, <1>2, <1>3, <1>4, <1>5, <1>6

\* clear starts from line 0 again; the dropped lines are not shown.
LEMMA ClearedView ==
  ASSUME NEW c \in Views
  PROVE  console_clear(c) \in Views
<1> DEFINE h == [c.history EXCEPT ![history_slot(0)] = BlankRow]
           cleared == [c EXCEPT !.cursor_row = 0, !.cursor_col = 0, !.viewport_top = 0,
                                !.history_first_row = 0, !.history_row_count = 1]
           d == [cleared EXCEPT !.history = h]
<1>1. c \in Consoles
  BY DEF Views
<1>2. 0 \in Columns /\ 1 \in 1 .. H
  BY ConsoleSizes DEF Columns
<1>3. /\ cleared \in Consoles /\ cleared.history = c.history
      /\ cleared.cursor_row = 0 /\ cleared.viewport_top = 0
      /\ cleared.history_first_row = 0 /\ cleared.history_row_count = 1
  BY <1>1, <1>2 DEF Consoles
<1>4. console_clear(c) = render_viewport(d)
  BY <1>3 DEF console_clear, clear_history_row
<1> HIDE DEF cleared
<1>5. h \in [0 .. H - 1 -> Row]
  <2>1. BlankRow \in Row
    BY DEF BlankRow, Row, Characters
  <2>2. history_slot(0) \in 0 .. H - 1
    BY HistorySlots
  <2> QED BY <1>1, <2>1, <2>2 DEF Consoles
<1> HIDE DEF h
<1>6. /\ d \in Consoles /\ d.cursor_row = 0 /\ d.viewport_top = 0
      /\ d.history_first_row = 0 /\ d.history_row_count = 1
  BY <1>3, <1>5 DEF Consoles
<1> HIDE DEF d
<1>7. Inside(d)
  BY <1>6, ConsoleSizes DEF Inside, Kept, bottom_viewport_top
<1> QED BY <1>4, <1>7, RenderedView

\* The console at boot.
LEMMA FirstView == console_init \in Views
<1>1. 0 \in Columns /\ 1 \in 1 .. H /\ BlankRow \in Row
  BY ConsoleSizes DEF Columns, BlankRow, Row, Characters
<1>2. console_init \in Consoles
  BY <1>1, ConsoleSizes DEF console_init, Consoles
<1>3. Inside(console_init)
  BY <1>2, ConsoleSizes DEF Inside, Kept, bottom_viewport_top, console_init
<1>4. ASSUME NEW r \in ScreenRows PROVE RenderedRow(console_init, r) = BlankRow
  <2> DEFINE row == console_init.viewport_top + r
  <2>1. row \in Nat
    BY DEF console_init, ScreenRows
  <2> HIDE DEF row
  <2>2. history_slot(row) \in 0 .. H - 1
    BY <2>1, HistorySlots
  <2>3. console_init.history[history_slot(row)] = BlankRow
    BY <2>2, ConsoleSizes DEF console_init
  <2> QED BY <2>3 DEF RenderedRow, row
<1>5. \A r \in ScreenRows : console_init.screen[r] = BlankRow
  BY DEF console_init
<1> QED BY <1>2, <1>3, <1>4, <1>5 DEF Views

-----------------------------------------------------------------------------
(* The terminal.                                                           *)

TerminalInv == KeyboardInv /\ console \in Views /\ input_buffer \in Seq(KEYS)

\* The calls that print keep the console a view.
LEMMA WriteView ==
  ASSUME NEW c \in Views, NEW text \in Seq(Characters)
  PROVE  console_write(c, text) \in Views
BY WriteAfter DEF After

\* One character.
LEMMA PutCharView ==
  ASSUME NEW c \in Views, NEW ch \in Characters
  PROVE  console_put_char(c, ch) \in Views
BY PutCharAfter DEF After

\* Printing nothing.
LEMMA SelfAfter == ASSUME NEW c \in Views PROVE c \in After(c)
<1>1. /\ Inside(c) /\ Kept(c) /\ c.viewport_top \in Nat /\ c.history_first_row \in Nat
      /\ c.cursor_row \in Nat /\ c.history_first_row <= c.viewport_top
  BY DEF Views, Inside, Kept, Consoles
<1> QED BY <1>1 DEF After, Printed

\* Output printed by a process, after the line feed that leaves the prompt's
\* line, and what shell_end_async_output prints again.
LEMMA OutputAfter ==
  ASSUME console \in Views, NEW text \in Seq(Characters)
  PROVE  /\ console_write(console, text) \in After(console)
         /\ console_write(shell_note_async_output(console), text) \in After(console)
<1>1. shell_note_async_output(console) \in After(console)
  <2>1. console_put_char(console, "\n") \in After(console)
    BY PutCharAfter, Texts
  <2> QED BY <2>1, SelfAfter DEF shell_note_async_output
<1> DEFINE c == shell_note_async_output(console)
<1> HIDE DEF c
<1>2. c \in Views /\ c \in After(console)
  BY <1>1 DEF After, c
<1>3. console_write(c, text) \in After(c)
  BY <1>2, WriteAfter
<1>4. console_write(c, text) \in After(console)
  BY <1>2, <1>3, AfterTransitive
<1> QED BY <1>4, WriteAfter DEF c

\* A key that is handled leaves a view and a line of keys.
LEMMA KeyHandled ==
  ASSUME TerminalInv, shell_handle_key
  PROVE  console' \in Views /\ input_buffer' \in Seq(KEYS)
<1>1. /\ console \in Views /\ input_buffer \in Seq(KEYS) /\ out \in KEYS
      /\ out \in Characters
  BY DEF TerminalInv, KeyboardInv, KeyboardTypeOK, Characters
<1>2. AtBottom \in Views
  BY <1>1, ViewMoved DEF AtBottom
<1>3. CASE out \in {"KEY_UP", "KEY_DOWN"}
  <2>1. Scroll
    BY <1>3 DEF shell_handle_key
  <2> QED BY <1>1, <2>1, ViewMoved DEF Scroll, shell
<1>4. CASE out = "\n"
  <2>1. Enter
    BY <1>4 DEF shell_handle_key
  <2> DEFINE c == console_put_char(AtBottom, "\n")
  <2>2. c \in Views
    BY <1>2, PutCharView, Texts
  <2>3. <<>> \in Seq(KEYS) /\ PROMPT \o <<>> \in Seq(Characters)
    BY Texts
  <2>4. ASSUME NEW d \in Views, shell_prompt(d, <<>>) PROVE console' \in Views
    BY <2>3, <2>4, WriteView DEF shell_prompt
  <2>5. \A text \in OUTPUTS : console_write(c, text) \in Views
    <3> HIDE DEF c
    <3> QED BY <2>2, WriteView, Texts
  <2>6. console_clear(c) \in Views
    <3> HIDE DEF c
    <3> QED BY <2>2, ClearedView
  <2>7. \/ \E text \in OUTPUTS : shell_prompt(console_write(c, text), <<>>)
        \/ shell_prompt(console_clear(c), <<>>)
    BY <2>1 DEF Enter
  <2>8. input_buffer' = <<>>
    BY <2>1 DEF Enter
  <2> HIDE DEF c
  <2> QED BY <2>3, <2>4, <2>5, <2>6, <2>7, <2>8
<1>5. CASE out = "BS"
  <2>1. Erase
    BY <1>5 DEF shell_handle_key
  <2>2. console_put_char(AtBottom, "BS") \in Views
    BY <1>2, PutCharView, Texts
  <2>3. input_buffer # <<>> => SubSeq(input_buffer, 1, Len(input_buffer) - 1) \in Seq(KEYS)
    BY <1>1
  <2> QED BY <1>1, <1>2, <2>1, <2>2, <2>3 DEF Erase
<1>6. CASE out \notin {"KEY_UP", "KEY_DOWN", "\n", "BS"}
  <2>1. Type(out)
    BY <1>6 DEF shell_handle_key
  <2>2. console_put_char(AtBottom, out) \in Views
    BY <1>1, <1>2, PutCharView
  <2>3. Append(input_buffer, out) \in Seq(KEYS)
    BY <1>1
  <2> QED BY <1>1, <1>2, <2>1, <2>2, <2>3 DEF Type
<1> QED BY <1>3, <1>4, <1>5, <1>6

\* Every step but the handling of a key only adds output.
LEMMA StepAfter ==
  ASSUME TerminalInv, [TerminalNext]_terminal_vars, loop # "key"
  PROVE  console' \in After(console) /\ input_buffer' = input_buffer
<1>1. console \in Views /\ console \in After(console) /\ input_buffer \in Seq(KEYS)
  BY SelfAfter DEF TerminalInv
<1>2. CASE UNCHANGED terminal_vars
  BY <1>1, <1>2 DEF terminal_vars, shell
<1>3. ASSUME NEW code \in ScanCodes, IRQ1(code) PROVE console' = console /\ input_buffer' = input_buffer
  BY <1>3 DEF IRQ1, shell
<1>4. CASE ReadingKey
  BY <1>1, <1>4 DEF ReadingKey, shell
<1>5. CASE shell_handle_key
  BY <1>5 DEF shell_handle_key
<1>6. CASE shell_begin_async_output
  BY <1>1, <1>6 DEF shell_begin_async_output
<1>7. ASSUME NEW text \in OUTPUTS, SysWrite(text)
      PROVE  console' \in After(console) /\ input_buffer' = input_buffer
  BY <1>1, <1>7, OutputAfter, Texts DEF SysWrite
<1>8. CASE ProcessExited
  BY <1>1, <1>8, OutputAfter, Texts DEF ProcessExited, shell
<1>9. CASE shell_end_async_output
  <2>1. PROMPT \o Restored \in Seq(Characters)
    BY <1>1, Texts DEF Restored
  <2>2. console_write(console, PROMPT \o Restored) \in After(console)
    BY <1>1, <2>1, OutputAfter
  <2> QED BY <1>1, <1>9, <2>2 DEF shell_end_async_output, shell_prompt
<1> QED BY <1>1, <1>2, <1>3, <1>4, <1>5, <1>6, <1>7, <1>8, <1>9 DEF TerminalNext

\* The invariant is inductive.
LEMMA TerminalInvStep == TerminalInv /\ [TerminalNext]_terminal_vars => TerminalInv'
<1> SUFFICES ASSUME TerminalInv, [TerminalNext]_terminal_vars PROVE TerminalInv'
  OBVIOUS
<1>1. KeyboardInv'
  BY TerminalStepIsKeyboardStep, KeyboardInvStep DEF TerminalInv
<1>2. console' \in Views /\ input_buffer' \in Seq(KEYS)
  <2>1. CASE loop # "key"
    BY <2>1, StepAfter DEF TerminalInv, After
  <2>2. CASE shell_handle_key
    BY <2>2, KeyHandled
  <2>3. CASE loop = "key" /\ ~shell_handle_key
    <3>1. console' = console /\ input_buffer' = input_buffer
      BY <2>3 DEF TerminalNext, terminal_vars, IRQ1, ReadingKey, shell,
        shell_begin_async_output, SysWrite, ProcessExited, shell_end_async_output
    <3> QED BY <3>1 DEF TerminalInv
  <2> QED BY <2>1, <2>2, <2>3
<1> QED BY <1>1, <1>2 DEF TerminalInv

\* It holds when the first prompt is printed.
LEMMA TerminalInitInv == TerminalInit => TerminalInv
<1> SUFFICES ASSUME TerminalInit PROVE TerminalInv
  OBVIOUS
<1>1. KeyboardInv
  BY KeyboardInit DEF TerminalInit
<1>2. console \in Views
  BY FirstView, WriteView, Texts DEF TerminalInit
<1> QED BY <1>1, <1>2 DEF TerminalInv, TerminalInit

\* So it always holds.
LEMMA TerminalInvHolds == TerminalSpec => []TerminalInv
BY TerminalInitInv, TerminalInvStep, PTL DEF TerminalSpec

\* It implies what the runs check.
LEMMA TerminalInvExact == TerminalInv => IndexesInside
BY DEF TerminalInv, IndexesInside, KeyboardInv, ViewExact, Views, Inside, Kept, Consoles, H

\* No index of the ring of keys or of the ring of kept lines leaves its ring,
\* no unsigned difference of console.c wraps, and the screen always shows the
\* view, for every size of the rings and of the screen and whatever is typed
\* and printed.
THEOREM ViewAlwaysExact == TerminalSpec => []IndexesInside
BY TerminalInvHolds, TerminalInvExact, PTL

\* Output never disturbs a user who reads back: the view stays on its lines and
\* they keep their text until the ring drops them.
THEOREM OutputKeepsView == TerminalSpec => ReadingUndisturbed
<1> DEFINE Undisturbed ==
      loop # "key" /\ console_is_scrolled(console) =>
       /\ console'.viewport_top = (IF console.viewport_top < console'.history_first_row
                                   THEN console'.history_first_row ELSE console.viewport_top)
       /\ \A r \in ScreenRows :
            LET row == console'.viewport_top + r IN
            row < console.cursor_row =>
              console'.screen[r] = console.history[history_slot(row)]
<1>1. TerminalInv /\ [TerminalNext]_terminal_vars => Undisturbed
  <2> SUFFICES ASSUME TerminalInv, [TerminalNext]_terminal_vars,
                      loop # "key", console_is_scrolled(console)
               PROVE  Undisturbed
    OBVIOUS
  <2>1. /\ console \in Views /\ console' \in Views /\ Printed(console, console')
        /\ console'.cursor_row \in Nat /\ console'.history_first_row \in Nat
        /\ console'.viewport_top \in Nat /\ console.cursor_row \in Nat
        /\ console'.history_row_count \in Nat
        /\ console'.history_first_row <= console'.viewport_top
        /\ console'.cursor_row = console'.history_first_row + console'.history_row_count - 1
    <3>1. console \in Views /\ console' \in After(console)
      BY StepAfter DEF TerminalInv
    <3> QED BY <3>1 DEF After, Views, Inside, Kept, Consoles
  <2>2. ASSUME NEW r \in ScreenRows, console'.viewport_top + r < console.cursor_row
        PROVE  console'.screen[r] = console.history[history_slot(console'.viewport_top + r)]
    <3> DEFINE row == console'.viewport_top + r
    <3>1. /\ row \in Nat /\ console'.history_first_row <= row /\ row < console.cursor_row
          /\ row < console'.history_first_row + console'.history_row_count
      BY <2>1, <2>2 DEF Printed, ScreenRows
    <3>2. console'.screen[r] = RenderedRow(console', r)
      BY <2>1 DEF Views
    <3>3. RenderedRow(console', r) = console'.history[history_slot(row)]
      BY <3>1 DEF RenderedRow
    <3> HIDE DEF row
    <3>4. console'.history[history_slot(row)] = console.history[history_slot(row)]
      BY <2>1, <3>1 DEF Printed
    <3> QED BY <3>2, <3>3, <3>4 DEF row
  <2> QED BY <2>1, <2>2 DEF Printed
<1> QED BY <1>1, TerminalInvHolds, PTL DEF TerminalSpec, ReadingUndisturbed

-----------------------------------------------------------------------------
(* The line shown.                                                         *)

\* The characters that only fill a cell, and the cell of a console.
Printable == Characters \ {"\n", "BS"}
CellOf(c, n) == c.history[history_slot(n \div VGA_WIDTH)][n % VGA_WIDTH]
Here(c) == CellNumber(Position(c))

\* A cell's number and its line and column determine each other.
LEMMA CellSplit ==
  ASSUME NEW row \in Nat, NEW col \in Columns
  PROVE  /\ row * VGA_WIDTH + col \in Nat
         /\ (row * VGA_WIDTH + col) \div VGA_WIDTH = row
         /\ (row * VGA_WIDTH + col) % VGA_WIDTH = col
<1> DEFINE W == VGA_WIDTH
           n == row * W + col
<1>1. W \in Nat \ {0} /\ col \in 0 .. W - 1
  BY ConsoleSizes DEF Columns
<1> HIDE DEF W
<1>2. n \in Nat /\ n - col = row * W
  BY <1>1
<1> HIDE DEF n
<1>3. n = W * (n \div W) + (n % W) /\ n \div W \in Int /\ n % W \in 0 .. W - 1
  BY <1>1, <1>2
<1> DEFINE q == (n \div W) - row
<1>4. W * q = col - (n % W) /\ q \in Int
  BY <1>1, <1>2, <1>3
<1>5. q = 0
  <2> HIDE DEF q
  <2>1. CASE q >= 1
    BY <1>1, <1>3, <1>4, <2>1
  <2>2. CASE q <= -1
    BY <1>1, <1>3, <1>4, <2>2
  <2> QED BY <1>4, <2>1, <2>2
<1>6. n \div W = row
  BY <1>3, <1>5
<1>7. n % W = col
  BY <1>1, <1>3, <1>4, <1>5
<1> QED BY <1>2, <1>6, <1>7 DEF n, W

\* A cell before another is on an earlier line, or further left on the same.
LEMMA CellOrder ==
  ASSUME NEW row \in Nat, NEW col \in Columns, NEW n \in Nat,
         n < row * VGA_WIDTH + col
  PROVE  /\ n \div VGA_WIDTH \in Nat /\ n % VGA_WIDTH \in Columns
         /\ \/ n \div VGA_WIDTH < row
            \/ n \div VGA_WIDTH = row /\ n % VGA_WIDTH < col
<1> DEFINE W == VGA_WIDTH
           q == n \div W
           r == n % W
<1>1. W \in Nat \ {0} /\ col \in 0 .. W - 1
  BY ConsoleSizes DEF Columns
<1> HIDE DEF W
<1>2. n = W * q + r /\ q \in Int /\ r \in 0 .. W - 1
  BY <1>1
<1>3. n < row * W + col
  BY DEF W
<1> HIDE DEF q, r
<1> DEFINE d == q - row
<1>4. W * d < col - r /\ d \in Int
  BY <1>1, <1>2, <1>3
<1>5. d <= 0
  <2> HIDE DEF d
  <2>1. CASE d >= 1
    BY <1>1, <1>2, <1>4, <2>1
  <2> QED BY <1>4, <2>1
<1>6. q < row \/ (q = row /\ r < col)
  BY <1>1, <1>2, <1>4, <1>5
<1>7. q \in Nat
  <2>1. CASE q <= -1
    BY <1>1, <1>2, <2>1
  <2> QED BY <1>2, <2>1
<1> QED BY <1>2, <1>6, <1>7 DEF q, r, W, Columns

\* Following and drawing leave the cursor and the history alone.
LEMMA FollowedCells ==
  ASSUME NEW c, NEW e, Kept(e)
  PROVE  LET d == render_viewport(Follow(c, e))
         IN /\ d.cursor_row = e.cursor_row /\ d.cursor_col = e.cursor_col
            /\ d.history_first_row = e.history_first_row /\ d.history = e.history
<1>1. \E top : Follow(c, e) = [e EXCEPT !.viewport_top = top]
  BY ClampedView DEF Follow
<1>2. PICK top : Follow(c, e) = [e EXCEPT !.viewport_top = top]
  BY <1>1
<1>3. e \in Consoles
  BY DEF Kept
<1> DEFINE f == [e EXCEPT !.viewport_top = top]
<1>4. /\ f.cursor_row = e.cursor_row /\ f.cursor_col = e.cursor_col
      /\ f.history_first_row = e.history_first_row /\ f.history = e.history
      /\ DOMAIN f = DOMAIN e
  BY <1>3 DEF Consoles
<1>5. Follow(c, e) = f
  BY <1>2
<1> HIDE DEF f
<1>6. \E scr : render_viewport(f) = [f EXCEPT !.screen = scr]
  BY DEF render_viewport
<1>7. PICK scr : render_viewport(f) = [f EXCEPT !.screen = scr]
  BY <1>6
<1> QED BY <1>3, <1>4, <1>5, <1>7 DEF Consoles

\* The cursor's line after a character, and where the cursor goes.
LEMMA CharacterLine ==
  ASSUME NEW c, Inside(c), NEW ch \in Characters
  PROVE  LET d == Character(c, ch)
         IN /\ Here(d) = Here(c) + 1
            /\ d.history_first_row <= c.cursor_row =>
                 d.history[history_slot(c.cursor_row)] =
                   [c.history[history_slot(c.cursor_row)] EXCEPT ![c.cursor_col] = ch]
<1> DEFINE slot == history_slot(c.cursor_row)
           line == [c.history[slot] EXCEPT ![c.cursor_col] = ch]
           new == LinePut(c, c.cursor_col, ch)
           put == [c EXCEPT !.history = new, !.cursor_col = c.cursor_col + 1]
           edge == [c EXCEPT !.history = new, !.cursor_col = 0]
<1>1. /\ c \in Consoles /\ c.cursor_col \in Columns /\ c.cursor_row \in Nat
      /\ c.history \in [0 .. H - 1 -> Row]
  BY DEF Inside, Kept, Consoles
<1>2. slot \in 0 .. H - 1
  BY <1>1, HistorySlots
<1>3. new \in [0 .. H - 1 -> Row] /\ new[slot] = line
  <2>1. line \in Row
    BY <1>1, <1>2 DEF Row
  <2>2. new = [c.history EXCEPT ![slot] = line]
    BY DEF LinePut
  <2> HIDE DEF line, slot, new
  <2> QED BY <1>1, <1>2, <2>1, <2>2
<1>4. Character(c, ch) = IF c.cursor_col + 1 >= VGA_WIDTH
                         THEN advance_to_next_line(edge) ELSE put
  <2>1. put = [c EXCEPT !.history[history_slot(c.cursor_row)][c.cursor_col] = ch,
                        !.cursor_col = @ + 1]
    BY <1>1 DEF LinePut, Consoles
  <2> HIDE DEF new
  <2>2. [put EXCEPT !.cursor_col = 0] = edge /\ put.cursor_col = c.cursor_col + 1
    BY <1>1 DEF Consoles
  <2> HIDE DEF put, edge
  <2> QED BY <2>1, <2>2 DEF Character
<1>5. /\ put.cursor_row = c.cursor_row /\ put.cursor_col = c.cursor_col + 1
      /\ put.history = new
      /\ edge.cursor_row = c.cursor_row /\ edge.cursor_col = 0 /\ edge.history = new
      /\ edge.history_first_row = c.history_first_row
  <2> HIDE DEF new
  <2> QED BY <1>1 DEF Consoles
<1>6. VGA_WIDTH \in Nat \ {0} /\ c.cursor_col \in 0 .. VGA_WIDTH - 1
      /\ c.cursor_row * VGA_WIDTH \in Nat
  BY <1>1, ConsoleSizes DEF Columns
<1>7. CASE c.cursor_col + 1 >= VGA_WIDTH
  <2> DEFINE d == advance_to_next_line(edge)
  <2>1. 0 \in Columns
    BY ConsoleSizes DEF Columns
  <2>2. Inside(edge) /\ Printed(c, edge)
    BY <1>1, <2>1, CharacterWritten
  <2> HIDE DEF edge
  <2>3. /\ Inside(d) /\ d.cursor_row = edge.cursor_row + 1 /\ d.cursor_col = edge.cursor_col
        /\ d.history = [edge.history EXCEPT ![history_slot(edge.cursor_row + 1)] = BlankRow]
    BY <2>2, LineAdvanced
  <2> HIDE DEF d
  <2>4. Here(d) = Here(c) + 1
    <3>1. (c.cursor_row + 1) * VGA_WIDTH = c.cursor_row * VGA_WIDTH + VGA_WIDTH
      BY <1>1, <1>6
    <3>2. c.cursor_col = VGA_WIDTH - 1
      BY <1>6, <1>7
    <3>3. Here(d) = (c.cursor_row + 1) * VGA_WIDTH + 0
      BY <1>5, <2>3 DEF Here, CellNumber, Position
    <3>4. Here(c) = c.cursor_row * VGA_WIDTH + c.cursor_col
      BY DEF Here, CellNumber, Position
    <3> QED BY <1>6, <3>1, <3>2, <3>3, <3>4
  <2>5. ASSUME d.history_first_row <= c.cursor_row
        PROVE  d.history[slot] = line
    <3> DEFINE k == c.cursor_row + 1
    <3>1. k \in Nat /\ c.cursor_row < k /\ k < c.cursor_row + H
      BY <1>1, <1>5, <2>3, <2>5, ConsoleSizes DEF Inside, Kept, Consoles
    <3>2. slot # history_slot(k)
      <4> HIDE DEF k
      <4> QED BY <1>1, <3>1, HistorySlots
    <3>3. d.history = [new EXCEPT ![history_slot(k)] = BlankRow]
      BY <1>5, <2>3
    <3> HIDE DEF k, new, line, slot
    <3> QED BY <1>2, <1>3, <3>2, <3>3
  <2> QED BY <1>4, <1>7, <2>4, <2>5 DEF d
<1>8. CASE ~(c.cursor_col + 1 >= VGA_WIDTH)
  <2>1. Here(put) = Here(c) + 1
    <3>1. Here(put) = c.cursor_row * VGA_WIDTH + (c.cursor_col + 1)
      BY <1>5 DEF Here, CellNumber, Position
    <3>2. Here(c) = c.cursor_row * VGA_WIDTH + c.cursor_col
      BY DEF Here, CellNumber, Position
    <3> QED BY <1>6, <3>1, <3>2
  <2>2. put.history[slot] = line
    BY <1>3, <1>5
  <2> HIDE DEF put
  <2> QED BY <1>4, <1>8, <2>1, <2>2
<1> QED BY <1>7, <1>8

\* c shows the first n characters of the text, the first one in cell start; the
\* cursor is behind them.
Shows(c, start, text, n) ==
  /\ Here(c) = start + n
  /\ \A k \in 1 .. n :
       (start + k - 1) \div VGA_WIDTH >= c.history_first_row
         => CellOf(c, start + k - 1) = text[k]

\* A character printed at the end of what is shown.
LEMMA ShowsNext ==
  ASSUME NEW c \in Views, NEW start \in Nat, NEW text, NEW n \in Nat,
         Shows(c, start, text, n), text[n + 1] \in Printable
  PROVE  Shows(console_put_char(c, text[n + 1]), start, text, n + 1)
<1> DEFINE ch == text[n + 1]
           e == Character(c, ch)
           d == console_put_char(c, ch)
<1>1. /\ Inside(c) /\ Kept(c) /\ c.cursor_col \in Columns /\ c.cursor_row \in Nat
      /\ c.history \in [0 .. H - 1 -> Row]
  BY DEF Views, Inside, Kept, Consoles
<1>2. ch \in Characters /\ ch # "\n" /\ ch # "BS"
  BY DEF Printable
<1> HIDE DEF ch
<1>3. Inside(e) /\ Printed(c, e)
  BY <1>1, <1>2, CharacterPrinted
<1>4. /\ Here(e) = Here(c) + 1
      /\ e.history_first_row <= c.cursor_row =>
           e.history[history_slot(c.cursor_row)] =
             [c.history[history_slot(c.cursor_row)] EXCEPT ![c.cursor_col] = ch]
  BY <1>1, <1>2, CharacterLine
<1>5. d = render_viewport(Follow(c, e))
  BY <1>2 DEF console_put_char
<1> HIDE DEF e
<1>6. /\ d.cursor_row = e.cursor_row /\ d.cursor_col = e.cursor_col
      /\ d.history_first_row = e.history_first_row /\ d.history = e.history
  BY <1>3, <1>5, FollowedCells DEF Inside
<1> HIDE DEF d
<1>7. Here(c) = c.cursor_row * VGA_WIDTH + c.cursor_col /\ Here(c) = start + n
  BY DEF Here, CellNumber, Position, Shows
<1>8. Here(d) = start + (n + 1)
  <2>1. Here(d) = Here(e)
    BY <1>6 DEF Here, CellNumber, Position
  <2> QED BY <1>4, <1>7, <2>1
<1>9. history_slot(c.cursor_row) \in 0 .. H - 1
  BY <1>1, HistorySlots
<1>10. c.history[history_slot(c.cursor_row)] \in Row
  BY <1>1, <1>9
<1>11. ASSUME NEW k \in 1 .. n + 1,
              (start + k - 1) \div VGA_WIDTH >= d.history_first_row
       PROVE  CellOf(d, start + k - 1) = text[k]
  <2> DEFINE cell == start + k - 1
             row == cell \div VGA_WIDTH
             col == cell % VGA_WIDTH
  <2>1. cell \in Nat /\ cell <= Here(c) /\ (cell = Here(c) <=> k = n + 1)
    BY <1>7
  <2>2. CASE k = n + 1
    <3>1. cell = c.cursor_row * VGA_WIDTH + c.cursor_col
      BY <1>7, <2>1, <2>2
    <3>2. row = c.cursor_row /\ col = c.cursor_col
      <4> HIDE DEF cell
      <4> QED BY <1>1, <3>1, CellSplit
    <3>3. e.history_first_row <= c.cursor_row
      BY <1>1, <1>3, <1>6, <1>11, <3>2 DEF Inside, Kept, Consoles
    <3>4. CellOf(d, cell) = d.history[history_slot(c.cursor_row)][c.cursor_col]
      BY <3>2 DEF CellOf
    <3>5. d.history[history_slot(c.cursor_row)][c.cursor_col] = ch
      BY <1>1, <1>4, <1>6, <1>10, <3>3 DEF Row
    <3> QED BY <2>2, <3>4, <3>5 DEF ch
  <2>3. CASE k # n + 1
    <3>1. cell < c.cursor_row * VGA_WIDTH + c.cursor_col /\ k \in 1 .. n
      BY <1>1, <1>7, <2>1, <2>3
    <3>2. /\ row \in Nat /\ col \in Columns
          /\ row < c.cursor_row \/ (row = c.cursor_row /\ col < c.cursor_col)
      <4> HIDE DEF cell
      <4> QED BY <1>1, <2>1, <3>1, CellOrder
    <3>3. /\ e.history_first_row <= row /\ c.history_first_row <= row
          /\ c.history_first_row \in Nat
      <4>1. c.history_first_row \in Nat /\ e.history_first_row \in Nat
        BY <1>1, <1>3 DEF Inside, Kept, Consoles
      <4> QED BY <1>3, <1>6, <1>11, <3>2, <4>1 DEF Printed
    <3>4. CellOf(c, cell) = text[k]
      BY <3>1, <3>2, <3>3 DEF Shows
    <3>5. e.history[history_slot(row)][col] = c.history[history_slot(row)][col]
      <4> HIDE DEF row, col
      <4>1. CASE row < c.cursor_row
        BY <1>3, <3>2, <3>3, <4>1 DEF Printed
      <4>2. CASE row = c.cursor_row /\ col < c.cursor_col
        <5>1. col # c.cursor_col
          BY <1>1, <3>2, <4>2 DEF Columns
        <5> QED BY <1>4, <1>10, <3>2, <3>3, <4>2, <5>1 DEF Row
      <4> QED BY <3>2, <4>1, <4>2
    <3> QED BY <1>6, <3>4, <3>5 DEF CellOf
  <2> QED BY <2>2, <2>3
<1> QED BY <1>8, <1>11 DEF Shows, d, ch

\* What is shown depends on the cursor and on the kept lines only, and on the
\* characters of the text.
LEMMA ShowsSame ==
  ASSUME NEW c, NEW d, NEW start, NEW text, NEW other, NEW n,
         d.cursor_row = c.cursor_row, d.cursor_col = c.cursor_col,
         d.history_first_row = c.history_first_row, d.history = c.history,
         \A k \in 1 .. n : other[k] = text[k],
         Shows(c, start, text, n)
  PROVE  Shows(d, start, other, n)
BY DEF Shows, Here, Position, CellOf

\* A backspace takes the last character shown, unless it is at the left edge.
LEMMA ShowsErased ==
  ASSUME NEW c \in Views, NEW start \in Nat, NEW text, NEW n \in Nat,
         Shows(c, start, text, n + 1), c.cursor_col # 0
  PROVE  Shows(console_put_char(c, "BS"), start, text, n)
<1> DEFINE col == c.cursor_col - 1
           e == Backspace(c)
           d == console_put_char(c, "BS")
           slot == history_slot(c.cursor_row)
           line == [c.history[slot] EXCEPT ![col] = " "]
<1>1. /\ Inside(c) /\ Kept(c) /\ c.cursor_col \in Columns /\ c.cursor_row \in Nat
      /\ c.history \in [0 .. H - 1 -> Row] /\ c \in Consoles
      /\ c.history_first_row \in Nat
  BY DEF Views, Inside, Kept, Consoles
<1>2. /\ VGA_WIDTH \in Nat \ {0} /\ c.cursor_col \in 1 .. VGA_WIDTH - 1
      /\ c.cursor_row * VGA_WIDTH \in Nat /\ col \in Columns
  BY <1>1, ConsoleSizes DEF Columns
<1>3. slot \in 0 .. H - 1
  BY <1>1, HistorySlots
<1>4. e = [c EXCEPT !.cursor_col = col, !.history = LinePut(c, col, " ")]
  BY <1>1 DEF Backspace, LinePut, Consoles
<1>5. LinePut(c, col, " ") = [c.history EXCEPT ![slot] = line]
  BY DEF LinePut
<1>6. Inside(e) /\ Printed(c, e)
  BY <1>1, BackspacePrinted
<1> DEFINE h == LinePut(c, col, " ")
<1> HIDE DEF col, slot, line, h
<1>7. /\ e.cursor_row = c.cursor_row /\ e.cursor_col = col
      /\ e.history_first_row = c.history_first_row
      /\ e.history[slot] = line
  <2>1. h[slot] = line
    BY <1>1, <1>3, <1>5 DEF h
  <2>2. e = [c EXCEPT !.cursor_col = col, !.history = h]
    BY <1>4 DEF h
  <2> QED BY <1>1, <2>1, <2>2 DEF Consoles
<1>8. d = render_viewport(Follow(c, e))
  BY DEF console_put_char
<1> HIDE DEF e
<1>9. /\ d.cursor_row = e.cursor_row /\ d.cursor_col = e.cursor_col
      /\ d.history_first_row = e.history_first_row /\ d.history = e.history
  BY <1>6, <1>8, FollowedCells DEF Inside
<1> HIDE DEF d
<1>10. /\ Here(c) = c.cursor_row * VGA_WIDTH + c.cursor_col /\ Here(c) = start + (n + 1)
       /\ Here(d) = c.cursor_row * VGA_WIDTH + col
  BY <1>7, <1>9 DEF Here, CellNumber, Position, Shows
<1>11. Here(d) = start + n
  BY <1>2, <1>10 DEF col
<1>12. ASSUME NEW k \in 1 .. n,
              (start + k - 1) \div VGA_WIDTH >= d.history_first_row
       PROVE  CellOf(d, start + k - 1) = text[k]
  <2> DEFINE cell == start + k - 1
             row == cell \div VGA_WIDTH
             at == cell % VGA_WIDTH
  <2>1. cell \in Nat /\ cell < c.cursor_row * VGA_WIDTH + col
    BY <1>10, <1>11
  <2>2. /\ row \in Nat /\ at \in Columns
        /\ row < c.cursor_row \/ (row = c.cursor_row /\ at < col)
    <3> HIDE DEF cell
    <3> QED BY <1>1, <1>2, <2>1, CellOrder
  <2>3. c.history_first_row <= row
    BY <1>1, <1>7, <1>9, <1>12, <2>2
  <2>4. CellOf(c, cell) = text[k]
    <3>1. k \in 1 .. n + 1
      OBVIOUS
    <3> QED BY <1>1, <2>2, <2>3, <3>1 DEF Shows
  <2>5. e.history[history_slot(row)][at] = c.history[history_slot(row)][at]
    <3> HIDE DEF row, at
    <3>1. CASE row < c.cursor_row
      BY <1>6, <1>7, <2>2, <2>3, <3>1 DEF Printed
    <3>2. CASE row = c.cursor_row /\ at < col
      <4>1. at # col
        BY <1>2, <2>2, <3>2 DEF Columns
      <4>2. c.history[slot] \in Row
        BY <1>1, <1>3
      <4> QED BY <1>7, <2>2, <3>2, <4>1, <4>2 DEF Row, line, slot
    <3> QED BY <2>2, <3>1, <3>2
  <2> QED BY <1>9, <2>4, <2>5 DEF CellOf
<1> QED BY <1>11, <1>12 DEF Shows, d

\* A text of printable characters is shown from the cursor on.
LEMMA ShowsWritten ==
  ASSUME NEW c \in Views, NEW text \in Seq(Printable)
  PROVE  Shows(console_write(c, text), Here(c), text, Len(text))
<1> DEFINE start == Here(c)
<1>1. start \in Nat
  <2>1. c.cursor_row \in Nat /\ c.cursor_col \in Columns
    BY DEF Views, Consoles
  <2> QED BY <2>1, CellSplit DEF Here, CellNumber, Position
<1>2. text \in Seq(Characters) /\ Len(text) \in Nat
  BY DEF Printable
<1>3. PICK W : IsWriting(W, c, text) /\ console_write(c, text) = W[Len(text)]
  BY <1>2, WritePasses
<1> DEFINE T == {n \in 0 .. Len(text) : Shows(W[n], start, text, n)}
<1>4. 0 \in T
  <2>1. W[0] = c
    BY <1>3 DEF IsWriting
  <2>2. Shows(c, start, text, 0)
    BY <1>1 DEF Shows
  <2> QED BY <1>2, <2>1, <2>2
<1>5. ASSUME NEW n \in 0 .. Len(text) - 1, n \in T PROVE n + 1 \in T
  <2>1. n + 1 \in 1 .. Len(text) /\ n + 1 \in 0 .. Len(text) /\ n \in 0 .. Len(text)
        /\ (n + 1) - 1 = n /\ n \in Nat
    BY <1>2
  <2>2. W[n + 1] = console_put_char(W[n], text[n + 1]) /\ W[n] \in Views
    BY <1>3, <2>1 DEF IsWriting, After
  <2>3. text[n + 1] \in Printable
    BY <2>1
  <2>4. Shows(W[n], start, text, n)
    BY <1>5
  <2> HIDE DEF start
  <2>5. Shows(console_put_char(W[n], text[n + 1]), start, text, n + 1)
    BY <1>1, <2>1, <2>2, <2>3, <2>4, ShowsNext
  <2> QED BY <2>1, <2>2, <2>5
<1>6. 0 .. Len(text) \subseteq T
  <2> HIDE DEF T
  <2> QED BY <1>2, <1>4, <1>5, IntervalInduction
<1>7. Shows(W[Len(text)], start, text, Len(text))
  BY <1>2, <1>6
<1> QED BY <1>3, <1>7

\* Scrolling leaves the cursor and the history alone.
LEMMA MovedCells ==
  ASSUME NEW c \in Views, NEW top
  PROVE  LET d == MoveView(c, top)
         IN /\ d.cursor_row = c.cursor_row /\ d.cursor_col = c.cursor_col
            /\ d.history_first_row = c.history_first_row /\ d.history = c.history
<1>1. c \in Consoles
  BY DEF Views
<1> DEFINE f == [c EXCEPT !.viewport_top = top]
<1>2. /\ f.cursor_row = c.cursor_row /\ f.cursor_col = c.cursor_col
      /\ f.history_first_row = c.history_first_row /\ f.history = c.history
      /\ DOMAIN f = DOMAIN c
  BY <1>1 DEF Consoles
<1> HIDE DEF f
<1>3. PICK scr : render_viewport(f) = [f EXCEPT !.screen = scr]
  BY DEF render_viewport
<1>4. MoveView(c, top) = IF top = c.viewport_top THEN c ELSE render_viewport(f)
  BY DEF MoveView, f
<1> QED BY <1>1, <1>2, <1>3, <1>4 DEF Consoles

Letters == KEYS \ {"\n", "BS", "KEY_UP", "KEY_DOWN"}
Line == PROMPT \o input_buffer

\* The prompt is visible unless a process has printed in this slice, and then
\* the prompt and the line are where prompt_at says.
LineInv ==
  /\ TerminalInv
  /\ input_buffer \in Seq(Letters)
  /\ prompt_visible \in BOOLEAN /\ async_output_dirty \in BOOLEAN
  /\ prompt_visible <=> ~async_output_dirty
  /\ loop \in {"wait", "key"} => prompt_visible
  /\ CellNumber(prompt_at) \in Nat
  /\ prompt_visible /\ torn = "no"
       => Shows(console, CellNumber(prompt_at), Line, Len(Line))

\* The prompt and a line of letters are printable.
LEMMA PrintableLine ==
  ASSUME NEW line \in Seq(Letters)
  PROVE  /\ PROMPT \o line \in Seq(Printable)
         /\ Len(PROMPT \o line) = Len(PROMPT) + Len(line)
         /\ \A k \in 1 .. Len(PROMPT) : (PROMPT \o line)[k] = PROMPT[k]
         /\ \A k \in 1 .. Len(line) : (PROMPT \o line)[Len(PROMPT) + k] = line[k]
<1>1. PROMPT \in Seq(Characters) /\ Len(PROMPT) \in Nat
  BY Texts
<1>2. PROMPT \in Seq(Printable)
  <2>1. \A n \in 1 .. Len(PROMPT) : PROMPT[n] \in Printable
    BY <1>1, TerminalAssumption DEF Printable
  <2>2. PROMPT = [n \in 1 .. Len(PROMPT) |-> PROMPT[n]]
    BY <1>1
  <2>3. PROMPT \in [1 .. Len(PROMPT) -> Printable]
    BY <2>1, <2>2, Zenon
  <2> QED BY <1>1, <2>3, SeqDef
<1>3. Letters \subseteq Printable
  BY DEF Letters, Printable, Characters
<1>4. line \in Seq(Printable)
  BY <1>3
<1> QED BY <1>2, <1>4

\* shell_prompt puts the prompt and the line at the cursor of c.
LEMMA PromptShown ==
  ASSUME NEW c \in Views, NEW line \in Seq(Letters), shell_prompt(c, line)
  PROVE  /\ Shows(console', CellNumber(prompt_at'), PROMPT \o line, Len(PROMPT \o line))
         /\ CellNumber(prompt_at') \in Nat
         /\ prompt_visible' = TRUE
<1>1. console' = console_write(c, PROMPT \o line) /\ prompt_at' = Position(c)
      /\ prompt_visible' = TRUE
  BY DEF shell_prompt
<1>2. PROMPT \o line \in Seq(Printable)
  BY PrintableLine
<1>3. Shows(console_write(c, PROMPT \o line), Here(c), PROMPT \o line, Len(PROMPT \o line))
  BY <1>2, ShowsWritten
<1>4. Here(c) \in Nat
  <2>1. c.cursor_row \in Nat /\ c.cursor_col \in Columns
    BY DEF Views, Consoles
  <2> QED BY <2>1, CellSplit DEF Here, CellNumber, Position
<1> QED BY <1>1, <1>3, <1>4 DEF Here

\* The view is at the bottom before a key but an arrow is handled; the line is
\* where it was.
LEMMA BottomShows ==
  ASSUME console \in Views, NEW start, NEW text, NEW n, Shows(console, start, text, n)
  PROVE  Shows(AtBottom, start, text, n)
<1>1. AtBottom = MoveView(console, bottom_viewport_top(console))
  BY DEF AtBottom, console_scroll_to_bottom
<1>2. /\ AtBottom.cursor_row = console.cursor_row /\ AtBottom.cursor_col = console.cursor_col
      /\ AtBottom.history_first_row = console.history_first_row
      /\ AtBottom.history = console.history
  BY <1>1, MovedCells
<1> QED BY <1>2, ShowsSame

\* Handling a key: each of the four branches of shell_handle_key.
LEMMA KeyKeepsLine ==
  ASSUME LineInv, TerminalInv', shell_handle_key
  PROVE  LineInv'
<1>1. /\ console \in Views /\ input_buffer \in Seq(KEYS) /\ out \in KEYS
      /\ TerminalInv' /\ loop' = "wait" /\ loop = "key"
      /\ CellNumber(prompt_at) \in Nat /\ AtBottom \in Views
  BY ViewMoved DEF LineInv, TerminalInv, KeyboardInv, KeyboardTypeOK, shell_handle_key, AtBottom
<1>2. /\ prompt_visible = TRUE /\ async_output_dirty = FALSE
      /\ input_buffer \in Seq(Letters)
      /\ torn = "no" => Shows(console, CellNumber(prompt_at), Line, Len(Line))
  BY <1>1, Zenon DEF LineInv
<1>3. /\ Line \in Seq(Printable) /\ Len(Line) = Len(PROMPT) + Len(input_buffer)
      /\ Len(PROMPT) \in Nat /\ Len(input_buffer) \in Nat
      /\ \A k \in 1 .. Len(PROMPT) : Line[k] = PROMPT[k]
      /\ \A k \in 1 .. Len(input_buffer) : Line[Len(PROMPT) + k] = input_buffer[k]
  BY <1>2, PrintableLine, Texts DEF Line
<1>4. CASE out \in {"KEY_UP", "KEY_DOWN"}
  <2>1. Scroll
    BY <1>4 DEF shell_handle_key
  <2>2. PICK top : console' = MoveView(console, top)
    BY <2>1 DEF Scroll, console_scroll_up, console_scroll_down
  <2>3. /\ console'.cursor_row = console.cursor_row /\ console'.cursor_col = console.cursor_col
        /\ console'.history_first_row = console.history_first_row
        /\ console'.history = console.history
    BY <1>1, <2>2, MovedCells
  <2>4. torn = "no" => Shows(console', CellNumber(prompt_at), Line, Len(Line))
    BY <1>2, <2>3, ShowsSame
  <2>5. /\ input_buffer' = input_buffer /\ prompt_visible' = prompt_visible
        /\ async_output_dirty' = async_output_dirty /\ prompt_at' = prompt_at /\ torn' = torn
    BY <2>1 DEF Scroll, shell
  <2>6. Line' = Line
    BY <2>5 DEF Line
  <2> QED BY <1>1, <1>2, <2>4, <2>5, <2>6, Zenon DEF LineInv
<1>5. CASE out = "\n"
  <2>1. Enter
    BY <1>5 DEF shell_handle_key
  <2> DEFINE c == console_put_char(AtBottom, "\n")
  <2>2. c \in Views
    BY <1>1, PutCharView, Texts
  <2>3. \E d \in Views : shell_prompt(d, <<>>)
    <3>1. \A text \in OUTPUTS : console_write(c, text) \in Views
      <4> HIDE DEF c
      <4> QED BY <2>2, WriteView, Texts
    <3>2. console_clear(c) \in Views
      <4> HIDE DEF c
      <4> QED BY <2>2, ClearedView
    <3>3. \/ \E text \in OUTPUTS : shell_prompt(console_write(c, text), <<>>)
          \/ shell_prompt(console_clear(c), <<>>)
      BY <2>1 DEF Enter
    <3> HIDE DEF c
    <3> QED BY <3>1, <3>2, <3>3
  <2>4. <<>> \in Seq(Letters)
    OBVIOUS
  <2>5. /\ Shows(console', CellNumber(prompt_at'), PROMPT \o <<>>, Len(PROMPT \o <<>>))
        /\ CellNumber(prompt_at') \in Nat /\ prompt_visible' = TRUE
    BY <2>3, <2>4, PromptShown
  <2>6. input_buffer' = <<>> /\ async_output_dirty' = async_output_dirty
    BY <2>1 DEF Enter
  <2>7. Line' = PROMPT \o <<>>
    BY <2>6 DEF Line
  <2> QED BY <1>1, <1>2, <2>4, <2>5, <2>6, <2>7, Zenon DEF LineInv
<1>6. CASE out = "BS"
  <2>1. Erase
    BY <1>6 DEF shell_handle_key
  <2>2. /\ prompt_visible' = prompt_visible /\ async_output_dirty' = async_output_dirty
        /\ prompt_at' = prompt_at
    BY <2>1 DEF Erase
  <2>3. CASE input_buffer = <<>>
    <3>1. console' = AtBottom /\ input_buffer' = input_buffer /\ torn' = torn
      BY <2>1, <2>3 DEF Erase
    <3>2. Line' = Line
      BY <3>1 DEF Line
    <3>3. torn = "no" => Shows(console', CellNumber(prompt_at), Line, Len(Line))
      BY <1>1, <1>2, <3>1, BottomShows
    <3> QED BY <1>1, <1>2, <2>2, <3>1, <3>2, <3>3, Zenon DEF LineInv
  <2>4. CASE input_buffer # <<>>
    <3> DEFINE m == Len(input_buffer) - 1
    <3>1. /\ input_buffer' = SubSeq(input_buffer, 1, m)
          /\ console' = console_put_char(AtBottom, "BS")
          /\ torn' = IF console.cursor_col = 0 /\ torn = "no" THEN "edge" ELSE torn
      BY <2>1, <2>4 DEF Erase
    <3>2. /\ m \in Nat /\ input_buffer' \in Seq(Letters) /\ Len(input_buffer') = m
          /\ \A k \in 1 .. m : input_buffer'[k] = input_buffer[k]
      <4>1. m \in Nat /\ m \in 0 .. Len(input_buffer)
        BY <1>2, <2>4
      <4> HIDE DEF m
      <4>2. \A k \in 1 .. m : input_buffer[k] \in Letters
        BY <1>2, <4>1
      <4>3. /\ SubSeq(input_buffer, 1, m) \in Seq(Letters)
            /\ Len(SubSeq(input_buffer, 1, m)) = IF 1 <= m THEN m - 1 + 1 ELSE 0
            /\ \A k \in 1 .. m - 1 + 1 : SubSeq(input_buffer, 1, m)[k] = input_buffer[1 + k - 1]
        BY <4>1, <4>2, SubSeqProperties
      <4> QED BY <3>1, <4>1, <4>3
    <3> HIDE DEF m
    <3>3. m = Len(input_buffer) - 1
      BY DEF m
    <3>4. /\ Len(Line') = Len(PROMPT) + m
          /\ \A k \in 1 .. Len(PROMPT) + m : Line'[k] = Line[k]
      <4>1. Line' = PROMPT \o input_buffer'
        BY DEF Line
      <4>2. /\ Len(Line') = Len(PROMPT) + m
            /\ \A k \in 1 .. Len(PROMPT) : Line'[k] = PROMPT[k]
            /\ \A k \in 1 .. m : Line'[Len(PROMPT) + k] = input_buffer'[k]
        BY <3>2, <4>1, PrintableLine
      <4>3. ASSUME NEW k \in 1 .. Len(PROMPT) + m PROVE Line'[k] = Line[k]
        <5>1. CASE k <= Len(PROMPT)
          BY <1>3, <4>2, <5>1
        <5>2. CASE k > Len(PROMPT)
          <6> DEFINE j == k - Len(PROMPT)
          <6>1. j \in 1 .. m /\ j \in 1 .. Len(input_buffer) /\ k = Len(PROMPT) + j
            BY <1>3, <3>2, <3>3, <5>2
          <6> HIDE DEF j
          <6> QED BY <1>3, <3>2, <4>2, <6>1
        <5> QED BY <1>3, <3>2, <5>1, <5>2
      <4> QED BY <4>2, <4>3
    <3>5. ASSUME torn' = "no"
          PROVE  Shows(console', CellNumber(prompt_at), Line', Len(Line'))
      <4> DEFINE n == Len(PROMPT) + m
      <4>1. torn = "no" /\ console.cursor_col # 0
        BY <3>1, <3>5
      <4>2. n \in Nat /\ Len(Line) = n + 1
        BY <1>3, <3>2, <3>3
      <4>3. Shows(AtBottom, CellNumber(prompt_at), Line, n + 1)
        BY <1>1, <1>2, <4>1, <4>2, BottomShows
      <4>4. AtBottom.cursor_col # 0
        BY <1>1, <4>1, MovedCells DEF AtBottom, console_scroll_to_bottom
      <4> HIDE DEF n
      <4>5. Shows(console', CellNumber(prompt_at), Line, n)
        BY <1>1, <3>1, <4>2, <4>3, <4>4, ShowsErased
      <4> QED BY <3>4, <4>5, ShowsSame DEF n
    <3> QED BY <1>1, <1>2, <2>2, <3>2, <3>5, Zenon DEF LineInv
  <2> QED BY <2>3, <2>4
<1>7. CASE out \notin {"KEY_UP", "KEY_DOWN", "\n", "BS"}
  <2>1. Type(out)
    BY <1>7 DEF shell_handle_key
  <2>2. /\ prompt_visible' = prompt_visible /\ async_output_dirty' = async_output_dirty
        /\ prompt_at' = prompt_at /\ torn' = torn
    BY <2>1 DEF Type
  <2>3. CASE Len(input_buffer) >= INPUT_MAX - 1
    <3>1. console' = AtBottom /\ input_buffer' = input_buffer
      BY <2>1, <2>3 DEF Type
    <3>2. Line' = Line
      BY <3>1 DEF Line
    <3>3. torn = "no" => Shows(console', CellNumber(prompt_at), Line, Len(Line))
      BY <1>1, <1>2, <3>1, BottomShows
    <3> QED BY <1>1, <1>2, <2>2, <3>1, <3>2, <3>3, Zenon DEF LineInv
  <2>4. CASE ~(Len(input_buffer) >= INPUT_MAX - 1)
    <3> DEFINE m == Len(input_buffer)
               n == Len(PROMPT) + m
    <3>1. input_buffer' = Append(input_buffer, out) /\ console' = console_put_char(AtBottom, out)
      BY <2>1, <2>4 DEF Type
    <3>2. out \in Letters /\ out \in Printable
      BY <1>1, <1>7 DEF Letters, Printable, Characters
    <3>3. /\ m \in Nat /\ input_buffer' \in Seq(Letters) /\ Len(input_buffer') = m + 1
          /\ \A k \in 1 .. m : input_buffer'[k] = input_buffer[k]
          /\ input_buffer'[m + 1] = out
      BY <1>2, <3>1, <3>2
    <3> HIDE DEF m
    <3>4. m = Len(input_buffer)
      BY DEF m
    <3>5. n \in Nat /\ Len(Line) = n /\ n = Len(PROMPT) + m
      BY <1>3, <3>3, <3>4
    <3> HIDE DEF n
    <3>6. /\ Len(Line') = n + 1 /\ Line'[n + 1] = out
          /\ \A k \in 1 .. n : Line'[k] = Line[k]
      <4>1. Line' = PROMPT \o input_buffer'
        BY DEF Line
      <4>2. /\ Len(Line') = Len(PROMPT) + (m + 1)
            /\ \A k \in 1 .. Len(PROMPT) : Line'[k] = PROMPT[k]
            /\ \A k \in 1 .. m + 1 : Line'[Len(PROMPT) + k] = input_buffer'[k]
        BY <3>3, <4>1, PrintableLine
      <4>3. ASSUME NEW k \in 1 .. n PROVE Line'[k] = Line[k]
        <5>1. CASE k <= Len(PROMPT)
          BY <1>3, <4>2, <5>1
        <5>2. CASE k > Len(PROMPT)
          <6> DEFINE j == k - Len(PROMPT)
          <6>1. j \in 1 .. m /\ j \in 1 .. m + 1 /\ k = Len(PROMPT) + j
            BY <1>3, <3>3, <3>5, <5>2
          <6> HIDE DEF j
          <6> QED BY <1>3, <3>3, <3>4, <4>2, <6>1
        <5> QED BY <1>3, <3>5, <5>1, <5>2
      <4>4. Line'[n + 1] = out
        <5>1. m + 1 \in 1 .. m + 1 /\ n + 1 = Len(PROMPT) + (m + 1)
          BY <1>3, <3>3, <3>5
        <5> QED BY <3>3, <4>2, <5>1
      <4>5. Len(Line') = n + 1
        BY <1>3, <3>3, <3>5, <4>2
      <4> QED BY <4>3, <4>4, <4>5
    <3>7. ASSUME torn = "no"
          PROVE  Shows(console', CellNumber(prompt_at), Line', Len(Line'))
      <4>1. Shows(AtBottom, CellNumber(prompt_at), Line, n)
        BY <1>1, <1>2, <3>5, <3>7, BottomShows
      <4>2. Shows(AtBottom, CellNumber(prompt_at), Line', n)
        BY <3>6, <4>1, ShowsSame
      <4>3. Shows(console_put_char(AtBottom, Line'[n + 1]), CellNumber(prompt_at), Line', n + 1)
        BY <1>1, <3>2, <3>5, <3>6, <4>2, ShowsNext
      <4> QED BY <3>1, <3>6, <4>3
    <3> QED BY <1>1, <1>2, <2>2, <3>3, <3>7, Zenon DEF LineInv
  <2> QED BY <2>3, <2>4
<1> QED BY <1>4, <1>5, <1>6, <1>7

\* Every other step keeps the line, hides the prompt or tears the line.
LEMMA StepKeepsLine ==
  ASSUME LineInv, TerminalInv', [TerminalNext]_terminal_vars, ~shell_handle_key
  PROVE  LineInv'
<1>1. /\ console \in Views /\ input_buffer \in Seq(Letters)
      /\ prompt_visible \in BOOLEAN /\ async_output_dirty \in BOOLEAN
      /\ prompt_visible <=> ~async_output_dirty
  BY DEF LineInv, TerminalInv
<1>2. ASSUME console' = console, input_buffer' = input_buffer, prompt_at' = prompt_at,
             torn' = torn, prompt_visible' = prompt_visible,
             async_output_dirty' = async_output_dirty,
             loop' \in {"wait", "key"} => prompt_visible
      PROVE  LineInv'
  <2>1. Line' = Line
    BY <1>2 DEF Line
  <2> QED BY <1>2, <2>1, Zenon DEF LineInv
<1>3. CASE UNCHANGED terminal_vars
  <2>1. /\ console' = console /\ input_buffer' = input_buffer /\ prompt_at' = prompt_at
        /\ torn' = torn /\ prompt_visible' = prompt_visible
        /\ async_output_dirty' = async_output_dirty /\ loop' = loop
    BY <1>3 DEF terminal_vars, shell
  <2> QED BY <1>2, <2>1, Zenon DEF LineInv
<1>4. ASSUME NEW code \in ScanCodes, IRQ1(code) PROVE LineInv'
  <2>1. /\ console' = console /\ input_buffer' = input_buffer /\ prompt_at' = prompt_at
        /\ torn' = torn /\ prompt_visible' = prompt_visible
        /\ async_output_dirty' = async_output_dirty /\ loop' = loop
    BY <1>4 DEF IRQ1, shell
  <2> QED BY <1>2, <2>1, Zenon DEF LineInv
<1>5. CASE ReadingKey
  <2>1. /\ console' = console /\ input_buffer' = input_buffer /\ prompt_at' = prompt_at
        /\ torn' = torn /\ prompt_visible' = prompt_visible
        /\ async_output_dirty' = async_output_dirty /\ loop = "wait"
    BY <1>5 DEF ReadingKey, shell
  <2> QED BY <1>2, <2>1, Zenon DEF LineInv
<1>6. CASE shell_begin_async_output
  <2>1. /\ console' = console /\ input_buffer' = input_buffer /\ prompt_at' = prompt_at
        /\ torn' = torn /\ prompt_visible' = prompt_visible
        /\ async_output_dirty' = FALSE /\ loop = "wait" /\ loop' = "async"
    BY <1>6 DEF shell_begin_async_output
  <2>2. async_output_dirty = FALSE
    BY <1>1, <2>1, Zenon DEF LineInv
  <2> QED BY <1>2, <2>1, <2>2
<1>7. ASSUME NEW text \in OUTPUTS, SysWrite(text) PROVE LineInv'
  <2>1. /\ input_buffer' = input_buffer /\ prompt_at' = prompt_at
        /\ prompt_visible' = (prompt_visible /\ async_output_dirty)
        /\ async_output_dirty' = TRUE /\ loop' = loop /\ loop = "async"
    BY <1>7 DEF SysWrite
  <2>2. prompt_visible' = FALSE
    BY <1>1, <2>1, Zenon
  <2>3. loop' \notin {"wait", "key"}
    BY <2>1
  <2> QED BY <1>1, <2>1, <2>2, <2>3, Zenon DEF LineInv
<1>8. CASE ProcessExited
  <2>1. /\ input_buffer' = input_buffer /\ prompt_at' = prompt_at
        /\ prompt_visible' = prompt_visible /\ async_output_dirty' = async_output_dirty
        /\ torn' = IF prompt_visible THEN "exit" ELSE torn
        /\ loop' = "exited"
    BY <1>8 DEF ProcessExited, shell
  <2>2. loop' \notin {"wait", "key"} /\ ~(prompt_visible' /\ torn' = "no")
    BY <2>1
  <2> QED BY <1>1, <2>1, <2>2, Zenon DEF LineInv
<1>9. CASE shell_end_async_output
  <2>1. input_buffer' = input_buffer /\ async_output_dirty' = FALSE /\ loop' = "wait"
    BY <1>9 DEF shell_end_async_output
  <2>2. CASE async_output_dirty /\ ~prompt_visible
    <3>1. shell_prompt(console, input_buffer)
      BY <1>9, <2>2 DEF shell_end_async_output, Restored
    <3>2. /\ Shows(console', CellNumber(prompt_at'), PROMPT \o input_buffer,
                   Len(PROMPT \o input_buffer))
          /\ CellNumber(prompt_at') \in Nat /\ prompt_visible' = TRUE
      BY <1>1, <3>1, PromptShown
    <3>3. Line' = PROMPT \o input_buffer
      BY <2>1 DEF Line
    <3> QED BY <1>1, <2>1, <3>2, <3>3, Zenon DEF LineInv
  <2>3. CASE ~(async_output_dirty /\ ~prompt_visible)
    <3>1. /\ console' = console /\ prompt_at' = prompt_at /\ torn' = torn
          /\ prompt_visible' = prompt_visible
      BY <1>9, <2>3 DEF shell_end_async_output
    <3>2. async_output_dirty = FALSE /\ prompt_visible
      BY <1>1, <2>3, Zenon
    <3> QED BY <1>2, <2>1, <3>1, <3>2
  <2> QED BY <2>2, <2>3
<1> QED BY <1>3, <1>4, <1>5, <1>6, <1>7, <1>8, <1>9 DEF TerminalNext

\* Whenever the shell waits for a key and neither exception has happened, the
\* screen ends with the prompt and exactly the line Enter would execute, for
\* every prompt, every output, every length of the line, every width of the
\* screen and every size of the history.
THEOREM LineAlwaysShown == TerminalSpec => []LineShown
<1>1. TerminalInit => LineInv
  <2> SUFFICES ASSUME TerminalInit PROVE LineInv
    OBVIOUS
  <2>1. TerminalInv /\ <<>> \in Seq(Letters)
    BY TerminalInitInv
  <2>2. /\ console = console_write(console_init, PROMPT) /\ input_buffer = <<>>
        /\ prompt_visible = TRUE /\ async_output_dirty = FALSE /\ prompt_at = <<0, 0>>
    BY DEF TerminalInit
  <2>3. Line = PROMPT /\ PROMPT \in Seq(Printable)
    <3>1. PROMPT \o <<>> = PROMPT
      BY Texts
    <3> QED BY <2>1, <2>2, <3>1, PrintableLine DEF Line
  <2>4. Shows(console, Here(console_init), Line, Len(Line))
    BY <2>2, <2>3, FirstView, ShowsWritten
  <2>5. Here(console_init) = CellNumber(prompt_at) /\ CellNumber(prompt_at) = 0
    <3>1. 0 * VGA_WIDTH + 0 = 0
      BY ConsoleSizes
    <3> QED BY <2>2, <3>1 DEF Here, CellNumber, Position, console_init
  <2>6. input_buffer \in Seq(Letters) /\ 0 \in Nat
    BY <2>1, <2>2
  <2>7. prompt_visible \in BOOLEAN /\ async_output_dirty \in BOOLEAN
    BY <2>2, Zenon
  <2>8. Shows(console, CellNumber(prompt_at), Line, Len(Line)) /\ CellNumber(prompt_at) \in Nat
    BY <2>4, <2>5
  <2> QED BY <2>1, <2>2, <2>6, <2>7, <2>8, Zenon DEF LineInv
<1>2. LineInv /\ [TerminalNext]_terminal_vars => LineInv'
  <2>1. LineInv /\ [TerminalNext]_terminal_vars => TerminalInv'
    BY TerminalInvStep DEF LineInv
  <2> QED BY <2>1, KeyKeepsLine, StepKeepsLine
<1>3. LineInv => LineShown
  <2> SUFFICES ASSUME LineInv, loop = "wait", torn = "no" PROVE LineShown
    BY DEF LineShown
  <2>1. prompt_visible /\ Shows(console, CellNumber(prompt_at), Line, Len(Line))
    BY DEF LineInv
  <2> QED BY <2>1 DEF LineShown, Line, Shows, Here, Cell, CellOf
<1> QED BY <1>1, <1>2, <1>3, PTL DEF TerminalSpec
=============================================================================
