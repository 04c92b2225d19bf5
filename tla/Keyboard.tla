------------------------------ MODULE Keyboard ------------------------------
(***************************************************************************)
(* drivers/keyboard.c: IRQ1 decodes scan codes and pushes keys into a ring *)
(* buffer that the main loop reads.  keyboard_read_key runs with           *)
(* interrupts on: an IRQ1 may come between its test, its read and the step *)
(* of key_tail, which are three actions here; rpc says where it is.        *)
(*                                                                         *)
(* The scan codes are represented by one of each kind: the prefix 0xE0, a  *)
(* press and a release of Shift, the release of any other key, the press   *)
(* of a letter, of Enter, of Backspace, of a key without a character, and  *)
(* the two codes that mean Up and Down after the prefix and nothing        *)
(* without it.                                                             *)
(***************************************************************************)
EXTENDS Naturals, Sequences

CONSTANT KEYBOARD_BUFFER_SIZE   \* 128

ASSUME KeyboardAssumption == KEYBOARD_BUFFER_SIZE \in Nat \ {0}

ScanCodes == {"prefix", "shift", "unshift", "release", "letter", "enter",
              "backspace", "other", "up", "down"}
KEYS == {"a", "A", "\n", "BS", "KEY_UP", "KEY_DOWN"}
Slots == 0 .. KEYBOARD_BUFFER_SIZE - 1

VARIABLES
  key_buffer, key_head, key_tail,
  shift_pressed, extended_prefix,
  rpc,   \* "idle", "read" or "step": the next step of keyboard_read_key
  out,   \* *out of the keyboard_read_key that is running
  op     \* history: the key pressed or read by the last step, or <<"none">>

ring == <<key_buffer, key_head, key_tail>>
reader == <<rpc, out>>
keyboard_vars == <<ring, shift_pressed, extended_prefix, reader, op>>

keyboard_init ==
  /\ key_buffer = [i \in Slots |-> "a"]
  /\ key_head = 0 /\ key_tail = 0
  /\ shift_pressed = FALSE /\ extended_prefix = FALSE
  /\ rpc = "idle" /\ out = "a" /\ op = <<"none">>

Following(i) == (i + 1) % KEYBOARD_BUFFER_SIZE

\* Mutant: no test for a full buffer.
keyboard_buffer_push_overruns(k) ==
  /\ op' = <<"press", k>>
  /\ key_buffer' = [key_buffer EXCEPT ![key_head] = k]
  /\ key_head' = Following(key_head)
  /\ UNCHANGED key_tail

keyboard_buffer_push(k) ==
  /\ op' = <<"press", k>>
  /\ IF Following(key_head) = key_tail
     THEN UNCHANGED ring
     ELSE /\ key_buffer' = [key_buffer EXCEPT ![key_head] = k]
          /\ key_head' = Following(key_head)
          /\ UNCHANGED key_tail

NoKey == op' = <<"none">> /\ UNCHANGED ring

(***************************************************************************)
(* keyboard_irq_handler: the prefix, then the code after a prefix, then    *)
(* Shift, then the characters.  A Shift code after the prefix is a code of *)
(* an extended key and leaves shift_pressed alone.                         *)
(***************************************************************************)
Prefix(code) == code = "prefix" /\ extended_prefix' = TRUE /\ NoKey /\ UNCHANGED shift_pressed

Extended(code) ==
  /\ code # "prefix" /\ extended_prefix
  /\ extended_prefix' = FALSE
  /\ CASE code = "up" -> keyboard_buffer_push("KEY_UP")
       [] code = "down" -> keyboard_buffer_push("KEY_DOWN")
       [] OTHER -> NoKey
  /\ UNCHANGED shift_pressed

Plain(code) ==
  /\ code # "prefix" /\ ~extended_prefix
  /\ shift_pressed' = (IF code = "shift" THEN TRUE
                       ELSE IF code = "unshift" THEN FALSE ELSE shift_pressed)
  /\ CASE code = "letter" -> keyboard_buffer_push(IF shift_pressed THEN "A" ELSE "a")
       [] code = "enter" -> keyboard_buffer_push("\n")
       [] code = "backspace" -> keyboard_buffer_push("BS")
       [] OTHER -> NoKey
  /\ UNCHANGED extended_prefix

keyboard_irq_handler(code) ==
  /\ Prefix(code) \/ Extended(code) \/ Plain(code)
  /\ UNCHANGED reader

\* keyboard_read_key: the test, which fails on an empty buffer,
ReadTest ==
  /\ rpc = "idle" /\ key_head # key_tail
  /\ rpc' = "read"
  /\ NoKey
  /\ UNCHANGED <<shift_pressed, extended_prefix, out>>

\* the read of the oldest key,
ReadKey ==
  /\ rpc = "read"
  /\ out' = key_buffer[key_tail]
  /\ rpc' = "step"
  /\ NoKey
  /\ UNCHANGED <<shift_pressed, extended_prefix>>

\* and the step of key_tail, after which the call returns.
ReadStep ==
  /\ rpc = "step"
  /\ key_tail' = Following(key_tail)
  /\ op' = <<"read", out>>
  /\ rpc' = "idle"
  /\ UNCHANGED <<key_buffer, key_head, shift_pressed, extended_prefix, out>>

KeyboardNext ==
  \/ \E code \in ScanCodes : keyboard_irq_handler(code)
  \/ ReadTest \/ ReadKey \/ ReadStep

KeyboardSpec == keyboard_init /\ [][KeyboardNext]_keyboard_vars

-----------------------------------------------------------------------------
(* Properties.                                                             *)

\* Every variable keeps its type: both indexes stay inside the buffer.
KeyboardTypeOK ==
  /\ key_buffer \in [Slots -> KEYS]
  /\ key_head \in Slots /\ key_tail \in Slots
  /\ shift_pressed \in BOOLEAN /\ extended_prefix \in BOOLEAN
  /\ rpc \in {"idle", "read", "step"}
  /\ out \in KEYS

Waiting == (key_head + KEYBOARD_BUFFER_SIZE - key_tail) % KEYBOARD_BUFFER_SIZE

\* The keys pressed and not read yet, the oldest first.
Unread == [n \in 1 .. Waiting |-> key_buffer[(key_tail + n - 1) % KEYBOARD_BUFFER_SIZE]]

Queue == INSTANCE KeyQueue WITH
  queue <- Unread,
  CAPACITY <- KEYBOARD_BUFFER_SIZE - 1

\* The ring is a bounded first-in first-out queue, although IRQ1 may push
\* between the steps of keyboard_read_key: keys are read in the order they
\* were pressed, only a full buffer drops a key, the new one, and no unread
\* key is ever touched, not even the one being read.
ImplementsQueue == Queue!Spec
=============================================================================
