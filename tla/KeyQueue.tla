------------------------------ MODULE KeyQueue ------------------------------
(***************************************************************************)
(* What the keyboard buffer promises: keys come out in the order they were *)
(* pressed; when CAPACITY keys wait, a new one is dropped.                 *)
(***************************************************************************)
EXTENDS Naturals, Sequences

CONSTANTS KEYS, CAPACITY

VARIABLES
  queue,   \* keys pressed and not read yet
  op       \* the key pressed or read by the last step; <<"none">>: neither

Init == queue = <<>> /\ op = <<"none">>

Press(k) ==
  /\ op' = <<"press", k>>
  /\ queue' = IF Len(queue) < CAPACITY THEN Append(queue, k) ELSE queue

Read ==
  /\ queue # <<>>
  /\ op' = <<"read", Head(queue)>>
  /\ queue' = Tail(queue)

Internal == op' = <<"none">> /\ UNCHANGED queue

Next == Internal \/ Read \/ \E k \in KEYS : Press(k)

Spec == Init /\ [][Next]_<<queue, op>>
=============================================================================
