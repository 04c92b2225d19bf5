----------------------------- MODULE MCSimpleFs -----------------------------
(* Instances of SimpleFs for TLC.                                          *)
EXTENDS SimpleFs

CONSTANTS x, y   \* two bytes

\* A text that fits into a direct block and one that needs the indirect block.
Texts == {<<x>>, <<y, y, y>>}

(***************************************************************************)
(* View: states that differ only in what is left in free blocks are one    *)
(* state.  A block is overwritten with zeros when it is allocated, so      *)
(* nothing reads what was in it.                                           *)
(***************************************************************************)
WithoutFreeBlocks ==
  <<memory, doubt, fault, calls,
    [disk EXCEPT !.blocks = [b \in Blocks |-> IF b \in data_bitmap \cup disk.info.data_bitmap THEN @[b] ELSE ZeroBlock]]>>
=============================================================================
