---------------------------- MODULE PagedMemory ----------------------------
(***************************************************************************)
(* What the pager promises its users (mm/pager.h): a registered page holds *)
(* the contents it was registered with until something is stored in it,    *)
(* then what was stored last.  Where the page is, and how often it moved   *)
(* between memory and the swap disk, cannot be seen.                       *)
(***************************************************************************)
CONSTANTS
  PAGES,      \* the pages, each a page directory and a virtual address
  VALUES,     \* page contents
  Initial,    \* what a page is registered with: its image, or zeros
  Unmapped    \* not registered: an access is an error

VARIABLES
  contents,
  op          \* the operation of the last step; <<"none">>: nobody asked for anything

memory == <<contents, op>>

Init == contents = [p \in PAGES |-> Unmapped] /\ op = <<"none">>

Register(p) ==
  /\ op' = <<"register", p>>
  /\ contents[p] = Unmapped
  /\ contents' = [contents EXCEPT ![p] = Initial]

Store(p, v) ==
  /\ op' = <<"store", p, v>>
  /\ contents[p] # Unmapped
  /\ contents' = [contents EXCEPT ![p] = v]

Unregister(p) ==
  /\ op' = <<"unregister", p>>
  /\ contents' = [contents EXCEPT ![p] = Unmapped]

\* Whatever happens without being asked for, no page changes.
Internal == op' = <<"none">> /\ UNCHANGED contents

Next ==
  \/ Internal
  \/ \E p \in PAGES :
       \/ Register(p)
       \/ \E v \in VALUES : Store(p, v)
       \/ Unregister(p)

Spec == Init /\ [][Next]_memory
=============================================================================
