------------------------------ MODULE MCMemory ------------------------------
(* An instance of AddressSpaces for TLC.                                   *)
EXTENDS AddressSpaces

(***************************************************************************)
(* View: states that differ only in what is left in free pages are one     *)
(* state, a page being cleared when it is allocated.  Once the tables are  *)
(* set up, so are states with different memory maps and the same pages:    *)
(* ExactlyUsable makes them equal in every page the allocator knows.       *)
(***************************************************************************)
WithoutFreePages ==
  <<pmm_total_memory_bytes, pmm_bitmap, pmm_free_pages, held, phase,
    IF Ready THEN {} ELSE regions,
    [page \in DOMAIN tables |-> IF page \in pmm_bitmap THEN tables[page] ELSE Cleared],
    tlb, current_page_directory_phys, kernel_page_directory_phys, vmm_ready, callers>>
=============================================================================
