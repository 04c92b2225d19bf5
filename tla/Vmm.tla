-------------------------------- MODULE Vmm --------------------------------
(***************************************************************************)
(* The virtual memory manager (mm/vmm.c) on top of Pmm: two-level page     *)
(* tables that live in physical pages, the kernel's direct map, address    *)
(* spaces that share it, and the translations the CPU caches.              *)
(*                                                                         *)
(* A virtual address is the number of its page (addresses are aligned, the *)
(* offset passes through).  An entry keeps the bits that matter here:      *)
(* present, USER, accessed.  As in Pmm a function takes the state s its    *)
(* caller has reached and returns the new one, with its result in s.ok.    *)
(* mapped_pages, which only vmm_init changes, is only displayed.           *)
(***************************************************************************)
EXTENDS Pmm

CONSTANTS
  PAGE_TABLE_ENTRIES,      \* 1024
  KERNEL_DIRECTORY_START   \* 768: the directory entry of VMM_KERNEL_BASE

\* The direct map has room for the whole memory (1 GiB; the machine has 128 MiB).
ASSUME VmmAssumption ==
  /\ PAGE_TABLE_ENTRIES \in Nat \ {0}
  /\ KERNEL_DIRECTORY_START \in 1 .. PAGE_TABLE_ENTRIES - 1
  /\ \A total \in TOTALS : total \div PAGE_SIZE
       <= (PAGE_TABLE_ENTRIES - KERNEL_DIRECTORY_START) * PAGE_TABLE_ENTRIES

VARIABLES
  tables,                       \* the physical pages, read as tables of entries
  tlb,                          \* translations cached by the CPU: <<page, frame>>
  current_page_directory_phys,  \* CR3; 0 before vmm_init
  kernel_page_directory_phys,
  vmm_ready                     \* "no", "yes", or "failed": kernel_main halts

vmm_vars == <<tables, tlb, current_page_directory_phys, kernel_page_directory_phys, vmm_ready>>

Indexes == 0 .. PAGE_TABLE_ENTRIES - 1
NoEntry == [present |-> FALSE, frame |-> 0, user |-> FALSE, accessed |-> FALSE]
Entry(frame, user) == [present |-> TRUE, frame |-> frame, user |-> user, accessed |-> FALSE]
Cleared == [i \in Indexes |-> NoEntry]

page_directory_index(virt) == virt \div PAGE_TABLE_ENTRIES
page_table_index(virt) == virt % PAGE_TABLE_ENTRIES
phys_to_virt(page) == KERNEL_DIRECTORY_START * PAGE_TABLE_ENTRIES + page

VmmInit ==
  /\ PmmInit
  /\ tables = [page \in PagesIn(pmm_total_memory_bytes) |-> Cleared]
  /\ tlb = {}
  /\ current_page_directory_phys = 0 /\ kernel_page_directory_phys = 0
  /\ vmm_ready = "no"

State == [bitmap |-> pmm_bitmap, free_pages |-> pmm_free_pages, held |-> held,
          tables |-> tables, tlb |-> tlb, ok |-> TRUE]
VmmBecomes(s) == Becomes(s) /\ tables' = s.tables /\ tlb' = s.tlb

-----------------------------------------------------------------------------
(* Walking the tables.                                                     *)

\* Mutant: a stale translation stays in the CPU.
invalidate_nothing(s, directory, virt) == s

\* invalidate_page, if the directory is the loaded one.
invalidate_page(s, directory, virt) ==
  IF directory # current_page_directory_phys THEN s
  ELSE [s EXCEPT !.tlb = {t \in @ : t[1] # virt}]

\* The page table that maps virt is there.
HasTable(t, directory, virt) == t[directory][page_directory_index(virt)].present

\* vmm_get_page_entry_in_directory on the tables t; NoEntry without a table.
vmm_get_page_entry(t, directory, virt) ==
  IF HasTable(t, directory, virt)
  THEN t[t[directory][page_directory_index(virt)].frame][page_table_index(virt)]
  ELSE NoEntry

\* The walk the CPU makes in ring 3: both levels must have the USER bit.
UserCan(t, directory, virt) ==
  /\ t[directory][page_directory_index(virt)].user
  /\ vmm_get_page_entry(t, directory, virt).user

SetEntry(s, directory, virt, entry) ==
  [s EXCEPT !.tables[s.tables[directory][page_directory_index(virt)].frame]
                    [page_table_index(virt)] = entry]

\* memset(phys_to_virt(page), 0, PAGE_SIZE) of a page just allocated.
Fresh(s) == [pmm_alloc_page(s) EXCEPT !.tables[First(FreeOf(s))] = Cleared]

(***************************************************************************)
(* map_page_in_directory: a missing page table is allocated, which may     *)
(* fail; an existing directory entry gets the USER bit if the page has it. *)
(* The entry of the page is overwritten.                                   *)
(***************************************************************************)
WithTable(s, directory, virt, user) ==
  LET i == page_directory_index(virt) IN
  IF HasTable(s.tables, directory, virt)
  THEN [s EXCEPT !.tables[directory][i].user = @ \/ user]
  ELSE [Fresh(s) EXCEPT !.tables[directory][i] = Entry(First(FreeOf(s)), user)]

map_page_in_directory(s, directory, virt, page, user) ==
  IF ~HasTable(s.tables, directory, virt) /\ FreeOf(s) = {}
  THEN [s EXCEPT !.ok = FALSE]
  ELSE LET mapped == SetEntry(WithTable(s, directory, virt, user), directory, virt,
                              Entry(page, user))
       IN [invalidate_page(mapped, directory, virt) EXCEPT !.ok = TRUE]

\* Mutant: the page is unmapped in the loaded directory.
unmap_page_in_current(s, directory, virt) ==
  IF ~vmm_get_page_entry(s.tables, current_page_directory_phys, virt).present THEN s
  ELSE invalidate_page(SetEntry(s, current_page_directory_phys, virt, NoEntry), directory, virt)

unmap_page_in_directory(s, directory, virt) ==
  IF ~vmm_get_page_entry(s.tables, directory, virt).present THEN s
  ELSE invalidate_page(SetEntry(s, directory, virt, NoEntry), directory, virt)

vmm_clear_page_accessed_in_directory(s, directory, virt) ==
  LET entry == vmm_get_page_entry(s.tables, directory, virt) IN
  IF ~entry.present THEN s
  ELSE invalidate_page(SetEntry(s, directory, virt, [entry EXCEPT !.accessed = FALSE]),
                       directory, virt)

-----------------------------------------------------------------------------
(* Address spaces.                                                         *)

\* Mutant: the first entry of the kernel is not shared.
IsSharedAbove(i) == i > KERNEL_DIRECTORY_START

\* The part of a directory every address space has in common.
IsShared(i) == i >= KERNEL_DIRECTORY_START

\* vmm_create_address_space; the new directory is First(FreeOf(s)).
vmm_create_address_space(s) ==
  IF FreeOf(s) = {} THEN [s EXCEPT !.ok = FALSE]
  ELSE [Fresh(s) EXCEPT !.tables[First(FreeOf(s))] =
          [i \in Indexes |-> IF IsShared(i) THEN s.tables[kernel_page_directory_phys][i]
                             ELSE NoEntry]]

\* The page tables vmm_destroy_address_space frees.
PrivateTables(t, directory) ==
  {t[directory][i].frame : i \in {j \in Indexes : ~IsShared(j) /\ t[directory][j].present}}

FreeAll(s, pages) ==
  LET freeable == {p \in pages : p * PAGE_SIZE >= bitmap_end} IN
  [free_page(s, freeable) EXCEPT !.held = @ \ freeable]

\* The private page tables, then the directory.
vmm_destroy_address_space(s, directory) ==
  LET cleared == [s EXCEPT !.tables[directory] =
                    [i \in Indexes |-> IF IsShared(i) THEN @[i] ELSE NoEntry]]
  IN pmm_free_page(FreeAll(cleared, PrivateTables(s.tables, directory)), directory)

\* Mutant: the page is kept when it cannot be mapped.
alloc_and_map_keeps_page(s, directory, virt, user) ==
  IF FreeOf(s) = {} THEN [s EXCEPT !.ok = FALSE]
  ELSE map_page_in_directory(Fresh(s), directory, virt, First(FreeOf(s)), user)

\* alloc_and_map_user_page, and the same sequence in pager.c and memdemo.c:
\* the page is given back if it cannot be mapped.
alloc_and_map_page(s, directory, virt, user) ==
  IF FreeOf(s) = {} THEN [s EXCEPT !.ok = FALSE]
  ELSE LET page == First(FreeOf(s))
           mapped == map_page_in_directory(Fresh(s), directory, virt, page, user)
       IN IF mapped.ok THEN mapped ELSE pmm_free_page(mapped, page)

-----------------------------------------------------------------------------
(* Actions of the manager itself.                                          *)

\* Mutant: the loop goes one page too far.
kernel_mapped_too_many == pmm_total_pages + 1

kernel_mapped_pages == pmm_total_pages

\* The loop maps page n of the memory at VMM_KERNEL_BASE + n.
vmm_init ==
  LET root == First(FreeOf(State))
      Mapped[n \in 0 .. kernel_mapped_pages] ==
        IF n = 0 THEN Fresh(State)
        ELSE IF ~Mapped[n - 1].ok THEN Mapped[n - 1]
        ELSE map_page_in_directory(Mapped[n - 1], root, phys_to_virt(n - 1), n - 1, FALSE)
      s == IF FreeOf(State) = {} THEN [State EXCEPT !.ok = FALSE] ELSE Mapped[kernel_mapped_pages]
  IN
  /\ phase = "ready" /\ vmm_ready = "no"
  /\ VmmBecomes(s)
  /\ vmm_ready' = IF s.ok THEN "yes" ELSE "failed"
  /\ current_page_directory_phys' = IF FreeOf(State) = {} THEN 0 ELSE root
  /\ kernel_page_directory_phys' = IF FreeOf(State) = {} THEN 0 ELSE root
  /\ UNCHANGED <<pmm_total_memory_bytes, phase, regions>>

\* Loading CR3 drops every cached translation.
vmm_switch_page_directory(directory) ==
  /\ vmm_ready = "yes"
  /\ current_page_directory_phys' = directory
  /\ tlb' = {}
  /\ UNCHANGED <<pmm_vars, tables, kernel_page_directory_phys, vmm_ready>>

(***************************************************************************)
(* The CPU accesses virt through the loaded directory: in ring 3, or in    *)
(* the kernel when its own directory is loaded.  Only a walk sets the A    *)
(* bit; the translation found is then cached, and used without a walk      *)
(* until it is invalidated.  (External: the processor.)                    *)
(***************************************************************************)
Access(virt) ==
  LET entry == vmm_get_page_entry(tables, current_page_directory_phys, virt) IN
  /\ vmm_ready = "yes"
  /\ entry.present /\ \A t \in tlb : t[1] # virt
  /\ \/ current_page_directory_phys = kernel_page_directory_phys
     \/ UserCan(tables, current_page_directory_phys, virt)
  /\ tlb' = tlb \cup {<<virt, entry.frame>>}
  /\ tables' = SetEntry(State, current_page_directory_phys, virt,
                        [entry EXCEPT !.accessed = TRUE]).tables
  /\ UNCHANGED <<pmm_vars, current_page_directory_phys, kernel_page_directory_phys, vmm_ready>>

-----------------------------------------------------------------------------
(* Properties.                                                             *)

\* Every variable keeps its type: a table entry names a page of the memory.
VmmTypeOK ==
  /\ \A page \in DOMAIN tables : \A i \in Indexes :
       /\ tables[page][i].present => tables[page][i].frame \in DOMAIN tables
       /\ ~tables[page][i].present => tables[page][i] = NoEntry
  /\ vmm_ready \in {"no", "yes", "failed"}
  /\ vmm_ready = "yes" =>
       {current_page_directory_phys, kernel_page_directory_phys} \subseteq held

\* What the CPU cached agrees with the tables, although vmm.c invalidates
\* single pages and only those of the loaded directory; and the A bit of a
\* cached page is set, so that an access after the pager cleared it sets it
\* again.
TlbCoherent ==
  \A t \in tlb :
    LET entry == vmm_get_page_entry(tables, current_page_directory_phys, t[1]) IN
    entry.present /\ entry.accessed /\ entry.frame = t[2]
=============================================================================
