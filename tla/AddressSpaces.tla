--------------------------- MODULE AddressSpaces ---------------------------
(***************************************************************************)
(* The users of the memory: process.c creates, loads and releases address  *)
(* spaces, pager.c maps pages on demand and takes them away, memdemo.c     *)
(* maps its slots, and the shell's uservm and ring3 commands build their   *)
(* demonstration spaces.  Each call runs to its end: they are made by the  *)
(* shell, or by system calls and faults, which run with interrupts off.    *)
(*                                                                         *)
(* Which page the pager takes away is Pager's business, when processes are *)
(* created and released is Process's: here any of them may happen at any   *)
(* time.  A panic (the disk fails, a page fault finds no memory) is left   *)
(* out: nothing happens after it.                                          *)
(***************************************************************************)
EXTENDS Vmm

CONSTANTS
  PAGER_VIRT,               \* bound: pages the pager manages in each directory
  MEMDEMO_VIRT,             \* the page of each memdemo slot (8 slots)
  MEMDEMO_EVENT_COUNT,      \* 8
  VMM_USER_CODE_BASE, STACK_PAGE,  \* the two pages of the demonstrations
  MAX_SPACES,               \* bound: processes (PROCESS_MAX)
  MAX_LOST                  \* bound: pages lost by uservm

ASSUME AddressSpacesAssumption ==
  /\ PAGER_VIRT \cup MEMDEMO_VIRT \cup {VMM_USER_CODE_BASE, STACK_PAGE}
       \subseteq 0 .. phys_to_virt(0) - 1
  /\ PAGER_VIRT \cap MEMDEMO_VIRT = {} /\ VMM_USER_CODE_BASE # STACK_PAGE
  \* In the kernel's directory pagertest and ring3 use different addresses.
  /\ PAGER_VIRT \cap {VMM_USER_CODE_BASE, STACK_PAGE} = {}
  /\ MEMDEMO_EVENT_COUNT \in Nat /\ MAX_SPACES \in Nat /\ MAX_LOST \in Nat

VARIABLES
  spaces,         \* page_directory_phys of the processes
  pager_frames,   \* <<directory, page, frame>>: the resident pages of the pager
  slots,          \* memdemo.c: <<directory, frame>> of each slot, or NoSlot
  active_pages,   \* memdemo.c: the number of allocated slots
  sequence,       \* memdemo.c: events recorded since the last reset
  demo_user_space,\* shell.c: the directory of uservm, or 0
  ring3_demo_ready, \* usermode.c
  lost            \* history: pages a failed uservm left behind

callers == <<spaces, pager_frames, slots, active_pages, sequence,
             demo_user_space, ring3_demo_ready, lost>>
memory_vars == <<pmm_vars, vmm_vars, callers>>

NoSlot == <<0, 0>>
KernelDir == kernel_page_directory_phys
Loaded == current_page_directory_phys
Ready == vmm_ready = "yes"
Settled == UNCHANGED <<pmm_total_memory_bytes, phase, regions,
                       current_page_directory_phys, kernel_page_directory_phys, vmm_ready>>

SpacesInit ==
  /\ VmmInit
  /\ spaces = {} /\ pager_frames = {}
  /\ slots = [v \in MEMDEMO_VIRT |-> NoSlot] /\ active_pages = 0 /\ sequence = 0
  /\ demo_user_space = 0 /\ ring3_demo_ready = FALSE /\ lost = {}

-----------------------------------------------------------------------------
(* process.c                                                               *)

\* The start of a spawn; it fails when no page is left.
CreateSpace ==
  LET s == vmm_create_address_space(State) IN
  /\ Ready /\ Cardinality(spaces) < MAX_SPACES
  /\ VmmBecomes(s)
  /\ spaces' = IF s.ok THEN spaces \cup {First(FreeOf(State))} ELSE spaces
  /\ Settled
  /\ UNCHANGED <<pager_frames, slots, active_pages, sequence,
                 demo_user_space, ring3_demo_ready, lost>>

\* process_run loads the directory of a process, and the kernel's afterwards.
process_run(d) ==
  /\ Loaded = KernelDir /\ d \in spaces
  /\ vmm_switch_page_directory(d)
  /\ UNCHANGED callers

RunReturns ==
  /\ Loaded # KernelDir
  /\ vmm_switch_page_directory(KernelDir)
  /\ UNCHANGED callers

\* Unmapping and freeing the pages in the set of <<page, frame>>.
Release(s, d, pages) ==
  LET frames == {p[2] : p \in pages}
      Unmapped[S \in SUBSET pages] ==
        IF S = {} THEN s
        ELSE LET p == CHOOSE p \in S : TRUE
             IN unmap_page_in_directory(Unmapped[S \ {p}], d, p[1])
  IN FreeAll(Unmapped[pages], frames)

SlotsOf(d) == {v \in MEMDEMO_VIRT : slots[v][1] = d}

\* Mutant: the slots of the process are not released.
release_process_not_slots(d) ==
  LET pages == {<<e[2], e[3]>> : e \in {f \in pager_frames : f[1] = d}}
      s == vmm_destroy_address_space(Release(State, d, pages), d) IN
  /\ Ready /\ d \in spaces /\ d # Loaded
  /\ VmmBecomes(s)
  /\ spaces' = spaces \ {d}
  /\ pager_frames' = {e \in pager_frames : e[1] # d}
  /\ Settled
  /\ UNCHANGED <<slots, active_pages, sequence, demo_user_space, ring3_demo_ready, lost>>

\* release_process, and the error paths of a spawn: the slots and the pages of
\* the process go, then its tables.  A RUNNING process is never released.
release_process(d) ==
  LET pages == {<<e[2], e[3]>> : e \in {f \in pager_frames : f[1] = d}}
                 \cup {<<v, slots[v][2]>> : v \in SlotsOf(d)}
      s == vmm_destroy_address_space(Release(State, d, pages), d) IN
  /\ Ready /\ d \in spaces /\ d # Loaded
  /\ VmmBecomes(s)
  /\ spaces' = spaces \ {d}
  /\ pager_frames' = {e \in pager_frames : e[1] # d}
  /\ slots' = [v \in MEMDEMO_VIRT |-> IF v \in SlotsOf(d) THEN NoSlot ELSE slots[v]]
  /\ active_pages' = Greater(0, active_pages - Cardinality(SlotsOf(d)))
  /\ Settled
  /\ UNCHANGED <<sequence, demo_user_space, ring3_demo_ready, lost>>

-----------------------------------------------------------------------------
(* pager.c                                                                 *)

\* page_in for a fault in the loaded directory.  The pages of the shell's
\* pagertest, in the kernel's directory, are not accessible in ring 3.
page_in(v) ==
  LET s == alloc_and_map_page(State, Loaded, v, Loaded # KernelDir) IN
  /\ Ready /\ s.ok
  /\ ~vmm_get_page_entry(tables, Loaded, v).present
  /\ VmmBecomes(s)
  /\ pager_frames' = pager_frames \cup {<<Loaded, v, First(FreeOf(State))>>}
  /\ Settled
  /\ UNCHANGED <<spaces, slots, active_pages, sequence, demo_user_space, ring3_demo_ready, lost>>

\* evict_frame and pager_unregister_page, in any directory.
evict_frame(e) ==
  /\ Ready
  /\ VmmBecomes(Release(State, e[1], {<<e[2], e[3]>>}))
  /\ pager_frames' = pager_frames \ {e}
  /\ Settled
  /\ UNCHANGED <<spaces, slots, active_pages, sequence, demo_user_space, ring3_demo_ready, lost>>

\* The clock and the sampling clear the A bit of a resident page.
ClearAccessed(e) ==
  /\ Ready
  /\ VmmBecomes(vmm_clear_page_accessed_in_directory(State, e[1], e[2]))
  /\ Settled
  /\ UNCHANGED callers

-----------------------------------------------------------------------------
(* memdemo.c, called by a process through SYS_MEMDEMO_OP.                  *)

MemdemoCall == Ready /\ Loaded # KernelDir /\ sequence < MEMDEMO_EVENT_COUNT
MemdemoFrame == Settled /\ UNCHANGED <<spaces, pager_frames, demo_user_space, ring3_demo_ready, lost>>

\* ALLOC of a free slot; without memory the call returns 0 and records nothing.
memdemo_alloc(v) ==
  LET s == alloc_and_map_page(State, Loaded, v, TRUE) IN
  /\ MemdemoCall /\ slots[v] = NoSlot
  /\ VmmBecomes(s)
  /\ IF s.ok
     THEN /\ slots' = [slots EXCEPT ![v] = <<Loaded, First(FreeOf(State))>>]
          /\ active_pages' = active_pages + 1
          /\ sequence' = sequence + 1
     ELSE UNCHANGED <<slots, active_pages, sequence>>
  /\ MemdemoFrame

\* TOUCH, or ALLOC of a slot that is allocated, by this process or another.
memdemo_touch(v) ==
  /\ MemdemoCall /\ slots[v] # NoSlot
  /\ sequence' = sequence + 1
  /\ VmmBecomes(State) /\ UNCHANGED <<slots, active_pages>>
  /\ MemdemoFrame

\* free_slot uses the directory the slot was allocated in.
memdemo_free(v) ==
  /\ MemdemoCall /\ slots[v] # NoSlot
  /\ VmmBecomes(Release(State, slots[v][1], {<<v, slots[v][2]>>}))
  /\ slots' = [slots EXCEPT ![v] = NoSlot]
  /\ active_pages' = Greater(0, active_pages - 1)
  /\ sequence' = sequence + 1
  /\ MemdemoFrame

\* SYS_MEMDEMO_RESET and the shell's memdemo: the slots of every process go.
memdemo_reset ==
  LET ResetSlots[S \in SUBSET MEMDEMO_VIRT] ==
        IF S = {} THEN State
        ELSE LET v == CHOOSE v \in S : TRUE
             IN IF slots[v] = NoSlot THEN ResetSlots[S \ {v}]
                ELSE Release(ResetSlots[S \ {v}], slots[v][1], {<<v, slots[v][2]>>})
  IN
  /\ Ready
  /\ VmmBecomes(ResetSlots[MEMDEMO_VIRT])
  /\ slots' = [v \in MEMDEMO_VIRT |-> NoSlot]
  /\ active_pages' = 0 /\ sequence' = 0
  /\ MemdemoFrame

-----------------------------------------------------------------------------
(* The demonstrations, run by the shell with the kernel's directory.       *)

(***************************************************************************)
(* vmm_create_user_demo_space.  When the stack page cannot be mapped, the  *)
(* code page and the directory are freed, but not the page table that was  *)
(* allocated for the code page.                                            *)
(***************************************************************************)
vmm_create_user_demo_space ==
  LET d == First(FreeOf(State))
      created == vmm_create_address_space(State)
      code == First(FreeOf(created))
      coded == alloc_and_map_page(created, d, VMM_USER_CODE_BASE, TRUE)
      stacked == alloc_and_map_page(coded, d, STACK_PAGE, TRUE)
      s == IF ~created.ok THEN created
           ELSE IF ~coded.ok THEN pmm_free_page(coded, d)
           ELSE IF ~stacked.ok THEN pmm_free_page(pmm_free_page(stacked, code), d)
           ELSE stacked
  IN
  /\ Ready /\ Loaded = KernelDir /\ demo_user_space = 0
  /\ VmmBecomes(s)
  /\ demo_user_space' = IF s.ok THEN d ELSE 0
  /\ lost' = IF created.ok /\ coded.ok /\ ~stacked.ok
             THEN lost \cup PrivateTables(coded.tables, d) ELSE lost
  /\ Cardinality(lost') <= MAX_LOST
  /\ Settled
  /\ UNCHANGED <<spaces, pager_frames, slots, active_pages, sequence, ring3_demo_ready>>

(***************************************************************************)
(* vmm_create_current_user_demo_space, in the kernel's directory.  When    *)
(* the stack page cannot be mapped, the code page is freed and stays       *)
(* mapped; the next try maps another one over it.                          *)
(***************************************************************************)
vmm_create_current_user_demo_space ==
  LET code == First(FreeOf(State))
      coded == alloc_and_map_page(State, Loaded, VMM_USER_CODE_BASE, TRUE)
      stacked == alloc_and_map_page(coded, Loaded, STACK_PAGE, TRUE)
      s == IF ~coded.ok THEN coded
           ELSE IF ~stacked.ok THEN pmm_free_page(stacked, code)
           ELSE stacked
  IN
  /\ Ready /\ Loaded = KernelDir /\ ~ring3_demo_ready
  /\ VmmBecomes(s)
  /\ ring3_demo_ready' = s.ok
  /\ Settled
  /\ UNCHANGED <<spaces, pager_frames, slots, active_pages, sequence, demo_user_space, lost>>

-----------------------------------------------------------------------------
\* vmm_init failed: kernel_main executes hlt for ever.
Halted == vmm_ready = "failed" /\ UNCHANGED memory_vars

SpacesNext ==
  \/ PmmBoot /\ UNCHANGED <<vmm_vars, callers>>
  \/ vmm_init /\ UNCHANGED callers
  \/ CreateSpace
  \/ \E d \in spaces : process_run(d) \/ release_process(d)
  \/ RunReturns
  \/ \E v \in PAGER_VIRT : page_in(v)
  \/ \E e \in pager_frames : evict_frame(e) \/ ClearAccessed(e)
  \/ \E v \in PAGER_VIRT \cup MEMDEMO_VIRT : Access(v) /\ UNCHANGED callers
  \/ \E v \in MEMDEMO_VIRT : memdemo_alloc(v) \/ memdemo_touch(v) \/ memdemo_free(v)
  \/ memdemo_reset
  \/ vmm_create_user_demo_space
  \/ vmm_create_current_user_demo_space
  \/ Halted

SpacesSpec == SpacesInit /\ [][SpacesNext]_memory_vars

-----------------------------------------------------------------------------
(* Properties.                                                             *)

Directories == {KernelDir} \cup spaces \cup ({demo_user_space} \ {0})

\* The user pages directory d maps, as <<d, page, frame>>.  The code page of
\* the ring3 demonstration counts from the time it is complete.
UserMappings(d) ==
  {<<d, v, vmm_get_page_entry(tables, d, v).frame>> :
     v \in {v \in 0 .. phys_to_virt(0) - 1 :
              /\ HasTable(tables, d, v)
              /\ vmm_get_page_entry(tables, d, v).present
              /\ ~(d = KernelDir /\ v = VMM_USER_CODE_BASE /\ ~ring3_demo_ready)}}

AllMappings == UNION {UserMappings(d) : d \in Directories}
AllTables == UNION {PrivateTables(tables, d) : d \in Directories}
KernelTables == {tables[KernelDir][i].frame : i \in {j \in Indexes : IsShared(j) /\ tables[KernelDir][j].present}}

\* Every address space sees the same kernel: all of the memory at its place
\* in the direct map and nothing else there, closed to ring 3.  phys_to_virt
\* depends on it whichever directory is loaded.
KernelShared ==
  Ready =>
    \A d \in Directories, v \in phys_to_virt(0) .. PAGE_TABLE_ENTRIES * PAGE_TABLE_ENTRIES - 1 :
      LET entry == vmm_get_page_entry(tables, d, v) IN
      /\ entry.present <=> v - phys_to_virt(0) \in DOMAIN tables
      /\ entry.present => entry.frame = v - phys_to_virt(0) /\ ~UserCan(tables, d, v)

\* A page reachable in user space belongs to one mapping of one directory, and
\* is neither a page table nor a directory nor free: whatever is evicted,
\* freed, reset or released, a process never sees or changes what is not its
\* own.
Isolated ==
  Ready =>
    LET mappings == AllMappings
        frames == {m[3] : m \in mappings} IN
    /\ frames \subseteq held \ (Directories \cup AllTables \cup KernelTables)
    /\ Cardinality(frames) = Cardinality(mappings)
    /\ \A d, e \in Directories :
         d # e => PrivateTables(tables, d) \cap PrivateTables(tables, e) = {}

\* Nothing is lost: the pages in use are the directories, their tables and the
\* pages they map, in every order of failures and releases, except for the
\* page tables a failed uservm leaves behind.
PagesAccounted ==
  Ready => held = Directories \cup AllTables \cup KernelTables \cup lost
                    \cup {m[3] : m \in AllMappings}

\* An allocated memdemo slot is mapped, at its address and in the directory it
\* was allocated in, to the page it will free; active_pages counts them.
SlotsMapped ==
  /\ \A v \in MEMDEMO_VIRT :
       slots[v] # NoSlot => /\ slots[v][1] \in spaces
                            /\ <<slots[v][1], v, slots[v][2]>> \in UserMappings(slots[v][1])
  /\ active_pages = Cardinality({v \in MEMDEMO_VIRT : slots[v] # NoSlot})
=============================================================================
