------------------------------- MODULE Pager -------------------------------
(***************************************************************************)
(* The demand pager (mm/pager.c): registered pages live in their swap slot *)
(* or in one of PAGER_FRAME_LIMIT frames; a page fault brings a page in,   *)
(* evicting a victim chosen by the clock or by the LRU algorithm.          *)
(*                                                                         *)
(* An entry of pager_pages and its swap slot have the same index, so swap  *)
(* is indexed by entries.  frame_pages and resident_frames are one         *)
(* sequence; the code's slot k is its element k + 1.  accessed is the A    *)
(* bit of the page table entries.  swapped, always the opposite of present *)
(* in a used entry, the counters and the victim trace are only displayed   *)
(* and left out.  A pager call runs to its end before anything else: the   *)
(* fault handler runs with interrupts off, and no interrupt handler calls  *)
(* the pager otherwise.                                                    *)
(***************************************************************************)
EXTENDS Integers, Sequences, FiniteSets

CONSTANTS
  PAGER_MAX_PAGES,    \* entries, and swap slots (128)
  PAGER_FRAME_LIMIT,  \* frames (16)
  PAGES,              \* pages: a page directory and a virtual address
  FRAMES,             \* physical pages pmm_alloc_page can hand out
  VALUES,             \* page contents
  Initial,            \* what a page is registered with: its image, or zeros
  NoPage, NoFrame,    \* virt_addr and phys_addr of an entry that has none
  MAX_TICK            \* bound: usage_tick stops here (uint32_t in the code)

ASSUME PagerAssumption ==
  /\ PAGER_MAX_PAGES \in Nat \ {0}
  /\ PAGER_FRAME_LIMIT \in Nat \ {0}
  /\ MAX_TICK \in Nat
  /\ NoPage \notin PAGES
  /\ NoFrame \notin FRAMES
  /\ NoPage \notin VALUES
  /\ Initial \in VALUES

Entries == 0 .. PAGER_MAX_PAGES - 1

VARIABLES
  pager_pages,
  frame_pages,        \* the entries in the frames, frame 0 first
  clock_hand,
  usage_tick,
  current_algorithm,
  accessed,           \* entries whose page table entry has the A bit set
  swap,               \* the swap slots on the disk
  ram,                \* the physical pages
  stopped,            \* kernel_panic: a page fault could not be served
  op                  \* history: the store or call of the last step, or <<"none">>

pager_vars == <<pager_pages, frame_pages, clock_hand, usage_tick,
                current_algorithm, accessed, swap, ram, stopped, op>>

PagerPage == [used : BOOLEAN, page : PAGES \cup {NoPage}, present : BOOLEAN,
              phys_addr : FRAMES \cup {NoFrame}, last_used_tick : Nat, pinned : BOOLEAN]

FreePage == [used |-> FALSE, page |-> NoPage, present |-> FALSE,
             phys_addr |-> NoFrame, last_used_tick |-> 0, pinned |-> FALSE]

\* The disk and the memory hold whatever was there before.
pager_init ==
  /\ pager_pages = [i \in Entries |-> FreePage]
  /\ frame_pages = <<>>
  /\ clock_hand = 0
  /\ usage_tick = 0
  /\ current_algorithm = "clock"
  /\ accessed = {}
  /\ swap \in [Entries -> VALUES]
  /\ ram \in [FRAMES -> VALUES]
  /\ stopped = FALSE
  /\ op = <<"none">>

-----------------------------------------------------------------------------
(* Lookups.                                                                *)

find_page_by_virt(p) == {i \in Entries : pager_pages[i].used /\ pager_pages[i].page = p}

find_free_page_entry(i) ==
  /\ ~pager_pages[i].used
  /\ \A j \in 0 .. i - 1 : pager_pages[j].used

InUse == {pager_pages[i].phys_addr : i \in {j \in Entries : pager_pages[j].present}}

-----------------------------------------------------------------------------
(* Choosing a victim, all frames being occupied.                           *)

(***************************************************************************)
(* The loop of choose_clock_victim_frame after at most n skipped frames: a *)
(* pinned page is skipped, an accessed one loses its A bit and is skipped, *)
(* any other stops the hand.  The loop gives up after two full turns.      *)
(***************************************************************************)
ClockScan[n \in 0 .. 2 * PAGER_FRAME_LIMIT] ==
  IF n = 0
  THEN [hand |-> clock_hand, accessed |-> accessed]
  ELSE LET s == ClockScan[n - 1]
           i == frame_pages[s.hand + 1]
           next == (s.hand + 1) % PAGER_FRAME_LIMIT
       IN IF pager_pages[i].pinned
          THEN [s EXCEPT !.hand = next]
          ELSE IF i \in s.accessed
          THEN [hand |-> next, accessed |-> s.accessed \ {i}]
          ELSE s

\* Mutant: the clock gives up after one turn.
choose_clock_victim_one_turn ==
  LET s == ClockScan[PAGER_FRAME_LIMIT] IN
  [slot |-> s.hand, accessed |-> s.accessed, usage_tick |-> usage_tick,
   last_used |-> [i \in Entries |-> pager_pages[i].last_used_tick]]

choose_clock_victim_frame ==
  LET s == ClockScan[2 * PAGER_FRAME_LIMIT] IN
  [slot |-> s.hand, accessed |-> s.accessed, usage_tick |-> usage_tick,
   last_used |-> [i \in Entries |-> pager_pages[i].last_used_tick]]

\* Mutant: the A bit is cleared and the use forgotten.
sample_page_forgets(u, i) == [u EXCEPT !.accessed = @ \ {i}]

\* sample_page_usage on the usage records u: an accessed page becomes the
\* most recently used one and loses its A bit.
sample_page_usage(u, i) ==
  IF i \in u.accessed
  THEN [u EXCEPT !.accessed = @ \ {i}, !.usage_tick = @ + 1,
                 !.last_used[i] = u.usage_tick + 1]
  ELSE u

Usage == [slot |-> 0, accessed |-> accessed, usage_tick |-> usage_tick,
          last_used |-> [i \in Entries |-> pager_pages[i].last_used_tick]]

\* The loop of choose_lru_victim_frame after k frames: unpinned pages are
\* sampled, the first one of the least tick is kept.  Frame 0 if all are pinned.
LruScan[k \in 0 .. PAGER_FRAME_LIMIT] ==
  IF k = 0
  THEN [usage |-> Usage, found |-> FALSE]
  ELSE LET s == LruScan[k - 1]
           i == frame_pages[k]
           u == sample_page_usage(s.usage, i)
           best == u.last_used[frame_pages[u.slot + 1]]
       IN IF pager_pages[i].pinned
          THEN s
          ELSE IF ~s.found \/ u.last_used[i] < best
          THEN [usage |-> [u EXCEPT !.slot = k - 1], found |-> TRUE]
          ELSE [usage |-> u, found |-> TRUE]

choose_lru_victim_frame == LruScan[PAGER_FRAME_LIMIT].usage

choose_victim_frame ==
  IF current_algorithm = "lru" THEN choose_lru_victim_frame ELSE choose_clock_victim_frame

-----------------------------------------------------------------------------
(* Page faults.                                                            *)

(***************************************************************************)
(* page_in of the page in entry i.  While a frame is free it is taken;     *)
(* else a victim is written back to its swap slot, unmapped and its        *)
(* physical page freed.  Then any free physical page is allocated, filled  *)
(* from the swap slot and mapped, without the A bit.                       *)
(***************************************************************************)
PageInFree(i) ==
  /\ Len(frame_pages) < PAGER_FRAME_LIMIT
  /\ \E f \in FRAMES \ InUse :
       /\ pager_pages' = [pager_pages EXCEPT ![i].phys_addr = f, ![i].present = TRUE,
                                             ![i].last_used_tick = usage_tick + 1]
       /\ ram' = [ram EXCEPT ![f] = swap[i]]
  /\ frame_pages' = Append(frame_pages, i)
  /\ clock_hand' = (Len(frame_pages) + 1) % PAGER_FRAME_LIMIT
  /\ usage_tick' = usage_tick + 1
  /\ UNCHANGED <<accessed, swap>>

\* Mutant: the victim is not written back.
swap_write_nothing(victim) == swap

\* The victim goes to its swap slot.
swap_write_slot(victim) == [swap EXCEPT ![victim] = ram[pager_pages[victim].phys_addr]]

evict_frame(victim, last_used) ==
  [i \in Entries |->
     IF i = victim
     THEN [pager_pages[i] EXCEPT !.phys_addr = NoFrame, !.present = FALSE,
                                 !.last_used_tick = last_used[i]]
     ELSE [pager_pages[i] EXCEPT !.last_used_tick = last_used[i]]]

PageInEvict(i) ==
  LET c == choose_victim_frame
      victim == frame_pages[c.slot + 1]
      evicted == evict_frame(victim, c.last_used)
  IN
  /\ Len(frame_pages) = PAGER_FRAME_LIMIT
  /\ swap' = swap_write_slot(victim)
  /\ \E f \in (FRAMES \ InUse) \cup {pager_pages[victim].phys_addr} :
       /\ pager_pages' = [evicted EXCEPT ![i].phys_addr = f, ![i].present = TRUE,
                                         ![i].last_used_tick = c.usage_tick + 1]
       /\ ram' = [ram EXCEPT ![f] = swap[i]]
  /\ frame_pages' = [frame_pages EXCEPT ![c.slot + 1] = i]
  /\ clock_hand' = (c.slot + 1) % PAGER_FRAME_LIMIT
  /\ usage_tick' = c.usage_tick + 1
  /\ accessed' = c.accessed \ {victim}

\* A not-present fault on a registered page p of the loaded directory.
pager_handle_page_fault(p) ==
  /\ ~stopped
  /\ \E i \in find_page_by_virt(p) :
       /\ ~pager_pages[i].present
       /\ PageInFree(i) \/ PageInEvict(i)
  /\ usage_tick' <= MAX_TICK
  /\ UNCHANGED <<current_algorithm, stopped>>

\* The disk fails, or no physical page is left: page_in returns 0, isr_dispatch
\* panics and the kernel never looks at the half-updated tables again.
FaultFails(p) ==
  /\ ~stopped
  /\ \E i \in find_page_by_virt(p) : ~pager_pages[i].present
  /\ stopped' = TRUE
  /\ UNCHANGED <<pager_pages, frame_pages, clock_hand, usage_tick,
                 current_algorithm, accessed, swap, ram>>

\* The CPU loads from a mapped page or stores v in it; both set the A bit.
Load(p) ==
  /\ ~stopped
  /\ \E i \in find_page_by_virt(p) :
       pager_pages[i].present /\ accessed' = accessed \cup {i}
  /\ UNCHANGED <<pager_pages, frame_pages, clock_hand, usage_tick,
                 current_algorithm, swap, ram, stopped>>

Store(p, v) ==
  /\ ~stopped
  /\ \E i \in find_page_by_virt(p) :
       /\ pager_pages[i].present
       /\ accessed' = accessed \cup {i}
       /\ ram' = [ram EXCEPT ![pager_pages[i].phys_addr] = v]
  /\ UNCHANGED <<pager_pages, frame_pages, clock_hand, usage_tick,
                 current_algorithm, swap, stopped>>

-----------------------------------------------------------------------------
(* The calls of the kernel.                                                *)

\* Registering writes the initial contents to the swap slot.  The branch for a
\* page that is already registered is left out: process.c registers the pages
\* of a new directory, or one that vm_page_bitmap says is new, and the shell's
\* pagertest unregisters its pages first.
pager_register_page_data(p, v) ==
  /\ ~stopped
  /\ find_page_by_virt(p) = {}
  /\ \E i \in Entries :
       /\ find_free_page_entry(i)
       /\ swap' = [swap EXCEPT ![i] = v]
       /\ pager_pages' = [pager_pages EXCEPT ![i] =
                            [FreePage EXCEPT !.used = TRUE, !.page = p]]
  /\ UNCHANGED <<frame_pages, clock_hand, usage_tick, current_algorithm,
                 accessed, ram, stopped>>

\* The disk fails while the first contents are written: the slot holds
\* anything, the entry stays free.
RegisterFails(p) ==
  /\ ~stopped
  /\ find_page_by_virt(p) = {}
  /\ \E i \in Entries, v \in VALUES :
       find_free_page_entry(i) /\ swap' = [swap EXCEPT ![i] = v]
  /\ UNCHANGED <<pager_pages, frame_pages, clock_hand, usage_tick,
                 current_algorithm, accessed, ram, stopped>>

pager_pin_page_in_directory(p, pinned) ==
  /\ ~stopped
  /\ \E i \in find_page_by_virt(p) :
       pager_pages' = [pager_pages EXCEPT ![i].pinned = pinned]
  /\ UNCHANGED <<frame_pages, clock_hand, usage_tick, current_algorithm,
                 accessed, swap, ram, stopped>>

\* Mutant: the last frame is dropped, whichever page goes.
CloseGapDropsLast(k) ==
  LET n == Len(frame_pages) - 1 IN
  /\ frame_pages' = SubSeq(frame_pages, 1, n)
  /\ clock_hand' = IF clock_hand >= n THEN 0 ELSE clock_hand

\* The last frame's page moves to frame k, the frame of the page that goes.
CloseGap(k) ==
  LET n == Len(frame_pages) - 1 IN
  /\ frame_pages' = [j \in 1 .. n |-> IF j = k THEN frame_pages[n + 1] ELSE frame_pages[j]]
  /\ clock_hand' = IF clock_hand >= n THEN 0 ELSE clock_hand

pager_unregister_page(p) ==
  /\ ~stopped
  /\ \E i \in find_page_by_virt(p) :
       /\ IF pager_pages[i].present
          THEN \E k \in 1 .. Len(frame_pages) : frame_pages[k] = i /\ CloseGap(k)
          ELSE UNCHANGED <<frame_pages, clock_hand>>
       /\ accessed' = accessed \ {i}
       /\ pager_pages' = [pager_pages EXCEPT ![i] = FreePage]
  /\ UNCHANGED <<usage_tick, current_algorithm, swap, ram, stopped>>

pager_set_algorithm(algorithm) ==
  /\ ~stopped
  /\ current_algorithm' = algorithm
  /\ UNCHANGED <<pager_pages, frame_pages, clock_hand, usage_tick, accessed,
                 swap, ram, stopped>>

(***************************************************************************)
(* pager_sample_usage, which its callers only call under LRU: the accessed *)
(* pages get consecutive ticks in the order of their frames.               *)
(***************************************************************************)
SampleScan[k \in 0 .. PAGER_FRAME_LIMIT] ==
  IF k = 0 THEN Usage
  ELSE IF k > Len(frame_pages) THEN SampleScan[k - 1]
  ELSE sample_page_usage(SampleScan[k - 1], frame_pages[k])

pager_sample_usage ==
  LET u == SampleScan[PAGER_FRAME_LIMIT] IN
  /\ ~stopped
  /\ current_algorithm = "lru"
  /\ u.usage_tick <= MAX_TICK
  /\ usage_tick' = u.usage_tick
  /\ accessed' = u.accessed
  /\ pager_pages' = [i \in Entries |->
                       [pager_pages[i] EXCEPT !.last_used_tick = u.last_used[i]]]
  /\ UNCHANGED <<frame_pages, clock_hand, current_algorithm, swap, ram, stopped>>

Halted == stopped /\ UNCHANGED pager_vars

-----------------------------------------------------------------------------
\* process.c only ever pins; nobody unpins a page before unregistering it.
PagerNext ==
  \/ /\ op' = <<"none">>
     /\ \/ \E p \in PAGES :
             \/ pager_handle_page_fault(p)
             \/ FaultFails(p)
             \/ Load(p)
             \/ RegisterFails(p)
             \/ pager_pin_page_in_directory(p, TRUE)
        \/ \E a \in {"clock", "lru"} : pager_set_algorithm(a)
        \/ pager_sample_usage
  \/ \E p \in PAGES :
       \/ \E v \in VALUES : Store(p, v) /\ op' = <<"store", p, v>>
       \/ pager_register_page_data(p, Initial) /\ op' = <<"register", p>>
       \/ pager_unregister_page(p) /\ op' = <<"unregister", p>>
  \/ Halted

PagerSpec == pager_init /\ [][PagerNext]_pager_vars

-----------------------------------------------------------------------------
(* Properties.                                                             *)

\* Every variable keeps its type; the clock hand always points at a frame.
PagerTypeOK ==
  /\ pager_pages \in [Entries -> PagerPage]
  /\ frame_pages \in Seq(Entries)
  /\ Len(frame_pages) <= PAGER_FRAME_LIMIT
  /\ clock_hand \in 0 .. PAGER_FRAME_LIMIT - 1
  /\ usage_tick \in Nat
  /\ current_algorithm \in {"clock", "lru"}
  /\ accessed \subseteq Entries
  /\ swap \in [Entries -> VALUES]
  /\ ram \in [FRAMES -> VALUES]
  /\ stopped \in BOOLEAN

\* The frame table is exact: each resident page is in exactly one frame, the
\* frames hold resident pages only (also after an unregistration moved the
\* last one), no physical page belongs to two of them, and no page has two
\* entries.
FramesExact ==
  /\ \A j, k \in DOMAIN frame_pages : frame_pages[j] = frame_pages[k] => j = k
  /\ \A i \in Entries :
       pager_pages[i].present <=> \E k \in DOMAIN frame_pages : frame_pages[k] = i
  /\ \A i \in Entries : pager_pages[i].present => pager_pages[i].phys_addr \in FRAMES
  /\ \A i, j \in Entries :
       /\ pager_pages[i].present /\ pager_pages[j].present
       /\ pager_pages[i].phys_addr = pager_pages[j].phys_addr
       => i = j
  /\ \A i, j \in Entries :
       /\ pager_pages[i].used /\ pager_pages[j].used
       /\ pager_pages[i].page = pager_pages[j].page
       => i = j
  /\ \A i \in Entries : pager_pages[i].present => pager_pages[i].used

\* Through every fault and unregistration the frame table is exact and the
\* clock hand stays inside it.
TablesExact == PagerTypeOK /\ FramesExact

\* The pages a fault evicts.
Evicted == {i \in Entries : /\ pager_pages[i].used /\ pager_pages[i].present
                            /\ pager_pages'[i].used /\ ~pager_pages'[i].present}
Unpinned == {i \in Entries : pager_pages[i].present /\ ~pager_pages[i].pinned}

\* process.c pins code and stack so that they stay resident.  Whichever the
\* algorithm, a pinned page is only evicted when every frame is pinned.
PinnedEvictedLast ==
  [][\A i \in Evicted : pager_pages[i].pinned => Unpinned = {}]_pager_vars

\* The second chance of the clock and the sampling of LRU: a page used since
\* the algorithm last looked is not evicted while there is one that was not.
\* (Until usage_tick wraps: after 2^32 marks the order of LRU is lost.)
RecentlyUsedKept ==
  [][\A i \in Evicted :
       i \in accessed /\ ~pager_pages[i].pinned => Unpinned \subseteq accessed]_pager_vars

\* The contents a load from page p returns, wherever the page is.
Contents ==
  [p \in PAGES |->
     IF find_page_by_virt(p) = {} THEN NoPage
     ELSE LET i == CHOOSE i \in find_page_by_virt(p) : TRUE IN
          IF pager_pages[i].present THEN ram[pager_pages[i].phys_addr] ELSE swap[i]]

Memory == INSTANCE PagedMemory WITH contents <- Contents, Unmapped <- NoPage

\* The pager implements PagedMemory: eviction, page-in and the reuse of
\* entries, swap slots and physical pages never lose a store, and a newly
\* registered page never shows what another page left behind.
ImplementsMemory == Memory!Spec

\* pager.h, pager_pin_page_in_directory: a pinned page is "forbidden to be
\* chosen as a victim by page replacement".
PinnedNeverEvicted == [][\A i \in Evicted : ~pager_pages[i].pinned]_pager_vars
=============================================================================
