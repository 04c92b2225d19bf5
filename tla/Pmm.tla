-------------------------------- MODULE Pmm --------------------------------
(***************************************************************************)
(* The physical memory manager (mm/pmm.c): a bitmap of pages, filled from  *)
(* the boot loader's memory map by pmm_init, then first-fit allocation.    *)
(*                                                                         *)
(* Addresses are bytes modulo WORD (2^32 in the code), so that the sums    *)
(* and alignments of the code wrap as they do there.  The bitmap is the    *)
(* set of pages whose bit is 1; a loop over pages is one set operation,    *)
(* with the free count it accumulates.                                     *)
(***************************************************************************)
EXTENDS Integers, FiniteSets

CONSTANTS
  WORD,                       \* 2^32
  PAGE_SIZE,                  \* 4096
  LOW_MEMORY_RESERVED_BYTES,  \* 1 MiB
  KERNEL_END,                 \* __kernel_phys_end
  TOTALS,                     \* bound: results of detect_total_memory_bytes
  STARTS, LENGTHS,            \* bound: addr_low and len_low of map entries
  MAX_ENTRIES                 \* bound: available entries of the map

ASSUME PmmAssumption ==
  /\ PAGE_SIZE \in Nat \ {0} /\ WORD \in Nat /\ WORD % PAGE_SIZE = 0
  /\ LOW_MEMORY_RESERVED_BYTES \in Nat /\ KERNEL_END \in Nat /\ MAX_ENTRIES \in Nat
  /\ TOTALS \subseteq 0 .. WORD - PAGE_SIZE   \* the top of the space is ROM
  /\ STARTS \subseteq 0 .. WORD - 1 /\ LENGTHS \subseteq 0 .. WORD - 1
  \* The kernel and the bitmap after it end well below 4 GiB.
  /\ \A total \in TOTALS :
       KERNEL_END + (((total \div PAGE_SIZE) + 7) \div 8) + 3 * PAGE_SIZE <= WORD

VARIABLES
  pmm_total_memory_bytes,
  pmm_bitmap,       \* the pages whose bit is 1: reserved or in use
  pmm_free_pages,
  phase,            \* of pmm_init: "map", "reserve", then "ready" (pmm_ready = 1)
  regions,          \* history: the available entries of the map, <<start, length>>
  held              \* history: pages handed out and not returned

pmm_vars == <<pmm_total_memory_bytes, pmm_bitmap, pmm_free_pages, phase, regions, held>>

Lesser(a, b) == IF a < b THEN a ELSE b
Greater(a, b) == IF a > b THEN a ELSE b

align_down(value) == value - (value % PAGE_SIZE)
align_up(value) == align_down((value + PAGE_SIZE - 1) % WORD)

PagesIn(total) == 0 .. (total \div PAGE_SIZE) - 1
pmm_total_pages == pmm_total_memory_bytes \div PAGE_SIZE
pmm_bitmap_bytes == (pmm_total_pages + 7) \div 8
bitmap_end == align_up(align_up(KERNEL_END) + pmm_bitmap_bytes)

\* pmm_init up to the memory map: every page is marked as in use.
PmmInit ==
  /\ pmm_total_memory_bytes \in TOTALS
  /\ pmm_bitmap = PagesIn(pmm_total_memory_bytes)
  /\ pmm_free_pages = 0
  /\ phase = "map"
  /\ regions = {} /\ held = {}

-----------------------------------------------------------------------------
(* The functions below take the state m of the allocator and return the    *)
(* new one: a call of another module may allocate and free several pages.  *)

Memory == [bitmap |-> pmm_bitmap, free_pages |-> pmm_free_pages, held |-> held]
Becomes(m) ==
  pmm_bitmap' = m.bitmap /\ pmm_free_pages' = m.free_pages /\ held' = m.held

\* free_page on each page of S: a page out of range or free already is skipped.
free_page(m, S) ==
  [m EXCEPT !.bitmap = @ \ S, !.free_pages = @ + Cardinality(S \cap m.bitmap)]

\* reserve_page on each page of S, which skips a page out of range or in use.
reserve_page(m, S) ==
  LET pages == S \cap (PagesIn(pmm_total_memory_bytes) \ m.bitmap) IN
  [m EXCEPT !.bitmap = @ \cup pages, !.free_pages = Greater(0, @ - Cardinality(pages))]

\* Mutant: the page the range starts in is freed as well.
RangeToFreeFrom(start, end) ==
  LET from == Greater(start, LOW_MEMORY_RESERVED_BYTES)
      to == Lesser(end, pmm_total_memory_bytes) IN
  IF start >= end \/ from >= to THEN {}
  ELSE align_down(from) \div PAGE_SIZE .. Lesser(align_down(to) \div PAGE_SIZE, pmm_total_pages) - 1

\* The pages of free_range: those completely inside the range.
RangeToFree(start, end) ==
  LET from == Greater(start, LOW_MEMORY_RESERVED_BYTES)
      to == Lesser(end, pmm_total_memory_bytes) IN
  IF start >= end \/ from >= to THEN {}
  ELSE align_up(from) \div PAGE_SIZE .. Lesser(align_down(to) \div PAGE_SIZE, pmm_total_pages) - 1

\* The pages of reserve_range: those the range touches.
RangeToReserve(start, end) ==
  IF start >= end THEN {}
  ELSE align_down(start) \div PAGE_SIZE .. Lesser(align_up(end) \div PAGE_SIZE, pmm_total_pages) - 1

\* free_memory_from_map, one available entry: an entry whose end wraps is
\* left out.  (Entries of other types, or above 4 GiB, change nothing.)
MapEntry(start, length) ==
  LET end == (start + length) % WORD IN
  /\ phase = "map" /\ Cardinality(regions) < MAX_ENTRIES
  /\ length # 0 /\ end > start
  /\ Becomes(free_page(Memory, RangeToFree(start, end)))
  /\ regions' = regions \cup {<<start, length>>}
  /\ UNCHANGED <<pmm_total_memory_bytes, phase>>

\* Without a memory map everything from 1 MiB on is taken as available.
NoMap ==
  /\ phase = "map" /\ regions = {}
  /\ Becomes(free_page(Memory, RangeToFree(LOW_MEMORY_RESERVED_BYTES, pmm_total_memory_bytes)))
  /\ regions' = {<<0, pmm_total_memory_bytes>>}
  /\ phase' = "reserve"
  /\ UNCHANGED pmm_total_memory_bytes

\* The end of pmm_init: low memory, the kernel and the bitmap are reserved.
ReserveKernel ==
  /\ phase \in {"map", "reserve"}
  /\ Becomes(reserve_page(Memory, RangeToReserve(0, bitmap_end)))
  /\ phase' = "ready"
  /\ UNCHANGED <<pmm_total_memory_bytes, regions>>

-----------------------------------------------------------------------------
\* The first page of S: what a scan from page 0 finds.
First(S) == CHOOSE page \in S : \A p \in S : page <= p

FreeOf(m) == PagesIn(pmm_total_memory_bytes) \ m.bitmap

\* First fit; only called with a free page left.  (The code returns 0 otherwise.)
pmm_alloc_page(m) ==
  LET page == First(FreeOf(m)) IN [reserve_page(m, {page}) EXCEPT !.held = @ \cup {page}]

\* A page below the end of the bitmap is never freed.
pmm_free_page(m, page) ==
  IF page * PAGE_SIZE < bitmap_end THEN m
  ELSE [free_page(m, {page}) EXCEPT !.held = @ \ {page}]

\* The rest of pmm_init; the calls after it are those of the module using it.
PmmBoot ==
  \/ \E start \in STARTS, length \in LENGTHS : MapEntry(start, length)
  \/ NoMap
  \/ ReserveKernel

-----------------------------------------------------------------------------
(* Properties.                                                             *)

\* Every variable keeps its type.
PmmTypeOK ==
  /\ pmm_total_memory_bytes \in TOTALS
  /\ pmm_bitmap \subseteq PagesIn(pmm_total_memory_bytes)
  /\ pmm_free_pages \in Nat
  /\ phase \in {"map", "reserve", "ready"}
  /\ held \subseteq PagesIn(pmm_total_memory_bytes)

\* The free count the shell shows and memdemo logs is the number of clear
\* bits, through overlapping map entries, reservation and every free.
FreeCountExact ==
  pmm_free_pages = Cardinality(PagesIn(pmm_total_memory_bytes) \ pmm_bitmap)

(***************************************************************************)
(* The reference definition, byte by byte: a page is usable if all of it   *)
(* is memory, one available region covers it, and no byte of it belongs to *)
(* low memory, the kernel or the bitmap.                                   *)
(***************************************************************************)
BytesOf(page) == page * PAGE_SIZE .. (page + 1) * PAGE_SIZE - 1
Usable(page) ==
  /\ \A b \in BytesOf(page) :
       /\ b < pmm_total_memory_bytes
       /\ b >= LOW_MEMORY_RESERVED_BYTES
       /\ b >= align_up(KERNEL_END) + pmm_bitmap_bytes
  /\ \E r \in regions : BytesOf(page) \subseteq r[1] .. r[1] + r[2] - 1

\* pmm_alloc_page hands out exactly the usable pages: never the kernel, the
\* bitmap, low memory or a page that is only partly there; none is lost, and
\* none is handed out while somebody holds it.
ExactlyUsable ==
  phase = "ready" =>
    /\ held \subseteq pmm_bitmap
    /\ \A page \in PagesIn(pmm_total_memory_bytes) :
         (page \notin pmm_bitmap \/ page \in held) <=> Usable(page)

\* The allocator's count, bitmap and range are exact, from the memory map of
\* the boot loader through every allocation and free.
AllocatorExact == PmmTypeOK /\ FreeCountExact /\ ExactlyUsable
=============================================================================
