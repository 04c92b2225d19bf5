---------------------------- MODULE MemoryProofs ----------------------------
(***************************************************************************)
(* Proofs about Pmm, Vmm and AddressSpaces, for every memory map, size of  *)
(* pages and tables, and set of addresses.                                 *)
(***************************************************************************)
EXTENDS AddressSpaces, Induction, FiniteSetTheorems

-----------------------------------------------------------------------------
(* Arithmetic of pages.                                                    *)

\* What is assumed of the sizes.
LEMMA Sizes ==
  /\ PAGE_SIZE \in Nat \ {0} /\ WORD \in Nat /\ KERNEL_END \in Nat
  /\ LOW_MEMORY_RESERVED_BYTES \in Nat
  /\ \A total \in TOTALS :
       /\ total \in Nat /\ total + PAGE_SIZE <= WORD
       /\ KERNEL_END + (((total \div PAGE_SIZE) + 7) \div 8) + 3 * PAGE_SIZE <= WORD
BY PmmAssumption

\* Rounding down: the page an address is in.
LEMMA RoundDown ==
  ASSUME NEW y \in Nat
  PROVE  /\ align_down(y) \in Nat /\ align_down(y) = PAGE_SIZE * (y \div PAGE_SIZE)
         /\ align_down(y) \div PAGE_SIZE = y \div PAGE_SIZE
<1> DEFINE N == PAGE_SIZE
           q == y \div N
           r == y % N
<1>1. N \in Nat \ {0}
  BY Sizes
<1>2. q \in Nat /\ r \in 0 .. N - 1 /\ y = N * q + r
  BY <1>1, Division
<1>3. align_down(y) = y - r
  BY DEF align_down
<1> HIDE DEF q, r, N
<1>4. y - r = N * q /\ N * q \in Nat
  BY <1>1, <1>2
<1> DEFINE m == N * q
<1>5. m \in Nat /\ m = N * q + 0 /\ 0 \in 0 .. N - 1
  BY <1>1, <1>4
<1> HIDE DEF m
<1>6. m \div N = q
  BY <1>1, <1>2, <1>5, QuotientUnique
<1>7. align_down(y) = m /\ align_down(y) = N * q
  BY <1>3, <1>4 DEF m
<1> QED BY <1>5, <1>6, <1>7 DEF q, N

\* Rounding up, when it does not wrap: the first page at or above an address.
LEMMA RoundUp ==
  ASSUME NEW x \in Nat, x + PAGE_SIZE <= WORD
  PROVE  /\ align_up(x) \in Nat /\ x <= align_up(x) /\ align_up(x) < x + PAGE_SIZE
         /\ align_up(x) = PAGE_SIZE * (align_up(x) \div PAGE_SIZE)
         /\ \A p \in Int : align_up(x) \div PAGE_SIZE <= p <=> x <= p * PAGE_SIZE
         /\ \A p \in Int : align_up(x) <= p * PAGE_SIZE <=> x <= p * PAGE_SIZE
<1> DEFINE N == PAGE_SIZE
           y == x + N - 1
           q == y \div N
           u == align_up(x)
<1>1. N \in Nat \ {0} /\ y \in Nat /\ y < WORD /\ WORD \in Nat \ {0} /\ y + 1 = x + N
  BY Sizes
<1>2. y % WORD = y
  <2>1. y = WORD * 0 + y /\ y \in 0 .. WORD - 1
    BY <1>1
  <2> HIDE DEF y
  <2> QED BY <1>1, <2>1, QuotientUnique
<1>3. u = align_down(y)
  BY <1>2 DEF align_up
<1> HIDE DEF y, u
<1>4. u \in Nat /\ u = N * q /\ u \div N = q
  BY <1>1, <1>3, RoundDown
<1>5. q \in Nat /\ y % N \in 0 .. N - 1 /\ y = N * q + (y % N)
  BY <1>1, Division
<1>6. ASSUME NEW p \in Int PROVE q <= p <=> x <= p * N
  <2>1. q <= p <=> y < (p + 1) * N
    BY <1>1, QuotientBound
  <2>2. (p + 1) * N = p * N + N /\ p * N \in Int
    BY <1>1
  <2> QED BY <1>1, <2>1, <2>2
<1>7. ASSUME NEW p \in Int PROVE u <= p * N <=> x <= p * N
  <2> HIDE DEF q
  <2>1. q <= p => N * q <= p * N
    BY <1>1, <1>5
  <2>2. p <= q - 1 => p * N <= N * q - N
    BY <1>1, <1>5
  <2>3. p * N \in Int /\ N * q \in Int
    BY <1>1, <1>5
  <2> QED BY <1>1, <1>4, <1>5, <1>6, <2>1, <2>2, <2>3
<1>8. x <= u /\ u < x + N
  <2> HIDE DEF q
  <2> QED BY <1>1, <1>4, <1>5
<1> QED BY <1>4, <1>6, <1>7, <1>8 DEF u, N

-----------------------------------------------------------------------------
(* The ranges of pmm_init.                                                 *)

Pages == PagesIn(pmm_total_memory_bytes)
LowEnd == align_up(KERNEL_END) + pmm_bitmap_bytes

\* A page of the memory is a number whose page ends inside the memory.
LEMMA PagesInside ==
  ASSUME pmm_total_memory_bytes \in TOTALS
  PROVE  /\ pmm_total_memory_bytes \in Nat /\ pmm_total_pages \in Nat
         /\ Pages = 0 .. pmm_total_pages - 1 /\ Pages \subseteq Nat /\ IsFiniteSet(Pages)
         /\ \A p \in Nat : p \in Pages <=> (p + 1) * PAGE_SIZE <= pmm_total_memory_bytes
<1> DEFINE T == pmm_total_memory_bytes
           n == pmm_total_pages
<1>1. T \in Nat /\ PAGE_SIZE \in Nat \ {0}
  BY Sizes
<1>2. n = T \div PAGE_SIZE /\ n \in Nat
  BY <1>1, Division DEF pmm_total_pages
<1>3. Pages = 0 .. n - 1
  BY <1>2 DEF Pages, PagesIn
<1>4. \A p \in Nat : p < n <=> (p + 1) * PAGE_SIZE <= T
  BY <1>1, <1>2, QuotientBound
<1> HIDE DEF T, n
<1>5. IsFiniteSet(Pages)
  <2>1. 0 \in Int /\ n - 1 \in Int
    BY <1>2
  <2> QED BY <1>3, <2>1, FS_Interval
<1>6. Pages \subseteq Nat /\ \A p \in Nat : p \in Pages <=> p < n
  BY <1>2, <1>3
<1> QED BY <1>1, <1>2, <1>3, <1>4, <1>5, <1>6 DEF T, n

\* The end of the kernel and of its bitmap do not wrap.
LEMMA KernelEnd ==
  ASSUME pmm_total_memory_bytes \in TOTALS
  PROVE  /\ LowEnd \in Nat /\ bitmap_end \in Nat /\ bitmap_end + PAGE_SIZE <= WORD
         /\ pmm_bitmap_bytes \in Nat
         /\ pmm_total_pages > 0 => pmm_bitmap_bytes > 0
         /\ \A p \in Int : bitmap_end <= p * PAGE_SIZE <=> LowEnd <= p * PAGE_SIZE
<1> DEFINE b == pmm_bitmap_bytes
           n == pmm_total_pages
           k == align_up(KERNEL_END)
<1>1. n \in Nat /\ n = pmm_total_memory_bytes \div PAGE_SIZE
  BY PagesInside DEF pmm_total_pages
<1>2. b = (n + 7) \div 8
  BY DEF pmm_bitmap_bytes
<1>3. KERNEL_END + b + 3 * PAGE_SIZE <= WORD /\ PAGE_SIZE \in Nat \ {0} /\ KERNEL_END \in Nat /\ WORD \in Nat
  BY <1>1, <1>2, Sizes
<1>4. LowEnd = k + b /\ bitmap_end = align_up(k + b)
  BY DEF LowEnd, bitmap_end
<1> HIDE DEF n, b, k
<1>5. b \in Nat /\ (n > 0 => b > 0)
  BY <1>1, <1>2
<1>6. k \in Nat /\ k < KERNEL_END + PAGE_SIZE
  BY <1>3, <1>5, RoundUp DEF k
<1> DEFINE e == k + b
<1>7. e \in Nat /\ e + 2 * PAGE_SIZE <= WORD /\ e + PAGE_SIZE <= WORD
  BY <1>3, <1>5, <1>6
<1> HIDE DEF e
<1>8. /\ align_up(e) \in Nat /\ align_up(e) < e + PAGE_SIZE
      /\ \A p \in Int : align_up(e) <= p * PAGE_SIZE <=> e <= p * PAGE_SIZE
  BY <1>7, RoundUp
<1>9. LowEnd = e /\ bitmap_end = align_up(e)
  BY <1>4 DEF e
<1>10. bitmap_end + PAGE_SIZE <= WORD
  BY <1>3, <1>7, <1>8, <1>9
<1> QED BY <1>5, <1>7, <1>8, <1>9, <1>10 DEF b, n

\* free_range frees the pages that are completely inside the range.
LEMMA FreesWholePages ==
  ASSUME pmm_total_memory_bytes \in TOTALS, NEW start \in Nat, NEW end \in Nat
  PROVE  /\ RangeToFree(start, end) \subseteq Pages
         /\ \A p \in Pages : p \in RangeToFree(start, end)
              <=> /\ start <= p * PAGE_SIZE /\ LOW_MEMORY_RESERVED_BYTES <= p * PAGE_SIZE
                  /\ (p + 1) * PAGE_SIZE <= end
<1> DEFINE T == pmm_total_memory_bytes
           n == pmm_total_pages
           from == Greater(start, LOW_MEMORY_RESERVED_BYTES)
           to == Lesser(end, T)
           lo == align_up(from) \div PAGE_SIZE
           hi == align_down(to) \div PAGE_SIZE
           R == RangeToFree(start, end)
           In(p) == /\ start <= p * PAGE_SIZE /\ LOW_MEMORY_RESERVED_BYTES <= p * PAGE_SIZE
                    /\ (p + 1) * PAGE_SIZE <= end
<1>1. /\ T \in Nat /\ n \in Nat /\ Pages = 0 .. n - 1 /\ T + PAGE_SIZE <= WORD
      /\ PAGE_SIZE \in Nat \ {0} /\ WORD \in Nat /\ LOW_MEMORY_RESERVED_BYTES \in Nat
  BY PagesInside, Sizes
<1>2. \A p \in Nat : p \in Pages <=> (p + 1) * PAGE_SIZE <= T
  BY PagesInside
<1>3. R = IF start >= end \/ from >= to THEN {} ELSE lo .. Lesser(hi, n) - 1
  BY DEF RangeToFree
<1>4. /\ from \in Nat /\ to \in Nat /\ to <= T
      /\ \A m \in Int : from <= m <=> start <= m /\ LOW_MEMORY_RESERVED_BYTES <= m
      /\ \A m \in Int : m <= to <=> m <= end /\ m <= T
  BY <1>1 DEF Greater, Lesser
<1> HIDE DEF T, n, from, to, R
<1>5. \A p \in Nat : p * PAGE_SIZE \in Nat /\ (p + 1) * PAGE_SIZE = p * PAGE_SIZE + PAGE_SIZE
  BY <1>1
<1>6. ASSUME start >= end \/ from >= to, NEW p \in Pages
      PROVE  ~In(p)
  <2>1. p \in Nat
    BY <1>1
  <2> DEFINE a == p * PAGE_SIZE
             z == (p + 1) * PAGE_SIZE
  <2>2. a \in Nat /\ z \in Nat /\ a < z /\ z <= T
    BY <1>1, <1>2, <1>5, <2>1
  <2>3. from <= a <=> start <= a /\ LOW_MEMORY_RESERVED_BYTES <= a
    BY <1>4, <2>2
  <2>4. z <= to <=> z <= end /\ z <= T
    BY <1>4, <2>2
  <2> HIDE DEF a, z
  <2>5. ~(start <= a /\ LOW_MEMORY_RESERVED_BYTES <= a /\ z <= end)
    BY <1>1, <1>4, <1>6, <2>2, <2>3, <2>4
  <2> QED BY <2>5 DEF a, z
<1>7. ASSUME ~(start >= end \/ from >= to)
      PROVE  R \subseteq Pages /\ \A p \in Pages : p \in R <=> In(p)
  <2>1. from + PAGE_SIZE <= WORD
    BY <1>1, <1>4, <1>7
  <2>2. lo \in Int /\ hi \in Nat
    <3> DEFINE u == align_up(from)
               d == align_down(to)
    <3>1. u \in Nat /\ d \in Nat
      BY <1>4, <2>1, RoundUp, RoundDown
    <3> HIDE DEF u, d
    <3>2. u \div PAGE_SIZE \in Nat /\ d \div PAGE_SIZE \in Nat
      BY <1>1, <3>1, Division
    <3> QED BY <3>2 DEF u, d
  <2>3. \A p \in Int : lo <= p <=> from <= p * PAGE_SIZE
    BY <1>4, <2>1, RoundUp
  <2>4. \A p \in Int : p < hi <=> (p + 1) * PAGE_SIZE <= to
    <3>1. hi = to \div PAGE_SIZE
      BY <1>4, RoundDown
    <3> QED BY <1>1, <1>4, <3>1, QuotientBound
  <2>5. 0 <= lo
    <3>1. lo <= -1 => from <= (-1) * PAGE_SIZE
      BY <2>3
    <3> HIDE DEF lo
    <3> QED BY <1>1, <1>4, <2>2, <3>1
  <2> HIDE DEF lo, hi
  <2>6. R = lo .. Lesser(hi, n) - 1
    BY <1>3, <1>7
  <2>7. \A p \in Nat : p \in R <=> lo <= p /\ p < hi /\ p < n
    BY <1>1, <2>2, <2>5, <2>6 DEF Lesser
  <2>8. R \subseteq Pages
    BY <1>1, <2>2, <2>5, <2>6 DEF Lesser
  <2>9. ASSUME NEW p \in Pages PROVE p \in R <=> In(p)
    <3>1. p \in Nat /\ p < n
      BY <1>1
    <3> DEFINE a == p * PAGE_SIZE
               z == (p + 1) * PAGE_SIZE
    <3>2. a \in Nat /\ z \in Nat /\ z <= T
      BY <1>1, <1>2, <1>5, <3>1
    <3>3. (lo <= p <=> from <= a) /\ (p < hi <=> z <= to)
      BY <2>3, <2>4, <3>1
    <3>4. from <= a <=> start <= a /\ LOW_MEMORY_RESERVED_BYTES <= a
      BY <1>4, <3>2
    <3>5. z <= to <=> z <= end /\ z <= T
      BY <1>4, <3>2
    <3>6. p \in R <=> lo <= p /\ p < hi
      BY <2>7, <3>1
    <3> HIDE DEF a, z
    <3>7. p \in R <=> start <= a /\ LOW_MEMORY_RESERVED_BYTES <= a /\ z <= end
      BY <3>2, <3>3, <3>4, <3>5, <3>6
    <3> QED BY <3>7 DEF a, z
  <2> QED BY <2>8, <2>9
<1>8. ASSUME start >= end \/ from >= to
      PROVE  R \subseteq Pages /\ \A p \in Pages : p \in R <=> In(p)
  <2>1. R = {}
    BY <1>3, <1>8
  <2> QED BY <1>6, <1>8, <2>1
<1> QED BY <1>7, <1>8 DEF R
\* reserve_range(0, bitmap_end) takes the pages below the end of the bitmap.
LEMMA ReservesKernel ==
  ASSUME pmm_total_memory_bytes \in TOTALS, NEW p \in Pages
  PROVE  p \in RangeToReserve(0, bitmap_end) <=> p * PAGE_SIZE < LowEnd
<1> DEFINE e == bitmap_end
           n == pmm_total_pages
           u == align_up(e) \div PAGE_SIZE
           a == p * PAGE_SIZE
<1>1. /\ LowEnd \in Nat /\ e \in Nat /\ e + PAGE_SIZE <= WORD
      /\ \A q \in Int : e <= q * PAGE_SIZE <=> LowEnd <= q * PAGE_SIZE
  BY KernelEnd
<1>2. n \in Nat /\ p \in Nat /\ p < n /\ PAGE_SIZE \in Nat \ {0} /\ p \in Int
  BY PagesInside, Sizes
<1>3. a \in Nat /\ (e <= a <=> LowEnd <= a)
  BY <1>1, <1>2
<1>4. align_down(0) \div PAGE_SIZE = 0
  <2>1. align_down(0) \div PAGE_SIZE = 0 \div PAGE_SIZE
    BY RoundDown
  <2>2. 0 = PAGE_SIZE * 0 + 0 /\ 0 \in 0 .. PAGE_SIZE - 1 /\ 0 \in Nat /\ 0 \in Int
    BY <1>2
  <2>3. 0 \div PAGE_SIZE = 0
    BY <1>2, <2>2, QuotientUnique
  <2> QED BY <2>1, <2>3
<1>5. RangeToReserve(0, e) = IF 0 >= e THEN {} ELSE 0 .. Lesser(u, n) - 1
  BY <1>4 DEF RangeToReserve
<1> HIDE DEF e
<1>6. u <= p <=> e <= a
  BY <1>1, <1>2, RoundUp
<1>7. u \in Nat
  <2> DEFINE m == align_up(e)
  <2>1. m \in Nat
    BY <1>1, RoundUp
  <2> HIDE DEF m
  <2>2. m \div PAGE_SIZE \in Nat
    BY <1>2, <2>1, Division
  <2> QED BY <2>2 DEF m
<1> HIDE DEF u, n, a
<1>8. p \in RangeToReserve(0, e) <=> a < LowEnd
  BY <1>1, <1>2, <1>3, <1>5, <1>6, <1>7 DEF Lesser
<1> QED BY <1>8 DEF a, e

\* Region r of the memory map covers the page p.
Covers(r, p) == r[1] <= p * PAGE_SIZE /\ (p + 1) * PAGE_SIZE <= r[1] + r[2]

\* The reference definition looks at every byte; the ends are enough.
LEMMA UsableByEnds ==
  ASSUME pmm_total_memory_bytes \in TOTALS, NEW p \in Pages,
         \A r \in regions : r[1] \in Nat /\ r[2] \in Nat
  PROVE  Usable(p) <=> /\ LOW_MEMORY_RESERVED_BYTES <= p * PAGE_SIZE
                       /\ LowEnd <= p * PAGE_SIZE
                       /\ \E r \in regions : Covers(r, p)
<1> DEFINE T == pmm_total_memory_bytes
           a == p * PAGE_SIZE
           z == (p + 1) * PAGE_SIZE
           B == BytesOf(p)
<1>1. p \in Nat /\ T \in Nat /\ PAGE_SIZE \in Nat \ {0} /\ LOW_MEMORY_RESERVED_BYTES \in Nat
  BY PagesInside, Sizes
<1>2. a \in Nat /\ z = a + PAGE_SIZE /\ z <= T
  BY <1>1, PagesInside
<1>3. B = a .. z - 1
  BY DEF BytesOf
<1>4. LowEnd \in Nat
  BY KernelEnd
<1>5. Usable(p) <=> /\ \A b \in B : b < T /\ b >= LOW_MEMORY_RESERVED_BYTES /\ b >= LowEnd
                    /\ \E r \in regions : B \subseteq r[1] .. r[1] + r[2] - 1
  BY DEF Usable, LowEnd
<1>6. \A r \in regions : Covers(r, p) <=> r[1] <= a /\ z <= r[1] + r[2]
  BY DEF Covers
<1> HIDE DEF a, z, B, T
<1>7. ASSUME NEW r \in regions
      PROVE  B \subseteq r[1] .. r[1] + r[2] - 1 <=> Covers(r, p)
  <2>1. r[1] \in Nat /\ r[2] \in Nat
    OBVIOUS
  <2> DEFINE x == r[1]
             y == r[1] + r[2] - 1
  <2>2. x \in Int /\ y \in Int
    BY <2>1
  <2>3. Covers(r, p) <=> x <= a /\ z - 1 <= y
    BY <1>1, <1>2, <1>6, <2>1
  <2> HIDE DEF x, y
  <2>4. B \subseteq x .. y <=> x <= a /\ z - 1 <= y
    <3>1. a \in B /\ z - 1 \in B
      BY <1>1, <1>2, <1>3
    <3>2. ASSUME B \subseteq x .. y PROVE x <= a /\ z - 1 <= y
      <4>1. a \in x .. y /\ z - 1 \in x .. y
        BY <3>1, <3>2
      <4> QED BY <1>1, <1>2, <2>2, <4>1
    <3>3. ASSUME x <= a /\ z - 1 <= y, NEW b \in B PROVE b \in x .. y
      BY <1>1, <1>2, <1>3, <2>2, <3>3
    <3> QED BY <3>2, <3>3
  <2> QED BY <2>3, <2>4 DEF x, y
<1>8. (\A b \in B : b < T /\ b >= LOW_MEMORY_RESERVED_BYTES /\ b >= LowEnd)
        <=> LOW_MEMORY_RESERVED_BYTES <= a /\ LowEnd <= a
  <2>1. a \in B
    BY <1>1, <1>2, <1>3
  <2> QED BY <1>1, <1>2, <1>3, <1>4, <2>1
<1>9. Usable(p) <=> /\ LOW_MEMORY_RESERVED_BYTES <= a /\ LowEnd <= a
                    /\ \E r \in regions : Covers(r, p)
  BY <1>5, <1>7, <1>8
<1> QED BY <1>9 DEF a

-----------------------------------------------------------------------------
(* The allocator.                                                          *)

\* Clearing the bits of S adds those that were set to the clear ones.
LEMMA CountFreed ==
  ASSUME NEW P, IsFiniteSet(P), NEW B \in SUBSET P, NEW S \in SUBSET P
  PROVE  /\ Cardinality(P \ (B \ S)) = Cardinality(P \ B) + Cardinality(S \cap B)
         /\ Cardinality(P \ B) \in Nat /\ Cardinality(S \cap B) \in Nat
<1> DEFINE X == P \ B
           Y == S \cap B
           Z == P \ (B \ S)
<1>1. IsFiniteSet(X) /\ IsFiniteSet(Y) /\ Z = X \cup Y /\ X \cap Y = {}
  <2>1. X \in SUBSET P /\ Y \in SUBSET P
    OBVIOUS
  <2>2. IsFiniteSet(X) /\ IsFiniteSet(Y)
    <3> HIDE DEF X, Y
    <3> QED BY <2>1, FS_Subset
  <2> QED BY <2>2
<1> HIDE DEF X, Y, Z
<1>2. Cardinality(X \cup Y) = Cardinality(X) + Cardinality(Y) - Cardinality(X \cap Y)
  BY <1>1, FS_Union
<1>3. Cardinality(X) \in Nat /\ Cardinality(Y) \in Nat /\ Cardinality(X \cap Y) = 0
  BY <1>1, FS_CardinalityType, FS_EmptySet
<1>4. Cardinality(Z) = Cardinality(X) + Cardinality(Y)
  BY <1>1, <1>2, <1>3
<1> QED BY <1>3, <1>4 DEF X, Y, Z

\* Setting clear bits takes them from the clear ones.
LEMMA CountReserved ==
  ASSUME NEW P, IsFiniteSet(P), NEW B \in SUBSET P, NEW S \in SUBSET (P \ B)
  PROVE  /\ Cardinality(P \ (B \cup S)) = Cardinality(P \ B) - Cardinality(S)
         /\ Cardinality(P \ B) \in Nat /\ Cardinality(S) \in Nat /\ Cardinality(S) <= Cardinality(P \ B)
<1> DEFINE X == P \ B
<1>1. P \ (B \cup S) = X \ S /\ X \cap S = S /\ X \in SUBSET P
  OBVIOUS
<1> HIDE DEF X
<1>2. IsFiniteSet(X)
  BY <1>1, FS_Subset
<1>3. S \in SUBSET X
  BY DEF X
<1>4. IsFiniteSet(S) /\ Cardinality(S) <= Cardinality(X)
  BY <1>2, <1>3, FS_Subset
<1>5. Cardinality(X \ S) = Cardinality(X) - Cardinality(X \cap S)
  BY <1>2, FS_Difference
<1>6. Cardinality(X) \in Nat /\ Cardinality(S) \in Nat
  BY <1>2, <1>4, FS_CardinalityType
<1> QED BY <1>1, <1>4, <1>5, <1>6 DEF X

\* The part of a state that the allocator owns.
AllocState(m) == m.bitmap \in SUBSET Pages /\ m.held \in SUBSET Pages
                   /\ m.free_pages \in Nat /\ m.free_pages = Cardinality(Pages \ m.bitmap)

Memories == [bitmap : SUBSET Pages, free_pages : Nat, held : SUBSET Pages]

\* free_page and reserve_page keep the count exact.
LEMMA CountKept ==
  ASSUME pmm_total_memory_bytes \in TOTALS, NEW m \in Memories, AllocState(m), NEW S
  PROVE  /\ S \in SUBSET Pages =>
              /\ free_page(m, S) \in Memories /\ AllocState(free_page(m, S))
              /\ free_page(m, S).bitmap = m.bitmap \ S /\ free_page(m, S).held = m.held
         /\ /\ reserve_page(m, S) \in Memories /\ AllocState(reserve_page(m, S))
            /\ reserve_page(m, S).bitmap = m.bitmap \cup (S \cap Pages)
            /\ reserve_page(m, S).held = m.held
<1>1. IsFiniteSet(Pages)
  BY PagesInside
<1>2. ASSUME S \in SUBSET Pages
      PROVE  /\ free_page(m, S) \in Memories /\ AllocState(free_page(m, S))
             /\ free_page(m, S).bitmap = m.bitmap \ S /\ free_page(m, S).held = m.held
  <2> DEFINE c == Cardinality(S \cap m.bitmap)
  <2>1. /\ Cardinality(Pages \ (m.bitmap \ S)) = Cardinality(Pages \ m.bitmap) + c
        /\ Cardinality(Pages \ m.bitmap) \in Nat /\ c \in Nat
    BY <1>1, <1>2, CountFreed DEF AllocState
  <2>2. free_page(m, S) = [m EXCEPT !.bitmap = m.bitmap \ S, !.free_pages = m.free_pages + c]
    BY DEF free_page
  <2> HIDE DEF c
  <2>3. free_page(m, S) = [bitmap |-> m.bitmap \ S, free_pages |-> m.free_pages + c, held |-> m.held]
    BY <2>2 DEF Memories
  <2> QED BY <2>1, <2>3 DEF AllocState, Memories
<1>3. /\ reserve_page(m, S) \in Memories /\ AllocState(reserve_page(m, S))
      /\ reserve_page(m, S).bitmap = m.bitmap \cup (S \cap Pages)
      /\ reserve_page(m, S).held = m.held
  <2> DEFINE R == S \cap (Pages \ m.bitmap)
             c == Cardinality(R)
             B == m.bitmap \cup R
             f == Greater(0, m.free_pages - c)
  <2>1. R \in SUBSET (Pages \ m.bitmap) /\ m.bitmap \in SUBSET Pages
    BY DEF AllocState
  <2>2. reserve_page(m, S) = [m EXCEPT !.bitmap = B, !.free_pages = f]
    BY DEF reserve_page, Pages
  <2>3. B = m.bitmap \cup (S \cap Pages) /\ B \in SUBSET Pages
    BY <2>1
  <2>4. /\ Cardinality(Pages \ B) = Cardinality(Pages \ m.bitmap) - c
        /\ Cardinality(Pages \ m.bitmap) \in Nat /\ c \in Nat /\ c <= Cardinality(Pages \ m.bitmap)
    <3> HIDE DEF R
    <3> QED BY <1>1, <2>1, CountReserved
  <2>5. f \in Nat /\ f = Cardinality(Pages \ B)
    <3> HIDE DEF c, B
    <3> QED BY <2>4 DEF AllocState, Greater
  <2> HIDE DEF B, f
  <2>6. reserve_page(m, S) = [bitmap |-> B, free_pages |-> f, held |-> m.held]
    BY <2>2 DEF Memories
  <2> QED BY <2>3, <2>5, <2>6 DEF AllocState, Memories
<1> QED BY <1>2, <1>3

\* The regions of the memory map are ranges of addresses.
RegionsTyped == \A r \in regions : r[1] \in Nat /\ r[2] \in Nat

\* What the map made free, until the kernel is reserved.
FreedByMap ==
  /\ held = {}
  /\ \A p \in Pages : p \notin pmm_bitmap <=>
       LOW_MEMORY_RESERVED_BYTES <= p * PAGE_SIZE /\ \E r \in regions : Covers(r, p)

PmmInv == AllocatorExact /\ RegionsTyped /\ (phase # "ready" => FreedByMap)

\* The initial state of the allocator.
LEMMA PmmStart == PmmInit => PmmInv /\ held = {} /\ phase = "map"
<1> SUFFICES ASSUME PmmInit PROVE PmmInv /\ held = {} /\ phase = "map"
  OBVIOUS
<1>1. PmmTypeOK
  BY DEF PmmInit, PmmTypeOK
<1>2. FreeCountExact
  <2>1. PagesIn(pmm_total_memory_bytes) \ pmm_bitmap = {}
    BY DEF PmmInit
  <2> QED BY <2>1, FS_EmptySet DEF PmmInit, FreeCountExact
<1> QED BY <1>1, <1>2 DEF PmmInit, PmmInv, AllocatorExact, ExactlyUsable, RegionsTyped, FreedByMap, Pages

\* The allocator's state as a record.
LEMMA MemoryTyped ==
  ASSUME PmmInv
  PROVE  /\ pmm_total_memory_bytes \in TOTALS
         /\ Memory \in Memories /\ AllocState(Memory)
         /\ Memory.bitmap = pmm_bitmap /\ Memory.held = held
BY DEF PmmInv, AllocatorExact, PmmTypeOK, FreeCountExact, Memory, Memories, AllocState, Pages

\* A step to a well-formed memory in the same machine.
LEMMA BootTyped ==
  ASSUME PmmInv, NEW m \in Memories, AllocState(m), Becomes(m),
         UNCHANGED pmm_total_memory_bytes, phase' \in {"map", "reserve", "ready"}
  PROVE  PmmTypeOK' /\ FreeCountExact' /\ pmm_bitmap' = m.bitmap /\ held' = m.held
BY MemoryTyped DEF Becomes, PmmTypeOK, FreeCountExact, Memories, AllocState, Pages

\* An available entry of the memory map frees the pages it covers.
LEMMA MapEntryStep ==
  ASSUME PmmInv, NEW start \in STARTS, NEW length \in LENGTHS, MapEntry(start, length)
  PROVE  PmmInv' /\ held' = held /\ phase # "ready"
<1> DEFINE end == (start + length) % WORD
           R == RangeToFree(start, end)
           m == free_page(Memory, R)
           r0 == <<start, length>>
<1>1. /\ start \in Nat /\ length \in Nat /\ start < WORD /\ length < WORD
      /\ WORD \in Nat \ {0} /\ PAGE_SIZE \in Nat \ {0}
  BY PmmAssumption
<1>2. /\ phase = "map" /\ end > start /\ Becomes(m) /\ regions' = regions \cup {r0}
      /\ UNCHANGED pmm_total_memory_bytes /\ UNCHANGED phase
  BY DEF MapEntry
<1>3. end = start + length
  <2>1. CASE start + length < WORD
    <3> DEFINE a == start + length
    <3>1. a \in Nat /\ a = WORD * 0 + a /\ a \in 0 .. WORD - 1
      BY <1>1, <2>1
    <3> HIDE DEF a
    <3>2. a % WORD = a
      BY <1>1, <3>1, QuotientUnique
    <3> QED BY <3>2 DEF a
  <2>2. CASE start + length >= WORD
    <3> DEFINE a == start + length
               b == start + length - WORD
    <3>1. a \in Nat /\ a = WORD * 1 + b /\ b \in 0 .. WORD - 1 /\ b < start
      BY <1>1, <2>2
    <3>2. end = a % WORD
      OBVIOUS
    <3> HIDE DEF a, b
    <3>3. a % WORD = b
      BY <1>1, <3>1, QuotientUnique
    <3> QED BY <1>1, <1>2, <3>1, <3>2, <3>3
  <2> QED BY <1>1, <2>1, <2>2
<1>4. end \in Nat
  BY <1>1, <1>3
<1> HIDE DEF end
<1>5. pmm_total_memory_bytes \in TOTALS /\ Memory \in Memories /\ AllocState(Memory)
      /\ Memory.bitmap = pmm_bitmap /\ Memory.held = held
  BY MemoryTyped
<1>6. /\ R \in SUBSET Pages
      /\ \A p \in Pages : p \in R <=> /\ start <= p * PAGE_SIZE
                                      /\ LOW_MEMORY_RESERVED_BYTES <= p * PAGE_SIZE
                                      /\ (p + 1) * PAGE_SIZE <= end
  BY <1>1, <1>4, <1>5, FreesWholePages
<1> HIDE DEF R
<1>7. m \in Memories /\ AllocState(m) /\ m.bitmap = pmm_bitmap \ R /\ m.held = held
  BY <1>5, <1>6, CountKept
<1> HIDE DEF m
<1>8. PmmTypeOK' /\ FreeCountExact' /\ pmm_bitmap' = pmm_bitmap \ R /\ held' = held
  BY <1>2, <1>7, BootTyped
<1>9. RegionsTyped'
  BY <1>1, <1>2 DEF PmmInv, RegionsTyped
<1>10. \A p \in Pages : Covers(r0, p) <=> start <= p * PAGE_SIZE /\ (p + 1) * PAGE_SIZE <= end
  BY <1>3 DEF Covers
<1>11. FreedByMap /\ held = {}
  BY <1>2 DEF PmmInv, FreedByMap
<1>12. ASSUME NEW p \in Pages
       PROVE  p \notin pmm_bitmap' <=>
                /\ LOW_MEMORY_RESERVED_BYTES <= p * PAGE_SIZE
                /\ \E r \in regions' : Covers(r, p)
  <2>1. p \notin pmm_bitmap <=>
          LOW_MEMORY_RESERVED_BYTES <= p * PAGE_SIZE /\ \E r \in regions : Covers(r, p)
    BY <1>11 DEF FreedByMap
  <2>2. p \in R <=> LOW_MEMORY_RESERVED_BYTES <= p * PAGE_SIZE /\ Covers(r0, p)
    BY <1>6, <1>10
  <2>3. (\E r \in regions' : Covers(r, p)) <=> (\E r \in regions : Covers(r, p)) \/ Covers(r0, p)
    BY <1>2
  <2>4. p \notin pmm_bitmap' <=> p \notin pmm_bitmap \/ p \in R
    BY <1>8
  <2> QED BY <2>1, <2>2, <2>3, <2>4
<1>13. FreedByMap'
  <2>1. Pages' = Pages
    BY <1>2 DEF Pages, PagesIn
  <2>2. \A r, p : Covers(r, p)' <=> Covers(r, p)
    BY DEF Covers
  <2> QED BY <1>8, <1>11, <1>12, <2>1, <2>2 DEF FreedByMap, Covers
<1> QED BY <1>2, <1>8, <1>9, <1>13 DEF PmmInv, AllocatorExact, ExactlyUsable

\* Without a memory map everything above the low memory is free.
LEMMA NoMapStep ==
  ASSUME PmmInv, NoMap
  PROVE  PmmInv' /\ held' = held /\ phase # "ready"
<1> DEFINE T == pmm_total_memory_bytes
           R == RangeToFree(LOW_MEMORY_RESERVED_BYTES, T)
           m == free_page(Memory, R)
           r0 == <<0, T>>
<1>1. /\ phase = "map" /\ regions = {} /\ Becomes(m) /\ regions' = {r0}
      /\ UNCHANGED pmm_total_memory_bytes /\ phase' = "reserve"
  BY DEF NoMap
<1>2. T \in TOTALS /\ Memory \in Memories /\ AllocState(Memory)
      /\ Memory.bitmap = pmm_bitmap /\ Memory.held = held
  BY MemoryTyped
<1>3. T \in Nat /\ LOW_MEMORY_RESERVED_BYTES \in Nat /\ PAGE_SIZE \in Nat \ {0}
  BY <1>2, Sizes
<1>4. /\ R \in SUBSET Pages
      /\ \A p \in Pages : p \in R <=> /\ LOW_MEMORY_RESERVED_BYTES <= p * PAGE_SIZE
                                      /\ (p + 1) * PAGE_SIZE <= T
  BY <1>2, <1>3, FreesWholePages
<1> HIDE DEF R
<1>5. m \in Memories /\ AllocState(m) /\ m.bitmap = pmm_bitmap \ R /\ m.held = held
  BY <1>2, <1>4, CountKept
<1> HIDE DEF m
<1>6. PmmTypeOK' /\ FreeCountExact' /\ pmm_bitmap' = pmm_bitmap \ R /\ held' = held
  BY <1>1, <1>5, BootTyped
<1>7. RegionsTyped'
  BY <1>1, <1>3 DEF RegionsTyped
<1>8. FreedByMap /\ held = {}
  BY <1>1 DEF PmmInv, FreedByMap
<1>9. ASSUME NEW p \in Pages
      PROVE  p \notin pmm_bitmap' <=>
                /\ LOW_MEMORY_RESERVED_BYTES <= p * PAGE_SIZE
                /\ \E r \in regions' : Covers(r, p)
  <2>1. p \in pmm_bitmap
    BY <1>1, <1>8 DEF FreedByMap
  <2>2. p \in Nat /\ p * PAGE_SIZE \in Nat /\ (p + 1) * PAGE_SIZE <= T
    BY <1>2, <1>3, PagesInside
  <2>3. Covers(r0, p)
    BY <1>3, <2>2 DEF Covers
  <2> QED BY <1>1, <1>4, <1>6, <2>1, <2>2, <2>3
<1>10. FreedByMap'
  <2>1. Pages' = Pages
    BY <1>1 DEF Pages, PagesIn
  <2> QED BY <1>6, <1>8, <1>9, <2>1 DEF FreedByMap, Covers
<1> QED BY <1>1, <1>6, <1>7, <1>10 DEF PmmInv, AllocatorExact, ExactlyUsable

\* What is usable depends on the map and the size of the memory.
LEMMA UsableSame ==
  ASSUME UNCHANGED <<pmm_total_memory_bytes, regions>>
  PROVE  /\ Pages' = Pages /\ LowEnd' = LowEnd /\ bitmap_end' = bitmap_end
         /\ \A p : Usable(p)' <=> Usable(p)
BY DEF Pages, PagesIn, LowEnd, bitmap_end, pmm_bitmap_bytes, pmm_total_pages, Usable, BytesOf, align_up, align_down

\* Reserving the kernel leaves the usable pages.
LEMMA ReserveKernelStep ==
  ASSUME PmmInv, ReserveKernel
  PROVE  PmmInv' /\ held' = held /\ phase # "ready" /\ phase' = "ready"
<1> DEFINE R == RangeToReserve(0, bitmap_end)
           m == reserve_page(Memory, R)
<1>1. /\ phase \in {"map", "reserve"} /\ Becomes(m) /\ phase' = "ready"
      /\ UNCHANGED pmm_total_memory_bytes /\ UNCHANGED regions
  BY DEF ReserveKernel
<1>2. pmm_total_memory_bytes \in TOTALS /\ Memory \in Memories /\ AllocState(Memory)
      /\ Memory.bitmap = pmm_bitmap /\ Memory.held = held
  BY MemoryTyped
<1>3. \A p \in Pages : p \in R <=> p * PAGE_SIZE < LowEnd
  BY <1>2, ReservesKernel
<1> HIDE DEF R
<1>4. m \in Memories /\ AllocState(m) /\ m.bitmap = pmm_bitmap \cup (R \cap Pages) /\ m.held = held
  BY <1>2, CountKept
<1> HIDE DEF m
<1>5. PmmTypeOK' /\ FreeCountExact' /\ pmm_bitmap' = pmm_bitmap \cup (R \cap Pages) /\ held' = held
  BY <1>1, <1>4, BootTyped
<1>6. RegionsTyped /\ RegionsTyped' /\ FreedByMap /\ held = {}
  BY <1>1 DEF PmmInv, RegionsTyped, FreedByMap
<1>7. ASSUME NEW p \in Pages
      PROVE  p \notin pmm_bitmap' <=> Usable(p)
  <2>1. p \notin pmm_bitmap <=>
          LOW_MEMORY_RESERVED_BYTES <= p * PAGE_SIZE /\ \E r \in regions : Covers(r, p)
    BY <1>6 DEF FreedByMap
  <2>2. Usable(p) <=> /\ LOW_MEMORY_RESERVED_BYTES <= p * PAGE_SIZE
                      /\ LowEnd <= p * PAGE_SIZE
                      /\ \E r \in regions : Covers(r, p)
    BY <1>2, <1>6, UsableByEnds DEF RegionsTyped
  <2>3. p \notin pmm_bitmap' <=> p \notin pmm_bitmap /\ ~(p * PAGE_SIZE < LowEnd)
    BY <1>3, <1>5
  <2>4. ~(p * PAGE_SIZE < LowEnd) <=> LowEnd <= p * PAGE_SIZE
    <3>1. p \in Nat /\ PAGE_SIZE \in Nat /\ LowEnd \in Nat
      BY <1>2, PagesInside, KernelEnd, Sizes
    <3>2. p * PAGE_SIZE \in Nat
      BY <3>1
    <3> QED BY <3>1, <3>2
  <2> QED BY <2>1, <2>2, <2>3, <2>4
<1>8. ExactlyUsable'
  <2>1. Pages' = Pages /\ \A p : Usable(p)' <=> Usable(p)
    BY <1>1, UsableSame
  <2> QED BY <1>5, <1>6, <1>7, <2>1 DEF ExactlyUsable, Pages
<1> QED BY <1>1, <1>5, <1>6, <1>8 DEF PmmInv, AllocatorExact

-----------------------------------------------------------------------------
(* States of the two managers, and the allocator's steps on them.          *)

\* An entry is empty, or names a page of the memory.
EntrySet ==
  {e \in [present : BOOLEAN, frame : Nat, user : BOOLEAN, accessed : BOOLEAN] :
     (e.present => e.frame \in Pages) /\ (~e.present => e = NoEntry)}
Rows == [Indexes -> EntrySet]
Tables == [Pages -> Rows]
MemStates == [bitmap : SUBSET Pages, free_pages : Nat, held : SUBSET Pages,
              tables : Tables, tlb : SUBSET (Nat \X Pages), ok : BOOLEAN]

Machine == pmm_total_memory_bytes \in TOTALS /\ RegionsTyped

\* The state of the allocator in s is exact.
Good(s) ==
  /\ s \in MemStates
  /\ s.free_pages = Cardinality(Pages \ s.bitmap) /\ s.held \subseteq s.bitmap
  /\ \A p \in Pages : (p \notin s.bitmap \/ p \in s.held) <=> Usable(p)

\* r is s after one page was taken, or pages were given back.
Takes(r, s, p) ==
  /\ Good(r) /\ p \in Pages /\ p \notin s.held
  /\ r.held = s.held \cup {p} /\ r.tables = [s.tables EXCEPT ![p] = Cleared]
  /\ r.tlb = s.tlb /\ r.ok = s.ok
Gives(r, s, S) ==
  /\ Good(r) /\ r.held = s.held \ S
  /\ r.tables = s.tables /\ r.tlb = s.tlb /\ r.ok = s.ok

\* The first page of a set exists.
LEMMA FirstExists ==
  ASSUME NEW S \in SUBSET Nat, S # {}
  PROVE  First(S) \in S
<1>1. \E x \in S : \A y \in S : x <= y
  BY LeastNatural
<1> QED BY <1>1 DEF First

\* Empty entries and rows are well formed.
LEMMA EmptyRows ==
  /\ NoEntry \in EntrySet /\ NoEntry.present = FALSE /\ NoEntry.frame = 0
  /\ Cleared \in Rows /\ \A i \in Indexes : Cleared[i] = NoEntry
<1>1. NoEntry \in EntrySet /\ NoEntry.present = FALSE /\ NoEntry.frame = 0
  BY DEF NoEntry, EntrySet
<1> QED BY <1>1 DEF Cleared, Rows

\* Page 0 holds the kernel or its bitmap.
LEMMA ZeroUnusable ==
  ASSUME Machine, NEW p \in Pages, Usable(p)
  PROVE  p # 0 /\ p \in Nat /\ ~(p * PAGE_SIZE < bitmap_end)
<1>1. /\ LowEnd \in Nat /\ bitmap_end \in Nat /\ pmm_bitmap_bytes \in Nat
      /\ pmm_total_pages > 0 => pmm_bitmap_bytes > 0
      /\ \A q \in Int : bitmap_end <= q * PAGE_SIZE <=> LowEnd <= q * PAGE_SIZE
  BY KernelEnd DEF Machine
<1>2. p \in Nat /\ pmm_total_pages \in Nat /\ pmm_total_pages > 0 /\ PAGE_SIZE \in Nat \ {0}
  <2>1. pmm_total_memory_bytes \in TOTALS
    BY DEF Machine
  <2>2. pmm_total_pages \in Nat /\ Pages = 0 .. pmm_total_pages - 1
    BY <2>1, PagesInside
  <2>3. p \in Nat /\ pmm_total_pages > 0
    BY <2>2
  <2>4. PAGE_SIZE \in Nat \ {0}
    BY Sizes
  <2> QED BY <2>2, <2>3, <2>4
<1>3. LowEnd <= p * PAGE_SIZE
  BY UsableByEnds DEF Machine, RegionsTyped
<1>4. bitmap_end <= p * PAGE_SIZE /\ p * PAGE_SIZE \in Nat
  BY <1>1, <1>2, <1>3
<1>5. LowEnd > 0
  <2>1. align_up(KERNEL_END) \in Nat
    <3>1. KERNEL_END + PAGE_SIZE <= WORD /\ KERNEL_END \in Nat
      <4> DEFINE b == ((pmm_total_memory_bytes \div PAGE_SIZE) + 7) \div 8
      <4>1. b = pmm_bitmap_bytes
        BY DEF pmm_bitmap_bytes, pmm_total_pages
      <4>2. KERNEL_END + b + 3 * PAGE_SIZE <= WORD /\ KERNEL_END \in Nat /\ WORD \in Nat
        BY Sizes DEF Machine
      <4> HIDE DEF b
      <4> QED BY <1>1, <1>2, <4>1, <4>2
    <3> QED BY <3>1, RoundUp
  <2> QED BY <1>1, <1>2, <2>1 DEF LowEnd
<1>6. p # 0
  BY <1>1, <1>2, <1>3, <1>5
<1> QED BY <1>1, <1>2, <1>4, <1>6

\* pmm_alloc_page with the clearing of the page takes a free page.
LEMMA FreshTakes ==
  ASSUME Machine, NEW s, Good(s), FreeOf(s) # {}
  PROVE  Takes(Fresh(s), s, First(FreeOf(s))) /\ Usable(First(FreeOf(s)))
<1> DEFINE p == First(FreeOf(s))
           S == {p}
           R == S \cap (Pages \ s.bitmap)
           f == Greater(0, s.free_pages - Cardinality(R))
           t == [s.tables EXCEPT ![p] = Cleared]
           a == pmm_alloc_page(s)
<1>1. s \in MemStates /\ IsFiniteSet(Pages) /\ Pages \subseteq Nat
  BY PagesInside DEF Good, Machine
<1>2. p \in Pages /\ p \notin s.bitmap
  <2>1. FreeOf(s) \in SUBSET Nat /\ FreeOf(s) = Pages \ s.bitmap
    BY <1>1 DEF FreeOf, Pages
  <2>2. p \in FreeOf(s)
    BY <2>1, FirstExists
  <2> QED BY <2>1, <2>2
<1>3. reserve_page(s, S) = [s EXCEPT !.bitmap = s.bitmap \cup R, !.free_pages = f]
  BY DEF reserve_page, Pages
<1>4. a = [reserve_page(s, S) EXCEPT !.held = @ \cup {p}]
  BY DEF pmm_alloc_page
<1> HIDE DEF p
<1>5. R = {p}
  BY <1>2
<1>6. Cardinality(R) = 1
  BY <1>5, FS_Singleton
<1>7. /\ Cardinality(Pages \ (s.bitmap \cup R)) = Cardinality(Pages \ s.bitmap) - Cardinality(R)
      /\ Cardinality(Pages \ s.bitmap) \in Nat /\ Cardinality(R) <= Cardinality(Pages \ s.bitmap)
  <2>1. R \in SUBSET (Pages \ s.bitmap) /\ s.bitmap \in SUBSET Pages
    BY <1>1, <1>2, <1>5 DEF MemStates
  <2> HIDE DEF R
  <2> QED BY <1>1, <2>1, CountReserved
<1>8. f \in Nat /\ f = Cardinality(Pages \ (s.bitmap \cup R))
  <2> HIDE DEF R
  <2> QED BY <1>6, <1>7 DEF Good, Greater
<1> DEFINE B == s.bitmap \cup R
<1>9. B = s.bitmap \cup {p} /\ B \in SUBSET Pages /\ f = Cardinality(Pages \ B)
  BY <1>1, <1>2, <1>5, <1>8 DEF MemStates
<1>10. a = [s EXCEPT !.bitmap = B, !.free_pages = f, !.held = s.held \cup {p}]
  <2> HIDE DEF B, f, R
  <2> QED BY <1>1, <1>3, <1>4 DEF MemStates, B
<1> HIDE DEF B, f, R, a
<1>11. a = [bitmap |-> B, free_pages |-> f, held |-> s.held \cup {p},
            tables |-> s.tables, tlb |-> s.tlb, ok |-> s.ok]
  BY <1>1, <1>10 DEF MemStates
<1>12. Fresh(s) = [a EXCEPT !.tables = [a.tables EXCEPT ![p] = Cleared]]
  BY DEF Fresh, a, p
<1>13. Fresh(s) = [bitmap |-> B, free_pages |-> f, held |-> s.held \cup {p},
                   tables |-> t, tlb |-> s.tlb, ok |-> s.ok]
  BY <1>11, <1>12
<1>14. t \in Tables
  BY <1>1, <1>2, EmptyRows DEF MemStates, Tables
<1> HIDE DEF t
<1>15. Fresh(s) \in MemStates
  BY <1>1, <1>2, <1>8, <1>9, <1>13, <1>14 DEF MemStates
<1>16. Usable(p) /\ p \notin s.held
  BY <1>2 DEF Good
<1>17. Good(Fresh(s))
  BY <1>2, <1>8, <1>9, <1>13, <1>15, <1>16 DEF Good
<1>18. Takes(Fresh(s), s, p)
  BY <1>2, <1>13, <1>16, <1>17 DEF Takes, t
<1> QED BY <1>16, <1>18 DEF p

\* Giving back pages that are held.
LEMMA FreeGives ==
  ASSUME Machine, NEW s, Good(s), NEW S \in SUBSET s.held
  PROVE  /\ Gives([free_page(s, S) EXCEPT !.held = @ \ S], s, S)
         /\ Gives(FreeAll(s, S), s, S)
         /\ \A p \in S : S = {p} => Gives(pmm_free_page(s, p), s, S)
<1> DEFINE c == Cardinality(S \cap s.bitmap)
           f == s.free_pages + c
           B == s.bitmap \ S
           r == [free_page(s, S) EXCEPT !.held = @ \ S]
<1>1. s \in MemStates /\ IsFiniteSet(Pages)
  BY PagesInside DEF Good, Machine
<1>2. S \in SUBSET Pages /\ s.bitmap \in SUBSET Pages
  BY <1>1 DEF MemStates
<1>3. /\ Cardinality(Pages \ (s.bitmap \ S)) = Cardinality(Pages \ s.bitmap) + c
      /\ Cardinality(Pages \ s.bitmap) \in Nat /\ c \in Nat
  BY <1>1, <1>2, CountFreed
<1>4. free_page(s, S) = [s EXCEPT !.bitmap = B, !.free_pages = f]
  BY DEF free_page
<1>5. f \in Nat /\ f = Cardinality(Pages \ B) /\ B \in SUBSET Pages
  <2> HIDE DEF c
  <2> QED BY <1>2, <1>3 DEF Good
<1>6. \A p : p \in B <=> p \in s.bitmap /\ p \notin S
  OBVIOUS
<1> HIDE DEF B, f
<1>7. r = [bitmap |-> B, free_pages |-> f, held |-> s.held \ S,
           tables |-> s.tables, tlb |-> s.tlb, ok |-> s.ok]
  <2> DEFINE g == free_page(s, S)
  <2> HIDE DEF g
  <2>1. g = [bitmap |-> B, free_pages |-> f, held |-> s.held,
             tables |-> s.tables, tlb |-> s.tlb, ok |-> s.ok]
    BY <1>1, <1>4 DEF MemStates, g
  <2>2. r = [g EXCEPT !.held = g.held \ S]
    BY DEF g
  <2> HIDE DEF r
  <2> QED BY <2>1, <2>2
<1>8. r \in MemStates
  BY <1>1, <1>5, <1>7 DEF MemStates
<1>9. \A p \in S : Usable(p)
  BY <1>2 DEF Good
<1> HIDE DEF r
<1>10. Gives(r, s, S)
  BY <1>5, <1>6, <1>7, <1>8, <1>9 DEF Good, Gives
<1>11. {p \in S : p * PAGE_SIZE >= bitmap_end} = S
  <2>1. ASSUME NEW p \in S PROVE p * PAGE_SIZE >= bitmap_end
    <3>1. p \in Nat /\ ~(p * PAGE_SIZE < bitmap_end) /\ PAGE_SIZE \in Nat /\ bitmap_end \in Nat
      BY <1>2, <1>9, ZeroUnusable, Sizes, KernelEnd DEF Machine
    <3>2. p * PAGE_SIZE \in Nat
      BY <3>1
    <3> QED BY <3>1, <3>2
  <2> QED BY <2>1
<1>12. FreeAll(s, S) = r
  BY <1>11 DEF FreeAll, r
<1>13. ASSUME NEW p \in S, S = {p} PROVE pmm_free_page(s, p) = r
  <2>1. ~(p * PAGE_SIZE < bitmap_end)
    BY <1>2, <1>9, ZeroUnusable
  <2> QED BY <1>13, <2>1 DEF pmm_free_page, r
<1> QED BY <1>10, <1>12, <1>13 DEF r

-----------------------------------------------------------------------------
(* Directory and table indexes of a virtual page.                          *)

Base == phys_to_virt(0)
AllVirt == 0 .. PAGE_TABLE_ENTRIES * PAGE_TABLE_ENTRIES - 1
UserVirt == 0 .. Base - 1
KernelVirt == Base .. PAGE_TABLE_ENTRIES * PAGE_TABLE_ENTRIES - 1
UserIdx == {i \in Indexes : ~IsShared(i)}
SharedIdx == {i \in Indexes : IsShared(i)}

\* A virtual page is determined by its two indexes, and the first one tells
\* the kernel's part from the user's.
LEMMA Places ==
  /\ PAGE_TABLE_ENTRIES \in Nat \ {0} /\ Base \in Nat
  /\ AllVirt \subseteq Nat /\ UserVirt \subseteq AllVirt /\ KernelVirt \subseteq AllVirt
  /\ UserVirt \cap KernelVirt = {} /\ IsFiniteSet(UserVirt)
  /\ \A v \in AllVirt : page_directory_index(v) \in Indexes /\ page_table_index(v) \in Indexes
  /\ \A v \in UserVirt : page_directory_index(v) \in UserIdx
  /\ \A v \in KernelVirt : page_directory_index(v) \in SharedIdx
  /\ \A v, w \in AllVirt : page_directory_index(v) = page_directory_index(w)
                           /\ page_table_index(v) = page_table_index(w) => v = w
<1> DEFINE N == PAGE_TABLE_ENTRIES
           K == KERNEL_DIRECTORY_START
           M == N * N
<1>1. N \in Nat \ {0} /\ K \in 1 .. N - 1 /\ K \in Nat
  BY VmmAssumption
<1>2. Base = K * N
  BY <1>1 DEF Base, phys_to_virt
<1>3. K * N \in Nat /\ M \in Nat /\ K * N <= M
  <2>1. K <= N /\ 0 <= N => K * N <= N * N
    BY <1>1
  <2> QED BY <1>1, <2>1
<1>4. AllVirt = 0 .. M - 1 /\ UserVirt = 0 .. Base - 1 /\ KernelVirt = Base .. M - 1
  BY DEF AllVirt, UserVirt, KernelVirt
<1>5. \A v \in Nat : /\ page_directory_index(v) \in Nat /\ page_table_index(v) \in 0 .. N - 1
                     /\ v = N * page_directory_index(v) + page_table_index(v)
  BY <1>1, Division DEF page_directory_index, page_table_index
<1>6. \A v \in Nat : /\ page_directory_index(v) < N <=> v < M
                     /\ page_directory_index(v) < K <=> v < Base
  <2> TAKE v \in Nat
  <2>1. N - 1 \in Int /\ K - 1 \in Int
    BY <1>1
  <2>2. /\ v \div N <= N - 1 <=> v < (N - 1 + 1) * N
        /\ v \div N <= K - 1 <=> v < (K - 1 + 1) * N
    BY <1>1, <2>1, QuotientBound
  <2>3. N - 1 + 1 = N /\ K - 1 + 1 = K
    BY <1>1
  <2>4. (v \div N <= N - 1 <=> v < M) /\ (v \div N <= K - 1 <=> v < Base)
    BY <1>2, <2>2, <2>3
  <2>5. page_directory_index(v) = v \div N /\ page_directory_index(v) \in Nat
    BY <1>5 DEF page_directory_index
  <2> DEFINE q == v \div N
  <2> HIDE DEF q
  <2> QED BY <1>1, <2>4, <2>5 DEF q
<1>7. Indexes = 0 .. N - 1 /\ \A i \in Indexes : i \in UserIdx <=> i < K
  BY <1>1 DEF Indexes, UserIdx, IsShared
<1>8. \A i \in Indexes : i \in SharedIdx <=> ~(i < K)
  BY <1>1, <1>7 DEF SharedIdx, IsShared
<1> HIDE DEF N, K, M
<1>9. Base \in Nat /\ Base <= M /\ M \in Nat
  BY <1>2, <1>3
<1>10. AllVirt \subseteq Nat /\ UserVirt \subseteq AllVirt /\ KernelVirt \subseteq AllVirt
       /\ UserVirt \cap KernelVirt = {}
  BY <1>4, <1>9
<1>11. IsFiniteSet(UserVirt)
  <2>1. 0 \in Int /\ Base - 1 \in Int
    BY <1>9
  <2> QED BY <1>4, <2>1, FS_Interval
<1>12. \A v \in AllVirt : v \in Nat /\ v < M
  BY <1>4, <1>9
<1>13. \A v \in AllVirt : page_directory_index(v) \in Indexes /\ page_table_index(v) \in Indexes
  <2> TAKE v \in AllVirt
  <2> DEFINE q == page_directory_index(v)
  <2>1. q \in Nat /\ q < N /\ page_table_index(v) \in 0 .. N - 1
    BY <1>5, <1>6, <1>12
  <2> HIDE DEF q
  <2>2. q \in Indexes /\ page_table_index(v) \in Indexes
    BY <1>1, <1>7, <2>1
  <2> QED BY <2>2 DEF q
<1>14. \A v \in UserVirt : page_directory_index(v) \in UserIdx
  <2>1. \A v \in UserVirt : v \in AllVirt /\ v \in Nat /\ v < Base
    BY <1>4, <1>9, <1>10
  <2> QED BY <1>6, <1>7, <1>13, <2>1
<1>15. \A v \in KernelVirt : page_directory_index(v) \in SharedIdx
  <2>1. \A v \in KernelVirt : v \in AllVirt /\ v \in Nat /\ ~(v < Base)
    BY <1>4, <1>9, <1>10
  <2> QED BY <1>6, <1>8, <1>13, <2>1
<1>16. \A v, w \in AllVirt : page_directory_index(v) = page_directory_index(w)
                             /\ page_table_index(v) = page_table_index(w) => v = w
  BY <1>5, <1>12
<1> QED BY <1>1, <1>9, <1>10, <1>11, <1>13, <1>14, <1>15, <1>16 DEF N

\* The direct map has room for the whole memory.
LEMMA DirectMap ==
  ASSUME pmm_total_memory_bytes \in TOTALS
  PROVE  /\ \A p \in Pages : phys_to_virt(p) = Base + p /\ phys_to_virt(p) \in KernelVirt
         /\ pmm_total_pages \in Nat
<1> DEFINE N == PAGE_TABLE_ENTRIES
           K == KERNEL_DIRECTORY_START
           n == pmm_total_pages
<1>1. N \in Nat \ {0} /\ K \in 1 .. N - 1 /\ n <= (N - K) * N
  BY VmmAssumption DEF pmm_total_pages
<1>2. n \in Nat /\ Pages = 0 .. n - 1
  BY PagesInside
<1>3. Base = K * N /\ \A p \in Nat : phys_to_virt(p) = K * N + p
  BY <1>1 DEF Base, phys_to_virt
<1>4. KernelVirt = Base .. N * N - 1
  BY DEF KernelVirt
<1> HIDE DEF N, K, n
<1>5. (N - K) * N = N * N - K * N /\ K * N \in Nat /\ N * N \in Nat
  BY <1>1
<1> DEFINE a == K * N
           b == N * N
<1>6. a \in Nat /\ b \in Nat /\ n <= b - a /\ Base = a /\ KernelVirt = a .. b - 1
      /\ \A p \in Nat : phys_to_virt(p) = a + p
  BY <1>1, <1>3, <1>4, <1>5
<1> HIDE DEF a, b
<1> QED BY <1>2, <1>6 DEF n

-----------------------------------------------------------------------------
(* Who owns a page.  A page in use is a directory, the table of one user   *)
(* part of one directory, a table of the kernel, the page of one mapping,  *)
(* or spare: taken and not yet used, or no longer used and not yet given   *)
(* back.                                                                   *)

NoRole == <<"free", 0, 0>>
DirRole == <<"directory", 0, 0>>
SpareRole == <<"spare", 0, 0>>
TableRole(d, i) == <<"table", d, i>>
KernelRole(i) == <<"kernel", 0, i>>
PageRole(d, v) == <<"page", d, v>>

\* A role tells what the page is for.
LEMMA RolesDiffer ==
  /\ NoRole # DirRole /\ NoRole # SpareRole /\ DirRole # SpareRole
  /\ \A d, i : TableRole(d, i) \notin {NoRole, DirRole, SpareRole}
  /\ \A i : KernelRole(i) \notin {NoRole, DirRole, SpareRole}
  /\ \A d, v : PageRole(d, v) \notin {NoRole, DirRole, SpareRole}
  /\ \A d, i, j : TableRole(d, i) # KernelRole(j)
  /\ \A d, i, e, v : TableRole(d, i) # PageRole(e, v)
  /\ \A i, e, v : KernelRole(i) # PageRole(e, v)
  /\ \A d, i, e, j : TableRole(d, i) = TableRole(e, j) => d = e /\ i = j
  /\ \A d, v, e, w : PageRole(d, v) = PageRole(e, w) => d = e /\ v = w
  /\ \A i, j : KernelRole(i) = KernelRole(j) => i = j
BY DEF NoRole, DirRole, SpareRole, TableRole, KernelRole, PageRole

\* Every page in use has one role; L are the spare pages.
RolesExact(own, h, D, L, root) ==
  /\ root \in D /\ D \subseteq Pages /\ L \subseteq Pages
  /\ \A p \in Pages :
       /\ p \in h <=> own[p] # NoRole
       /\ p \in D <=> own[p] = DirRole
       /\ p \in L <=> own[p] = SpareRole
       /\ \/ own[p] \in {NoRole, DirRole, SpareRole}
          \/ \E d, i : own[p] = TableRole(d, i)
          \/ \E i : own[p] = KernelRole(i)
          \/ \E d, v : own[p] = PageRole(d, v)

\* The tables bear out every role.  Mappings in X do not count.
Backed(own, t, D, X, root) ==
  \A p \in Pages :
    /\ \A d, i : own[p] = TableRole(d, i) =>
         d \in D /\ i \in UserIdx /\ t[d][i].present /\ t[d][i].frame = p
    /\ \A i : own[p] = KernelRole(i) =>
         i \in SharedIdx /\ t[root][i].present /\ t[root][i].frame = p
    /\ \A d, v : own[p] = PageRole(d, v) =>
         /\ d \in D /\ v \in UserVirt /\ <<d, v>> \notin X
         /\ vmm_get_page_entry(t, d, v).present /\ vmm_get_page_entry(t, d, v).frame = p

\* Every reference in the tables is a role, and the kernel's part is the same
\* in all directories.
Referenced(own, t, D, X, root) ==
  /\ \A d \in D, i \in UserIdx : t[d][i].present =>
       t[d][i].frame \in Pages /\ own[t[d][i].frame] = TableRole(d, i)
  /\ \A i \in SharedIdx : t[root][i].present =>
       t[root][i].frame \in Pages /\ own[t[root][i].frame] = KernelRole(i)
  /\ \A d \in D, v \in UserVirt :
       vmm_get_page_entry(t, d, v).present /\ <<d, v>> \notin X =>
         /\ vmm_get_page_entry(t, d, v).frame \in Pages
         /\ own[vmm_get_page_entry(t, d, v).frame] = PageRole(d, v)
  /\ \A d \in D, i \in SharedIdx : t[d][i] = t[root][i]

Owned(own, t, h, D, X, L, root) ==
  RolesExact(own, h, D, L, root) /\ Backed(own, t, D, X, root) /\ Referenced(own, t, D, X, root)

\* The pages in use have such roles.
Laid(t, h, D, X, L, root) == \E own : Owned(own, t, h, D, X, L, root)

\* The first n pages of the memory are in the direct map and no others.
KernelMap(t, root, n) ==
  \A v \in KernelVirt :
    IF v < Base + n
    THEN /\ vmm_get_page_entry(t, root, v).present
         /\ vmm_get_page_entry(t, root, v).frame = v - Base
         /\ ~vmm_get_page_entry(t, root, v).user
    ELSE ~vmm_get_page_entry(t, root, v).present

\* An entry of a directory or a table.
LEMMA EntryFacts ==
  ASSUME NEW e \in EntrySet
  PROVE  /\ e.present \in BOOLEAN /\ e.frame \in Nat /\ e.user \in BOOLEAN /\ e.accessed \in BOOLEAN
         /\ e.present => e.frame \in Pages
         /\ ~e.present => e = NoEntry
BY DEF EntrySet

\* The entry of a virtual page, with and without its table.
LEMMA WalkFacts ==
  ASSUME NEW t \in Tables, NEW d \in Pages, NEW v \in AllVirt
  PROVE  /\ t[d][page_directory_index(v)] \in EntrySet
         /\ vmm_get_page_entry(t, d, v) \in EntrySet
         /\ HasTable(t, d, v) <=> t[d][page_directory_index(v)].present
         /\ HasTable(t, d, v) =>
              /\ t[d][page_directory_index(v)].frame \in Pages
              /\ vmm_get_page_entry(t, d, v)
                   = t[t[d][page_directory_index(v)].frame][page_table_index(v)]
         /\ ~HasTable(t, d, v) => vmm_get_page_entry(t, d, v) = NoEntry
<1> DEFINE i == page_directory_index(v)
           k == page_table_index(v)
<1>1. i \in Indexes /\ k \in Indexes
  BY Places
<1>2. t[d] \in Rows /\ t[d][i] \in EntrySet
  BY <1>1 DEF Tables, Rows
<1>3. HasTable(t, d, v) <=> t[d][i].present
  BY DEF HasTable
<1>4. ASSUME HasTable(t, d, v)
      PROVE  /\ t[d][i].frame \in Pages
             /\ vmm_get_page_entry(t, d, v) = t[t[d][i].frame][k]
             /\ t[t[d][i].frame][k] \in EntrySet
  <2>1. t[d][i].frame \in Pages
    BY <1>2, <1>3, <1>4, EntryFacts
  <2>2. t[t[d][i].frame] \in Rows
    BY <2>1 DEF Tables
  <2> QED BY <1>1, <1>4, <2>1, <2>2 DEF vmm_get_page_entry, Rows
<1>5. ~HasTable(t, d, v) => vmm_get_page_entry(t, d, v) = NoEntry
  BY DEF vmm_get_page_entry
<1> QED BY <1>2, <1>3, <1>4, <1>5, EmptyRows

\* The role of the table that entry i of directory d names.
TableFor(d, i) == IF i \in UserIdx THEN TableRole(d, i) ELSE KernelRole(i)

\* The table in a walk from a directory of the layout.
LEMMA TableOwner ==
  ASSUME NEW t \in Tables, NEW own, NEW h, NEW D, NEW X, NEW L, NEW root,
         Owned(own, t, h, D, X, L, root), NEW d \in D, NEW v \in AllVirt, HasTable(t, d, v)
  PROVE  /\ d \in Pages /\ t[d][page_directory_index(v)].frame \in Pages
         /\ own[t[d][page_directory_index(v)].frame] = TableFor(d, page_directory_index(v))
<1> DEFINE i == page_directory_index(v)
<1>1. d \in Pages
  BY DEF Owned, RolesExact, Backed, Referenced
<1>2. i \in Indexes /\ (i \in UserIdx \/ i \in SharedIdx)
  BY Places DEF UserIdx, SharedIdx
<1>3. t[d][i].present /\ t[d][i].frame \in Pages
  BY <1>1, WalkFacts
<1>4. i \in UserIdx => own[t[d][i].frame] = TableRole(d, i)
  BY <1>3 DEF Owned, RolesExact, Backed, Referenced
<1>5. i \in SharedIdx => own[t[d][i].frame] = KernelRole(i)
  <2> HAVE i \in SharedIdx
  <2>1. t[d][i] = t[root][i]
    BY DEF Owned, RolesExact, Backed, Referenced
  <2> QED BY <1>3, <2>1 DEF Owned, RolesExact, Backed, Referenced
<1>6. ~(i \in UserIdx /\ i \in SharedIdx)
  BY DEF UserIdx, SharedIdx
<1> QED BY <1>1, <1>2, <1>3, <1>4, <1>5, <1>6 DEF TableFor

\* The tables t2 look the same as t from the directories D.
SameWalks(t2, t, D) ==
  /\ \A d \in D : t2[d] = t[d]
  /\ \A d \in D, v \in AllVirt : vmm_get_page_entry(t2, d, v) = vmm_get_page_entry(t, d, v)

\* Tables that look the same from every directory have the same layout.
LEMMA SameViews ==
  ASSUME NEW t \in Tables, NEW t2 \in Tables, NEW own, NEW h, NEW D, NEW X, NEW L, NEW root,
         Owned(own, t, h, D, X, L, root), SameWalks(t2, t, D)
  PROVE  /\ Owned(own, t2, h, D, X, L, root)
         /\ \A n : KernelMap(t, root, n) => KernelMap(t2, root, n)
<1>1. root \in D /\ D \subseteq Pages /\ UserVirt \subseteq AllVirt /\ KernelVirt \subseteq AllVirt
  BY Places DEF Owned, RolesExact, Backed, Referenced
<1>2. \A v \in KernelVirt : vmm_get_page_entry(t2, root, v) = vmm_get_page_entry(t, root, v)
  BY <1>1 DEF SameWalks
<1>3. \A n : KernelMap(t, root, n) => KernelMap(t2, root, n)
  BY <1>2 DEF KernelMap
<1>4. \A d \in D, v \in UserVirt : vmm_get_page_entry(t2, d, v) = vmm_get_page_entry(t, d, v)
  BY <1>1 DEF SameWalks
<1>5. Backed(own, t2, D, X, root)
  BY <1>1, <1>4 DEF Owned, Backed, SameWalks
<1>6. Referenced(own, t2, D, X, root)
  BY <1>1, <1>4 DEF Owned, Referenced, SameWalks
<1>7. Owned(own, t2, h, D, X, L, root)
  BY <1>5, <1>6 DEF Owned
<1> QED BY <1>3, <1>7

\* What is written into a page without a role is not seen.
LEMMA WriteSpare ==
  ASSUME NEW t \in Tables, NEW t2 \in Tables, NEW own, NEW h, NEW D, NEW X, NEW L, NEW root,
         Owned(own, t, h, D, X, L, root), NEW S,
         \A p \in S : p \in Pages => own[p] \in {NoRole, SpareRole},
         \A p \in Pages : p \notin S => t2[p] = t[p]
  PROVE  SameWalks(t2, t, D)
<1>1. D \subseteq Pages
  BY DEF Owned, RolesExact, Backed, Referenced
<1>2. ASSUME NEW d \in D PROVE t2[d] = t[d]
  <2>1. own[d] = DirRole
    BY <1>1 DEF Owned, RolesExact, Backed, Referenced
  <2> QED BY <1>1, <2>1, RolesDiffer
<1>3. ASSUME NEW d \in D, NEW v \in AllVirt
      PROVE  vmm_get_page_entry(t2, d, v) = vmm_get_page_entry(t, d, v)
  <2> DEFINE i == page_directory_index(v)
  <2>1. d \in Pages /\ t2[d][i] = t[d][i]
    BY <1>1, <1>2
  <2>2. HasTable(t2, d, v) <=> HasTable(t, d, v)
    BY <2>1 DEF HasTable
  <2>3. CASE HasTable(t, d, v)
    <3> DEFINE f == t[d][i].frame
    <3>1. f \in Pages /\ own[f] \notin {NoRole, SpareRole}
      <4>1. own[f] = IF i \in UserIdx THEN TableRole(d, i) ELSE KernelRole(i)
        BY <2>3, TableOwner DEF TableFor
      <4>2. f \in Pages
        BY <2>3, TableOwner
      <4> QED BY <4>1, <4>2, RolesDiffer
    <3>2. t2[f] = t[f]
      BY <3>1
    <3> QED BY <2>1, <2>2, <2>3, <3>2 DEF vmm_get_page_entry
  <2>4. CASE ~HasTable(t, d, v)
    BY <2>2, <2>4 DEF vmm_get_page_entry
  <2> QED BY <2>3, <2>4
<1> QED BY <1>2, <1>3 DEF SameWalks

\* Entry k of page p is written, with e.
IsWritten(t2, t, p, k, e) ==
  /\ t2 \in Tables /\ t2[p][k] = e /\ \A j \in Indexes : j # k => t2[p][j] = t[p][j]
  /\ \A q \in Pages : q # p => t2[q] = t[q]

\* Writing one entry.
LEMMA CellWritten ==
  ASSUME NEW t \in Tables, NEW p \in Pages, NEW k \in Indexes, NEW e \in EntrySet
  PROVE  IsWritten([t EXCEPT ![p][k] = e], t, p, k, e)
BY DEF Tables, Rows, IsWritten

\* The entry of virtual page v of directory d is written, with e.
EntryWritten(t2, t, own, D, d, v, e) ==
  /\ t2 \in Tables /\ \A c \in D : t2[c] = t[c]
  /\ \A c \in D, w \in AllVirt :
       vmm_get_page_entry(t2, c, w) = IF c = d /\ w = v THEN e ELSE vmm_get_page_entry(t, c, w)
  /\ \A q \in Pages : own[q] # TableFor(d, page_directory_index(v)) => t2[q] = t[q]

\* An entry of a table is seen at one page only.
LEMMA WriteEntry ==
  ASSUME NEW t \in Tables, NEW own, NEW h, NEW D, NEW X, NEW L, NEW root,
         Owned(own, t, h, D, X, L, root), NEW d \in D, NEW v \in AllVirt,
         v \in UserVirt \/ D = {d}, HasTable(t, d, v),
         NEW e \in EntrySet, NEW t2,
         t2 = [t EXCEPT ![t[d][page_directory_index(v)].frame][page_table_index(v)] = e]
  PROVE  EntryWritten(t2, t, own, D, d, v, e)
<1> DEFINE i == page_directory_index(v)
           k == page_table_index(v)
           f == t[d][i].frame
<1>1. (i \in UserIdx \/ D = {d}) /\ i \in Indexes /\ k \in Indexes /\ D \subseteq Pages
  BY Places DEF Owned, RolesExact, Backed, Referenced
<1>2. f \in Pages /\ own[f] = TableFor(d, i)
  BY <1>1, TableOwner
<1>3. t2 = [t EXCEPT ![f][k] = e]
  OBVIOUS
<1> HIDE DEF i, k, f
<1>4. /\ t2 \in Tables /\ t2[f][k] = e /\ \A j \in Indexes : j # k => t2[f][j] = t[f][j]
      /\ \A q \in Pages : q # f => t2[q] = t[q]
  <2>1. IsWritten(t2, t, f, k, e)
    <3>1. IsWritten([t EXCEPT ![f][k] = e], t, f, k, e)
      BY <1>1, <1>2, CellWritten, Zenon
    <3> QED BY <1>3, <3>1, Zenon
  <2> QED BY <2>1 DEF IsWritten
<1>5. ASSUME NEW c \in D PROVE c # f /\ t2[c] = t[c]
  <2>1. own[c] = DirRole /\ c \in Pages
    BY <1>1 DEF Owned, RolesExact, Backed, Referenced
  <2> QED BY <1>2, <1>4, <2>1, RolesDiffer DEF TableFor
<1>6. ASSUME NEW c \in D, NEW w \in AllVirt
      PROVE  vmm_get_page_entry(t2, c, w) = IF c = d /\ w = v THEN e ELSE vmm_get_page_entry(t, c, w)
  <2> DEFINE a == page_directory_index(w)
             b == page_table_index(w)
             g == t[c][a].frame
  <2>1. a \in Indexes /\ b \in Indexes /\ c \in Pages /\ t2[c][a] = t[c][a]
    BY <1>1, <1>5, Places
  <2>2. HasTable(t2, c, w) <=> HasTable(t, c, w)
    BY <2>1 DEF HasTable
  <2>3. CASE HasTable(t, c, w)
    <3>1. g \in Pages /\ own[g] = TableFor(c, a)
      BY <2>3, TableOwner
    <3>2. vmm_get_page_entry(t2, c, w) = t2[g][b] /\ vmm_get_page_entry(t, c, w) = t[g][b]
      BY <2>1, <2>2, <2>3 DEF vmm_get_page_entry
    <3>3. g = f /\ b = k <=> c = d /\ w = v
      <4>1. c = d /\ w = v => g = f /\ b = k
        BY DEF f, i, k
      <4>2. g = f => c = d /\ a = i
        <5> HAVE g = f
        <5>1. own[g] = TableFor(d, i)
          BY <1>2
        <5> HIDE DEF g
        <5> QED BY <1>1, <3>1, <5>1, RolesDiffer DEF TableFor
      <4>3. a = i /\ b = k => w = v
        BY <1>1, Places DEF i, k
      <4> QED BY <4>1, <4>2, <4>3
    <3>4. CASE g = f /\ b = k
      BY <1>4, <3>2, <3>3, <3>4
    <3>5. CASE ~(g = f /\ b = k)
      <4>1. t2[g][b] = t[g][b]
        BY <1>4, <2>1, <3>1, <3>5
      <4> QED BY <3>2, <3>3, <3>5, <4>1
    <3> QED BY <3>4, <3>5
  <2>4. CASE ~HasTable(t, c, w)
    <3>1. ~(c = d /\ w = v)
      BY <2>4
    <3> QED BY <2>2, <2>4, <3>1 DEF vmm_get_page_entry
  <2> QED BY <2>3, <2>4
<1>7. \A q \in Pages : own[q] # TableFor(d, i) => t2[q] = t[q]
  BY <1>2, <1>4
<1> QED BY <1>4, <1>5, <1>6, <1>7 DEF i, EntryWritten

\* Entry i of directory d is written, with e.
DirectoryWritten(t2, t, D, d, i, e) ==
  /\ t2 \in Tables /\ t2[d][i] = e
  /\ \A j \in Indexes : j # i => t2[d][j] = t[d][j]
  /\ \A q \in Pages : q # d => t2[q] = t[q]
  /\ \A c \in D, w \in AllVirt :
       vmm_get_page_entry(t2, c, w) =
         IF c = d /\ page_directory_index(w) = i THEN t[e.frame][page_table_index(w)]
         ELSE vmm_get_page_entry(t, c, w)

\* An entry of a directory is seen at the pages of its table only.
LEMMA WriteDirectory ==
  ASSUME NEW t \in Tables, NEW own, NEW h, NEW D, NEW X, NEW L, NEW root,
         Owned(own, t, h, D, X, L, root), NEW d \in D, NEW i \in Indexes,
         NEW e \in EntrySet, NEW t2, t2 = [t EXCEPT ![d][i] = e],
         e.present, own[e.frame] # DirRole
  PROVE  DirectoryWritten(t2, t, D, d, i, e)
<1>1. i \in Indexes /\ D \subseteq Pages /\ d \in Pages /\ own[d] = DirRole /\ e.frame \in Pages
  BY EntryFacts DEF Owned, RolesExact
<1>2. /\ t2 \in Tables /\ t2[d][i] = e
      /\ \A j \in Indexes : j # i => t2[d][j] = t[d][j]
      /\ \A q \in Pages : q # d => t2[q] = t[q]
  <2>1. IsWritten(t2, t, d, i, e)
    BY <1>1, CellWritten
  <2> QED BY <2>1 DEF IsWritten
<1>3. ASSUME NEW c \in D, NEW w \in AllVirt
      PROVE  vmm_get_page_entry(t2, c, w) =
                IF c = d /\ page_directory_index(w) = i THEN t[e.frame][page_table_index(w)]
                ELSE vmm_get_page_entry(t, c, w)
  <2> DEFINE a == page_directory_index(w)
             b == page_table_index(w)
             g == t[c][a].frame
  <2>1. a \in Indexes /\ b \in Indexes /\ c \in Pages
    BY <1>1, Places
  <2>2. CASE c = d /\ a = i
    <3>1. HasTable(t2, c, w) /\ t2[c][a].frame = e.frame /\ e.frame # d
      BY <1>1, <1>2, <2>2 DEF HasTable
    <3>2. vmm_get_page_entry(t2, c, w) = t2[e.frame][b]
      BY <3>1 DEF vmm_get_page_entry
    <3> QED BY <1>1, <1>2, <2>2, <3>1, <3>2
  <2>3. CASE ~(c = d /\ a = i)
    <3>1. t2[c][a] = t[c][a]
      BY <1>2, <2>1, <2>3
    <3>2. HasTable(t2, c, w) <=> HasTable(t, c, w)
      BY <3>1 DEF HasTable
    <3>3. CASE HasTable(t, c, w)
      <4>1. g \in Pages /\ own[g] = TableFor(c, a)
        BY <3>3, TableOwner
      <4>2. g # d
        BY <1>1, <4>1, RolesDiffer DEF TableFor
      <4> QED BY <1>2, <2>3, <3>1, <3>2, <3>3, <4>1, <4>2 DEF vmm_get_page_entry
    <3>4. CASE ~HasTable(t, c, w)
      BY <2>3, <3>2, <3>4 DEF vmm_get_page_entry
    <3> QED BY <3>3, <3>4
  <2> QED BY <2>2, <2>3
<1> QED BY <1>2, <1>3 DEF DirectoryWritten

\* References only depend on the roles of tables and pages.
LEMMA ReferencesKept ==
  ASSUME NEW own, NEW own2, NEW t, NEW D, NEW X, NEW root, Referenced(own, t, D, X, root),
         \A p \in Pages : own[p] \notin {NoRole, DirRole, SpareRole} => own2[p] = own[p]
  PROVE  Referenced(own2, t, D, X, root)
<1>1. ASSUME NEW d \in D, NEW i \in UserIdx, t[d][i].present
      PROVE  t[d][i].frame \in Pages /\ own2[t[d][i].frame] = TableRole(d, i)
  BY <1>1, RolesDiffer DEF Referenced
<1>2. ASSUME NEW i \in SharedIdx, t[root][i].present
      PROVE  t[root][i].frame \in Pages /\ own2[t[root][i].frame] = KernelRole(i)
  BY <1>2, RolesDiffer DEF Referenced
<1>3. ASSUME NEW d \in D, NEW v \in UserVirt,
             vmm_get_page_entry(t, d, v).present /\ <<d, v>> \notin X
      PROVE  /\ vmm_get_page_entry(t, d, v).frame \in Pages
             /\ own2[vmm_get_page_entry(t, d, v).frame] = PageRole(d, v)
  BY <1>3, RolesDiffer DEF Referenced
<1>4. \A d \in D, i \in SharedIdx : t[d][i] = t[root][i]
  BY DEF Referenced
<1> QED BY <1>1, <1>2, <1>3, <1>4 DEF Referenced

\* A free page becomes a spare one.
LEMMA RoleTaken ==
  ASSUME NEW own, NEW t, NEW h, NEW D, NEW X, NEW L, NEW root,
         Owned(own, t, h, D, X, L, root), NEW q \in Pages, q \notin h
  PROVE  Laid(t, h \cup {q}, D, X, L \cup {q}, root)
<1> DEFINE own2 == [p \in Pages |-> IF p = q THEN SpareRole ELSE own[p]]
<1>1. own2[q] = SpareRole /\ own[q] = NoRole /\ \A p \in Pages : p # q => own2[p] = own[p]
  BY DEF Owned, RolesExact
<1> HIDE DEF own2
<1>2. RolesExact(own2, h \cup {q}, D, L \cup {q}, root)
  BY <1>1, RolesDiffer DEF Owned, RolesExact
<1>3. Backed(own2, t, D, X, root)
  BY <1>1, RolesDiffer DEF Owned, Backed
<1>4. Referenced(own2, t, D, X, root)
  <2>1. \A p \in Pages : own[p] \notin {NoRole, DirRole, SpareRole} => own2[p] = own[p]
    BY <1>1
  <2> QED BY <2>1, ReferencesKept DEF Owned
<1> QED BY <1>2, <1>3, <1>4 DEF Owned, Laid

\* Spare pages become free ones.
LEMMA RoleGiven ==
  ASSUME NEW own, NEW t, NEW h, NEW D, NEW X, NEW L, NEW root,
         Owned(own, t, h, D, X, L, root), NEW S \in SUBSET L
  PROVE  Laid(t, h \ S, D, X, L \ S, root)
<1> DEFINE own2 == [p \in Pages |-> IF p \in S THEN NoRole ELSE own[p]]
<1>1. /\ \A p \in Pages : p \in S => own2[p] = NoRole /\ own[p] = SpareRole
      /\ \A p \in Pages : p \notin S => own2[p] = own[p]
  BY DEF Owned, RolesExact
<1> HIDE DEF own2
<1>2. RolesExact(own2, h \ S, D, L \ S, root)
  BY <1>1, RolesDiffer DEF Owned, RolesExact
<1>3. Backed(own2, t, D, X, root)
  BY <1>1, RolesDiffer DEF Owned, Backed
<1>4. Referenced(own2, t, D, X, root)
  <2>1. \A p \in Pages : own[p] \notin {NoRole, DirRole, SpareRole} => own2[p] = own[p]
    BY <1>1
  <2> QED BY <2>1, ReferencesKept DEF Owned
<1> QED BY <1>2, <1>3, <1>4 DEF Owned, Laid

\* A mapping no longer counts; its page is spare.
LEMMA RoleHidden ==
  ASSUME NEW own, NEW t, NEW h, NEW D, NEW X, NEW L, NEW root,
         Owned(own, t, h, D, X, L, root), NEW d \in D, NEW v \in UserVirt, <<d, v>> \notin X,
         vmm_get_page_entry(t, d, v).present
  PROVE  Laid(t, h, D, X \cup {<<d, v>>},
                         L \cup {vmm_get_page_entry(t, d, v).frame}, root)
<1> DEFINE f == vmm_get_page_entry(t, d, v).frame
           own2 == [p \in Pages |-> IF p = f THEN SpareRole ELSE own[p]]
           Y == X \cup {<<d, v>>}
<1>1. f \in Pages /\ own[f] = PageRole(d, v)
  BY DEF Owned, Referenced
<1>2. own2[f] = SpareRole /\ \A p \in Pages : p # f => own2[p] = own[p]
  BY <1>1
<1>3. \A c, w : <<c, w>> \in Y <=> <<c, w>> \in X \/ (c = d /\ w = v)
  OBVIOUS
<1>4. \A p \in Pages : own[p] = PageRole(d, v) => p = f
  BY DEF Owned, Backed
<1> HIDE DEF own2, f, Y
<1>5. RolesExact(own2, h, D, L \cup {f}, root)
  BY <1>1, <1>2, RolesDiffer DEF Owned, RolesExact
<1>6. Backed(own2, t, D, Y, root)
  BY <1>1, <1>2, <1>3, <1>4, RolesDiffer DEF Owned, Backed
<1>7. Referenced(own2, t, D, Y, root)
  <2> USE DEF Owned
  <2>1. ASSUME NEW c \in D, NEW i \in UserIdx, t[c][i].present
        PROVE  t[c][i].frame \in Pages /\ own2[t[c][i].frame] = TableRole(c, i)
    BY <1>1, <1>2, <2>1, RolesDiffer DEF Referenced
  <2>2. ASSUME NEW i \in SharedIdx, t[root][i].present
        PROVE  t[root][i].frame \in Pages /\ own2[t[root][i].frame] = KernelRole(i)
    BY <1>1, <1>2, <2>2, RolesDiffer DEF Referenced
  <2>3. ASSUME NEW c \in D, NEW w \in UserVirt,
               vmm_get_page_entry(t, c, w).present /\ <<c, w>> \notin Y
        PROVE  /\ vmm_get_page_entry(t, c, w).frame \in Pages
               /\ own2[vmm_get_page_entry(t, c, w).frame] = PageRole(c, w)
    BY <1>1, <1>2, <1>3, <2>3, RolesDiffer DEF Referenced
  <2>4. \A c \in D, i \in SharedIdx : t[c][i] = t[root][i]
    BY DEF Referenced
  <2> QED BY <2>1, <2>2, <2>3, <2>4 DEF Referenced
<1> QED BY <1>5, <1>6, <1>7 DEF Owned, Laid, f, Y

\* A new entry.
LEMMA EntryMade ==
  ASSUME pmm_total_memory_bytes \in TOTALS, NEW p \in Pages, NEW u \in BOOLEAN
  PROVE  /\ Entry(p, u) \in EntrySet /\ Entry(p, u).present = TRUE /\ Entry(p, u).frame = p
         /\ Entry(p, u).user = u
<1>1. p \in Nat
  BY PagesInside
<1> QED BY <1>1 DEF Entry, EntrySet

\* The tables t2 have the entries of t, or all but that of page v in d.
Alike(t2, t, D) ==
  \A c \in D, w \in AllVirt : vmm_get_page_entry(t2, c, w) = vmm_get_page_entry(t, c, w)
AlikeBut(t2, t, D, d, v) ==
  \A c \in D, w \in AllVirt : ~(c = d /\ w = v) =>
    vmm_get_page_entry(t2, c, w) = vmm_get_page_entry(t, c, w)

\* Entry i of directory d is written, with e, and no mapping changes.
Linked(t2, t, h, D, X, L, root, d, i, e) ==
  /\ t2 \in Tables /\ t2[d][i] = e /\ (\A p \in Pages : p # d => t2[p] = t[p])
  /\ Alike(t2, t, D) /\ Laid(t2, h, D, X, L, root)

\* A spare page that is cleared becomes a table; no mapping changes.
LEMMA TableLinked ==
  ASSUME pmm_total_memory_bytes \in TOTALS,
         NEW t \in Tables, NEW own, NEW h, NEW D, NEW X, NEW L, NEW root,
         Owned(own, t, h, D, X, L, root), NEW d \in D, NEW i \in Indexes,
         i \in UserIdx \/ D = {d}, ~t[d][i].present,
         NEW q \in L, t[q] = Cleared, NEW u \in BOOLEAN,
         NEW t2, t2 = [t EXCEPT ![d][i] = Entry(q, u)]
  PROVE  Linked(t2, t, h, D, X, L \ {q}, root, d, i, Entry(q, u))
<1> DEFINE e == Entry(q, u)
           own2 == [p \in Pages |-> IF p = q THEN TableFor(d, i) ELSE own[p]]
<1>1. q \in Pages /\ own[q] = SpareRole /\ q # d /\ d \in Pages /\ D \subseteq Pages /\ root \in D
  BY RolesDiffer DEF Owned, RolesExact
<1>2. e \in EntrySet /\ e.present = TRUE /\ e.frame = q
  BY <1>1, EntryMade
<1>3. /\ t2 \in Tables /\ t2[d][i] = e
      /\ \A j \in Indexes : j # i => t2[d][j] = t[d][j]
      /\ \A p \in Pages : p # d => t2[p] = t[p]
      /\ \A c \in D, w \in AllVirt :
              vmm_get_page_entry(t2, c, w) =
                IF c = d /\ page_directory_index(w) = i THEN t[e.frame][page_table_index(w)]
                ELSE vmm_get_page_entry(t, c, w)
  <2>1. own[e.frame] # DirRole
    BY <1>1, <1>2, RolesDiffer
  <2> HIDE DEF e
  <2>2. t2 = [t EXCEPT ![d][i] = e]
    BY DEF e
  <2>3. DirectoryWritten(t2, t, D, d, i, e)
    BY <1>2, <2>1, <2>2, WriteDirectory
  <2> QED BY <2>3 DEF DirectoryWritten
<1> HIDE DEF e
<1>4. ASSUME NEW c \in D, NEW w \in AllVirt
      PROVE  vmm_get_page_entry(t2, c, w) = vmm_get_page_entry(t, c, w)
  <2>1. CASE c = d /\ page_directory_index(w) = i
    <3>1. page_table_index(w) \in Indexes
      BY Places
    <3>2. vmm_get_page_entry(t2, c, w) = NoEntry
      BY <1>2, <1>3, <2>1, <3>1, EmptyRows
    <3>3. vmm_get_page_entry(t, c, w) = NoEntry
      BY <2>1 DEF vmm_get_page_entry, HasTable
    <3> QED BY <3>2, <3>3
  <2>2. CASE ~(c = d /\ page_directory_index(w) = i)
    BY <1>3, <2>2
  <2> QED BY <2>1, <2>2
<1>5. own2[q] = TableFor(d, i) /\ \A p \in Pages : p # q => own2[p] = own[p]
  BY <1>1
<1>6. \A c \in D, w \in UserVirt : vmm_get_page_entry(t2, c, w) = vmm_get_page_entry(t, c, w)
  BY <1>4, Places
<1>7. /\ \A c \in D, j \in Indexes : ~(c = d /\ j = i) => t2[c][j] = t[c][j]
      /\ t2[d][i].present = TRUE /\ t2[d][i].frame = q
      /\ \A j \in UserIdx : j \in Indexes /\ j \notin SharedIdx
      /\ \A j \in SharedIdx : j \in Indexes /\ j \notin UserIdx
      /\ i \in UserIdx \/ (i \in SharedIdx /\ d = root /\ D = {root})
  BY <1>1, <1>2, <1>3 DEF UserIdx, SharedIdx
<1>12. own2[q] \notin {NoRole, DirRole, SpareRole} /\ \A c, w : own2[q] # PageRole(c, w)
  BY <1>5, RolesDiffer DEF TableFor
<1> HIDE DEF own2
<1>8. RolesExact(own2, h, D, L \ {q}, root)
  <2>1. ASSUME NEW p \in Pages
        PROVE  /\ p \in h <=> own2[p] # NoRole
               /\ p \in D <=> own2[p] = DirRole
               /\ p \in L \ {q} <=> own2[p] = SpareRole
    BY <1>1, <1>5, <1>12, RolesDiffer DEF Owned, RolesExact
  <2>2. ASSUME NEW p \in Pages
        PROVE  \/ own2[p] \in {NoRole, DirRole, SpareRole}
               \/ \E c, j : own2[p] = TableRole(c, j)
               \/ \E j : own2[p] = KernelRole(j)
               \/ \E c, w : own2[p] = PageRole(c, w)
    BY <1>5 DEF Owned, RolesExact, TableFor
  <2>3. root \in D /\ D \subseteq Pages /\ L \ {q} \subseteq Pages
    BY DEF Owned, RolesExact
  <2> QED BY <2>1, <2>2, <2>3 DEF RolesExact
<1>9. Backed(own2, t2, D, X, root)
  <2> USE DEF Owned
  <2>1. ASSUME NEW p \in Pages, NEW c, NEW j, own2[p] = TableRole(c, j)
        PROVE  c \in D /\ j \in UserIdx /\ t2[c][j].present /\ t2[c][j].frame = p
    <3>1. CASE p = q
      <4>1. c = d /\ j = i /\ i \in UserIdx
        BY <1>5, <2>1, <3>1, RolesDiffer DEF TableFor
      <4> QED BY <1>7, <3>1, <4>1
    <3>2. CASE p # q
      <4>1. own[p] = TableRole(c, j)
        BY <1>5, <2>1, <3>2
      <4>2. c \in D /\ j \in UserIdx /\ t[c][j].present /\ t[c][j].frame = p
        BY <4>1 DEF Backed
      <4> QED BY <1>7, <4>2
    <3> QED BY <3>1, <3>2
  <2>2. ASSUME NEW p \in Pages, NEW j, own2[p] = KernelRole(j)
        PROVE  j \in SharedIdx /\ t2[root][j].present /\ t2[root][j].frame = p
    <3>1. CASE p = q
      <4>1. j = i /\ i \notin UserIdx
        BY <1>5, <2>2, <3>1, RolesDiffer DEF TableFor
      <4> QED BY <1>7, <3>1, <4>1
    <3>2. CASE p # q
      <4>1. own[p] = KernelRole(j)
        BY <1>5, <2>2, <3>2
      <4>2. j \in SharedIdx /\ t[root][j].present /\ t[root][j].frame = p
        BY <4>1 DEF Backed
      <4> QED BY <1>1, <1>7, <4>2
    <3> QED BY <3>1, <3>2
  <2>3. ASSUME NEW p \in Pages, NEW c, NEW w, own2[p] = PageRole(c, w)
        PROVE  /\ c \in D /\ w \in UserVirt /\ <<c, w>> \notin X
               /\ vmm_get_page_entry(t2, c, w).present /\ vmm_get_page_entry(t2, c, w).frame = p
    <3>1. own[p] = PageRole(c, w)
      BY <1>5, <1>12, <2>3
    <3>2. /\ c \in D /\ w \in UserVirt /\ <<c, w>> \notin X
          /\ vmm_get_page_entry(t, c, w).present /\ vmm_get_page_entry(t, c, w).frame = p
      BY <3>1 DEF Backed
    <3> QED BY <1>6, <3>2
  <2> QED BY <2>1, <2>2, <2>3 DEF Backed
<1>10. Referenced(own2, t2, D, X, root)
  <2> USE DEF Owned
  <2>1. ASSUME NEW c \in D, NEW j \in UserIdx, t2[c][j].present
        PROVE  t2[c][j].frame \in Pages /\ own2[t2[c][j].frame] = TableRole(c, j)
    <3>1. CASE c = d /\ j = i
      BY <1>1, <1>5, <1>7, <3>1 DEF TableFor
    <3>2. CASE ~(c = d /\ j = i)
      <4>1. t2[c][j] = t[c][j]
        BY <1>7, <3>2
      <4>2. t[c][j].frame \in Pages /\ own[t[c][j].frame] = TableRole(c, j)
        BY <2>1, <4>1 DEF Referenced
      <4> QED BY <1>1, <1>5, <4>1, <4>2, RolesDiffer
    <3> QED BY <3>1, <3>2
  <2>2. ASSUME NEW j \in SharedIdx, t2[root][j].present
        PROVE  t2[root][j].frame \in Pages /\ own2[t2[root][j].frame] = KernelRole(j)
    <3>1. CASE d = root /\ j = i
      BY <1>1, <1>5, <1>7, <3>1 DEF TableFor
    <3>2. CASE ~(d = root /\ j = i)
      <4>1. t2[root][j] = t[root][j]
        BY <1>1, <1>7, <3>2
      <4>2. t[root][j].frame \in Pages /\ own[t[root][j].frame] = KernelRole(j)
        BY <2>2, <4>1 DEF Referenced
      <4> QED BY <1>1, <1>5, <4>1, <4>2, RolesDiffer
    <3> QED BY <3>1, <3>2
  <2>3. ASSUME NEW c \in D, NEW w \in UserVirt,
               vmm_get_page_entry(t2, c, w).present /\ <<c, w>> \notin X
        PROVE  /\ vmm_get_page_entry(t2, c, w).frame \in Pages
               /\ own2[vmm_get_page_entry(t2, c, w).frame] = PageRole(c, w)
    <3>1. vmm_get_page_entry(t2, c, w) = vmm_get_page_entry(t, c, w)
      BY <1>6
    <3> QED BY <1>1, <1>5, <2>3, <3>1, RolesDiffer DEF Referenced
  <2>4. ASSUME NEW c \in D, NEW j \in SharedIdx PROVE t2[c][j] = t2[root][j]
    <3>1. CASE i \in UserIdx
      <4>1. t2[c][j] = t[c][j] /\ t2[root][j] = t[root][j]
        BY <1>1, <1>7, <3>1
      <4> QED BY <4>1 DEF Referenced
    <3>2. CASE D = {root}
      BY <3>2
    <3> QED BY <1>7, <3>1, <3>2
  <2> QED BY <2>1, <2>2, <2>3, <2>4 DEF Referenced
<1>11. Owned(own2, t2, h, D, X, L \ {q}, root)
  BY <1>8, <1>9, <1>10 DEF Owned
<1>13. Alike(t2, t, D)
  BY <1>4 DEF Alike
<1> QED BY <1>3, <1>11, <1>13 DEF e, Linked, Laid

\* A spare page is mapped at v; the mapping there, if any, did not count.
LEMMA PageLinked ==
  ASSUME NEW t \in Tables, NEW own, NEW h, NEW D, NEW X, NEW L, NEW root,
         Owned(own, t, h, D, X, L, root), NEW d \in D, NEW v \in UserVirt,
         ~vmm_get_page_entry(t, d, v).present \/ <<d, v>> \in X,
         NEW q \in L, NEW e \in EntrySet, e.present, e.frame = q,
         NEW t2, EntryWritten(t2, t, own, D, d, v, e)
  PROVE  Laid(t2, h, D, X \ {<<d, v>>}, L \ {q}, root)
<1> DEFINE own2 == [p \in Pages |-> IF p = q THEN PageRole(d, v) ELSE own[p]]
           Y == X \ {<<d, v>>}
<1>1. q \in Pages /\ own[q] = SpareRole /\ D \subseteq Pages /\ root \in D
  BY DEF Owned, RolesExact
<1>2. own2[q] = PageRole(d, v) /\ \A p \in Pages : p # q => own2[p] = own[p]
  BY <1>1
<1>3. \A c, w : <<c, w>> \in Y <=> <<c, w>> \in X /\ ~(c = d /\ w = v)
  OBVIOUS
<1>4. /\ vmm_get_page_entry(t2, d, v) = e
      /\ \A c \in D, w \in UserVirt : ~(c = d /\ w = v) =>
           vmm_get_page_entry(t2, c, w) = vmm_get_page_entry(t, c, w)
      /\ \A c \in D : t2[c] = t[c]
  BY Places DEF EntryWritten
<1> HIDE DEF own2, Y
<1>5. RolesExact(own2, h, D, L \ {q}, root)
  BY <1>1, <1>2, RolesDiffer DEF Owned, RolesExact
<1>6. Backed(own2, t2, D, Y, root)
  <2> USE DEF Owned
  <2>1. ASSUME NEW p \in Pages, NEW c, NEW j, own2[p] = TableRole(c, j)
        PROVE  c \in D /\ j \in UserIdx /\ t2[c][j].present /\ t2[c][j].frame = p
    <3>1. own[p] = TableRole(c, j)
      BY <1>2, <2>1, RolesDiffer
    <3> QED BY <1>4, <3>1 DEF Backed
  <2>2. ASSUME NEW p \in Pages, NEW j, own2[p] = KernelRole(j)
        PROVE  j \in SharedIdx /\ t2[root][j].present /\ t2[root][j].frame = p
    <3>1. own[p] = KernelRole(j)
      BY <1>2, <2>2, RolesDiffer
    <3> QED BY <1>1, <1>4, <3>1 DEF Backed
  <2>3. ASSUME NEW p \in Pages, NEW c, NEW w, own2[p] = PageRole(c, w)
        PROVE  /\ c \in D /\ w \in UserVirt /\ <<c, w>> \notin Y
               /\ vmm_get_page_entry(t2, c, w).present /\ vmm_get_page_entry(t2, c, w).frame = p
    <3>1. CASE p = q
      <4>1. c = d /\ w = v
        BY <1>2, <2>3, <3>1, RolesDiffer
      <4> QED BY <1>3, <1>4, <3>1, <4>1
    <3>2. CASE p # q
      <4>1. own[p] = PageRole(c, w)
        BY <1>2, <2>3, <3>2
      <4>2. /\ c \in D /\ w \in UserVirt /\ <<c, w>> \notin X
            /\ vmm_get_page_entry(t, c, w).present /\ vmm_get_page_entry(t, c, w).frame = p
        BY <4>1 DEF Backed
      <4>3. ~(c = d /\ w = v)
        BY <4>2
      <4> QED BY <1>3, <1>4, <4>2, <4>3
    <3> QED BY <3>1, <3>2
  <2> QED BY <2>1, <2>2, <2>3 DEF Backed
<1>7. Referenced(own2, t2, D, Y, root)
  <2> USE DEF Owned
  <2>1. ASSUME NEW c \in D, NEW j \in UserIdx, t2[c][j].present
        PROVE  t2[c][j].frame \in Pages /\ own2[t2[c][j].frame] = TableRole(c, j)
    BY <1>1, <1>2, <1>4, <2>1, RolesDiffer DEF Referenced
  <2>2. ASSUME NEW j \in SharedIdx, t2[root][j].present
        PROVE  t2[root][j].frame \in Pages /\ own2[t2[root][j].frame] = KernelRole(j)
    BY <1>1, <1>2, <1>4, <2>2, RolesDiffer DEF Referenced
  <2>3. ASSUME NEW c \in D, NEW w \in UserVirt,
               vmm_get_page_entry(t2, c, w).present /\ <<c, w>> \notin Y
        PROVE  /\ vmm_get_page_entry(t2, c, w).frame \in Pages
               /\ own2[vmm_get_page_entry(t2, c, w).frame] = PageRole(c, w)
    <3>1. CASE c = d /\ w = v
      BY <1>1, <1>2, <1>4, <3>1
    <3>2. CASE ~(c = d /\ w = v)
      <4>1. vmm_get_page_entry(t2, c, w) = vmm_get_page_entry(t, c, w) /\ <<c, w>> \notin X
        BY <1>3, <1>4, <2>3, <3>2
      <4>2. /\ vmm_get_page_entry(t, c, w).frame \in Pages
            /\ own[vmm_get_page_entry(t, c, w).frame] = PageRole(c, w)
        BY <2>3, <4>1 DEF Referenced
      <4> QED BY <1>1, <1>2, <4>1, <4>2, RolesDiffer
    <3> QED BY <3>1, <3>2
  <2>4. \A c \in D, j \in SharedIdx : t2[c][j] = t2[root][j]
    BY <1>1, <1>4 DEF Referenced
  <2> QED BY <2>1, <2>2, <2>3, <2>4 DEF Referenced
<1> QED BY <1>5, <1>6, <1>7 DEF Owned, Laid, Y

\* A mapping keeps its page, or is removed after it ceased to count.
LEMMA PageTouched ==
  ASSUME NEW t \in Tables, NEW own, NEW h, NEW D, NEW X, NEW L, NEW root,
         Owned(own, t, h, D, X, L, root), NEW d \in D, NEW v, NEW e \in EntrySet,
         \/ v \notin UserVirt
         \/ /\ e.present = vmm_get_page_entry(t, d, v).present
            /\ e.frame = vmm_get_page_entry(t, d, v).frame
         \/ <<d, v>> \in X,
         NEW t2, EntryWritten(t2, t, own, D, d, v, e)
  PROVE  Owned(own, t2, h, D, X, L, root)
<1>1. D \subseteq Pages /\ root \in D
  BY DEF Owned, RolesExact
<1>2. /\ v \in UserVirt => vmm_get_page_entry(t2, d, v) = e
      /\ \A c \in D, w \in UserVirt : ~(c = d /\ w = v) =>
           vmm_get_page_entry(t2, c, w) = vmm_get_page_entry(t, c, w)
      /\ \A c \in D : t2[c] = t[c]
  BY Places DEF EntryWritten
<1>3. \A c \in D, w \in UserVirt : <<c, w>> \notin X =>
        /\ vmm_get_page_entry(t2, c, w).present = vmm_get_page_entry(t, c, w).present
        /\ vmm_get_page_entry(t2, c, w).frame = vmm_get_page_entry(t, c, w).frame
  BY <1>2
<1>4. Backed(own, t2, D, X, root)
  <2> USE DEF Owned
  <2>1. ASSUME NEW p \in Pages, NEW c, NEW j, own[p] = TableRole(c, j)
        PROVE  c \in D /\ j \in UserIdx /\ t2[c][j].present /\ t2[c][j].frame = p
    BY <1>2, <2>1 DEF Backed
  <2>2. ASSUME NEW p \in Pages, NEW j, own[p] = KernelRole(j)
        PROVE  j \in SharedIdx /\ t2[root][j].present /\ t2[root][j].frame = p
    BY <1>1, <1>2, <2>2 DEF Backed
  <2>3. ASSUME NEW p \in Pages, NEW c, NEW w, own[p] = PageRole(c, w)
        PROVE  /\ c \in D /\ w \in UserVirt /\ <<c, w>> \notin X
               /\ vmm_get_page_entry(t2, c, w).present /\ vmm_get_page_entry(t2, c, w).frame = p
    <3>1. /\ c \in D /\ w \in UserVirt /\ <<c, w>> \notin X
          /\ vmm_get_page_entry(t, c, w).present /\ vmm_get_page_entry(t, c, w).frame = p
      BY <2>3 DEF Backed
    <3> QED BY <1>3, <3>1
  <2> QED BY <2>1, <2>2, <2>3 DEF Backed
<1>5. Referenced(own, t2, D, X, root)
  <2> USE DEF Owned
  <2>1. ASSUME NEW c \in D, NEW w \in UserVirt,
               vmm_get_page_entry(t2, c, w).present /\ <<c, w>> \notin X
        PROVE  /\ vmm_get_page_entry(t2, c, w).frame \in Pages
               /\ own[vmm_get_page_entry(t2, c, w).frame] = PageRole(c, w)
    BY <1>3, <2>1 DEF Referenced
  <2>2. /\ \A c \in D, i \in UserIdx : t2[c][i].present =>
             t2[c][i].frame \in Pages /\ own[t2[c][i].frame] = TableRole(c, i)
        /\ \A i \in SharedIdx : t2[root][i].present =>
             t2[root][i].frame \in Pages /\ own[t2[root][i].frame] = KernelRole(i)
        /\ \A c \in D, i \in SharedIdx : t2[c][i] = t2[root][i]
    BY <1>1, <1>2 DEF Referenced
  <2> QED BY <2>1, <2>2 DEF Referenced
<1> QED BY <1>4, <1>5 DEF Owned

\* A directory entry keeps its table; no mapping changes.
LEMMA DirectoryTouched ==
  ASSUME NEW t \in Tables, NEW own, NEW h, NEW D, NEW X, NEW L, NEW root,
         Owned(own, t, h, D, X, L, root), NEW d \in D, NEW i \in Indexes,
         i \in UserIdx \/ D = {d}, t[d][i].present,
         NEW e \in EntrySet, e.present = t[d][i].present, e.frame = t[d][i].frame,
         NEW t2, t2 = [t EXCEPT ![d][i] = e]
  PROVE  Linked(t2, t, h, D, X, L, root, d, i, e)
<1>1. D \subseteq Pages /\ root \in D /\ d \in Pages
  BY DEF Owned, RolesExact
<1>2. /\ \A j \in UserIdx : j \in Indexes /\ j \notin SharedIdx
      /\ \A j \in SharedIdx : j \in Indexes /\ j \notin UserIdx
      /\ i \in UserIdx \/ (i \in SharedIdx /\ d = root /\ D = {root})
  BY <1>1 DEF UserIdx, SharedIdx
<1>3. own[e.frame] \notin {NoRole, DirRole, SpareRole}
  <2>1. CASE i \in UserIdx
    BY <2>1, RolesDiffer DEF Owned, Referenced
  <2>2. CASE i \in SharedIdx /\ d = root
    BY <2>2, RolesDiffer DEF Owned, Referenced
  <2> QED BY <1>2, <2>1, <2>2
<1>4. /\ t2 \in Tables /\ t2[d][i] = e
      /\ \A j \in Indexes : j # i => t2[d][j] = t[d][j]
      /\ \A p \in Pages : p # d => t2[p] = t[p]
      /\ \A c \in D, w \in AllVirt :
              vmm_get_page_entry(t2, c, w) =
                IF c = d /\ page_directory_index(w) = i THEN t[e.frame][page_table_index(w)]
                ELSE vmm_get_page_entry(t, c, w)
  <2>1. DirectoryWritten(t2, t, D, d, i, e)
    BY <1>3, WriteDirectory
  <2> QED BY <2>1 DEF DirectoryWritten
<1>5. ASSUME NEW c \in D, NEW w \in AllVirt
      PROVE  vmm_get_page_entry(t2, c, w) = vmm_get_page_entry(t, c, w)
  <2>1. CASE c = d /\ page_directory_index(w) = i
    <3>1. vmm_get_page_entry(t, c, w) = t[e.frame][page_table_index(w)]
      BY <2>1 DEF vmm_get_page_entry, HasTable
    <3> QED BY <1>4, <2>1, <3>1
  <2>2. CASE ~(c = d /\ page_directory_index(w) = i)
    BY <1>4, <2>2
  <2> QED BY <2>1, <2>2
<1>6. \A c \in D, w \in UserVirt : vmm_get_page_entry(t2, c, w) = vmm_get_page_entry(t, c, w)
  BY <1>5, Places
<1>7. \A c \in D, j \in Indexes :
        t2[c][j].present = t[c][j].present /\ t2[c][j].frame = t[c][j].frame
  BY <1>1, <1>4
<1>8. Backed(own, t2, D, X, root)
  <2> USE DEF Owned
  <2>1. ASSUME NEW p \in Pages, NEW c, NEW j, own[p] = TableRole(c, j)
        PROVE  c \in D /\ j \in UserIdx /\ t2[c][j].present /\ t2[c][j].frame = p
    <3>1. c \in D /\ j \in UserIdx /\ t[c][j].present /\ t[c][j].frame = p
      BY <2>1 DEF Backed
    <3> QED BY <1>2, <1>7, <3>1
  <2>2. ASSUME NEW p \in Pages, NEW j, own[p] = KernelRole(j)
        PROVE  j \in SharedIdx /\ t2[root][j].present /\ t2[root][j].frame = p
    <3>1. j \in SharedIdx /\ t[root][j].present /\ t[root][j].frame = p
      BY <2>2 DEF Backed
    <3> QED BY <1>1, <1>2, <1>7, <3>1
  <2>3. ASSUME NEW p \in Pages, NEW c, NEW w, own[p] = PageRole(c, w)
        PROVE  /\ c \in D /\ w \in UserVirt /\ <<c, w>> \notin X
               /\ vmm_get_page_entry(t2, c, w).present /\ vmm_get_page_entry(t2, c, w).frame = p
    <3>1. /\ c \in D /\ w \in UserVirt /\ <<c, w>> \notin X
          /\ vmm_get_page_entry(t, c, w).present /\ vmm_get_page_entry(t, c, w).frame = p
      BY <2>3 DEF Backed
    <3> QED BY <1>6, <3>1
  <2> QED BY <2>1, <2>2, <2>3 DEF Backed
<1>9. Referenced(own, t2, D, X, root)
  <2> USE DEF Owned
  <2>1. ASSUME NEW c \in D, NEW j \in UserIdx, t2[c][j].present
        PROVE  t2[c][j].frame \in Pages /\ own[t2[c][j].frame] = TableRole(c, j)
    BY <1>2, <1>7, <2>1 DEF Referenced
  <2>2. ASSUME NEW j \in SharedIdx, t2[root][j].present
        PROVE  t2[root][j].frame \in Pages /\ own[t2[root][j].frame] = KernelRole(j)
    BY <1>1, <1>2, <1>7, <2>2 DEF Referenced
  <2>3. ASSUME NEW c \in D, NEW w \in UserVirt,
               vmm_get_page_entry(t2, c, w).present /\ <<c, w>> \notin X
        PROVE  /\ vmm_get_page_entry(t2, c, w).frame \in Pages
               /\ own[vmm_get_page_entry(t2, c, w).frame] = PageRole(c, w)
    BY <1>6, <2>3 DEF Referenced
  <2>4. ASSUME NEW c \in D, NEW j \in SharedIdx PROVE t2[c][j] = t2[root][j]
    <3>1. CASE i \in UserIdx
      <4>1. t2[c][j] = t[c][j] /\ t2[root][j] = t[root][j]
        BY <1>1, <1>2, <1>4, <3>1
      <4> QED BY <4>1 DEF Referenced
    <3>2. CASE D = {root}
      BY <3>2
    <3> QED BY <1>2, <3>1, <3>2
  <2> QED BY <2>1, <2>2, <2>3, <2>4 DEF Referenced
<1>10. Owned(own, t2, h, D, X, L, root)
  BY <1>8, <1>9 DEF Owned
<1>11. Alike(t2, t, D)
  BY <1>5 DEF Alike
<1> QED BY <1>4, <1>10, <1>11 DEF Linked, Laid

\* Mappings that do not exist need no exception.
LEMMA ExceptionEnded ==
  ASSUME NEW t, NEW own, NEW h, NEW D, NEW X, NEW L, NEW root,
         Owned(own, t, h, D, X, L, root), NEW d, NEW v, ~vmm_get_page_entry(t, d, v).present
  PROVE  Owned(own, t, h, D, X \ {<<d, v>>}, L, root)
<1> DEFINE Y == X \ {<<d, v>>}
<1>1. \A c, w : <<c, w>> \in Y <=> <<c, w>> \in X /\ ~(c = d /\ w = v)
  OBVIOUS
<1> HIDE DEF Y
<1>2. Backed(own, t, D, Y, root)
  BY <1>1 DEF Owned, Backed
<1>3. Referenced(own, t, D, Y, root)
  BY <1>1 DEF Owned, Referenced
<1> QED BY <1>2, <1>3 DEF Owned, Y

\* The kernel's part of a directory; q is a new directory with this part.
SharedPart(row) == [i \in Indexes |-> IF IsShared(i) THEN row[i] ELSE NoEntry]
DirectoryAdded(t2, t, q, h, D, X, L, root) ==
  /\ t2 \in Tables /\ Alike(t2, t, D) /\ Laid(t2, h, D \cup {q}, X, L \ {q}, root)
  /\ \A i \in UserIdx : t2[q][i] = NoEntry
  /\ \A w \in UserVirt : vmm_get_page_entry(t2, q, w) = NoEntry

\* A spare page becomes a directory with the kernel's part only.
LEMMA DirectoryLinked ==
  ASSUME NEW t \in Tables, NEW own, NEW h, NEW D, NEW X, NEW L, NEW root,
         Owned(own, t, h, D, X, L, root), NEW q \in L,
         NEW t2, t2 = [t EXCEPT ![q] = SharedPart(t[root])]
  PROVE  DirectoryAdded(t2, t, q, h, D, X, L, root)
<1> DEFINE own2 == [p \in Pages |-> IF p = q THEN DirRole ELSE own[p]]
           row == SharedPart(t[root])
           E == D \cup {q}
<1>1. q \in Pages /\ own[q] = SpareRole /\ q \notin D /\ D \subseteq Pages /\ root \in D /\ q # root
  BY RolesDiffer DEF Owned, RolesExact
<1>2. row \in Rows
  BY <1>1, EmptyRows DEF Rows, Tables, SharedPart
<1>3. /\ \A i \in UserIdx : row[i] = NoEntry
      /\ \A i \in SharedIdx : row[i] = t[root][i]
  BY DEF UserIdx, SharedIdx, SharedPart
<1> HIDE DEF row
<1>4. t2 \in Tables /\ t2[q] = row /\ \A p \in Pages : p # q => t2[p] = t[p]
  BY <1>1, <1>2 DEF Tables, row
<1>5. /\ \A c \in D : t2[c] = t[c]
      /\ \A c \in D, w \in AllVirt : vmm_get_page_entry(t2, c, w) = vmm_get_page_entry(t, c, w)
  <2> DEFINE S == {q}
  <2>1. /\ \A p \in S : p \in Pages => own[p] \in {NoRole, SpareRole}
        /\ \A p \in Pages : p \notin S => t2[p] = t[p]
    BY <1>1, <1>4
  <2> HIDE DEF S
  <2>2. SameWalks(t2, t, D)
    BY <1>4, <2>1, WriteSpare
  <2> QED BY <2>2 DEF SameWalks
<1>6. \A i \in UserIdx : t2[q][i] = NoEntry /\ ~t2[q][i].present
  BY <1>3, <1>4, EmptyRows
<1>7. \A w \in UserVirt : vmm_get_page_entry(t2, q, w) = NoEntry
  <2> TAKE w \in UserVirt
  <2>1. page_directory_index(w) \in UserIdx
    BY Places
  <2> QED BY <1>6, <2>1 DEF vmm_get_page_entry, HasTable
<1>8. own2[q] = DirRole /\ \A p \in Pages : p # q => own2[p] = own[p]
  BY <1>1
<1>9. \A c \in E : c \in D \/ c = q
  OBVIOUS
<1>10. \A c \in D, w \in UserVirt : vmm_get_page_entry(t2, c, w) = vmm_get_page_entry(t, c, w)
  BY <1>5, Places
<1>11. D \subseteq E /\ q \in E
  OBVIOUS
<1> HIDE DEF own2, E
<1>12. RolesExact(own2, h, E, L \ {q}, root)
  <2>1. ASSUME NEW p \in Pages
        PROVE  /\ p \in h <=> own2[p] # NoRole
               /\ p \in E <=> own2[p] = DirRole
               /\ p \in L \ {q} <=> own2[p] = SpareRole
    BY <1>1, <1>8, <1>9, <1>11, RolesDiffer DEF Owned, RolesExact
  <2>2. ASSUME NEW p \in Pages
        PROVE  \/ own2[p] \in {NoRole, DirRole, SpareRole}
               \/ \E c, j : own2[p] = TableRole(c, j)
               \/ \E j : own2[p] = KernelRole(j)
               \/ \E c, w : own2[p] = PageRole(c, w)
    BY <1>8 DEF Owned, RolesExact
  <2>3. root \in E /\ E \subseteq Pages /\ L \ {q} \subseteq Pages
    BY <1>1, <1>9, <1>11 DEF Owned, RolesExact
  <2> QED BY <2>1, <2>2, <2>3 DEF RolesExact
<1>13. Backed(own2, t2, E, X, root)
  <2> USE DEF Owned
  <2>1. ASSUME NEW p \in Pages, NEW c, NEW j, own2[p] = TableRole(c, j)
        PROVE  c \in E /\ j \in UserIdx /\ t2[c][j].present /\ t2[c][j].frame = p
    <3>1. own[p] = TableRole(c, j)
      BY <1>8, <2>1, RolesDiffer
    <3>2. c \in D /\ j \in UserIdx /\ t[c][j].present /\ t[c][j].frame = p
      BY <3>1 DEF Backed
    <3> QED BY <1>5, <1>11, <3>2
  <2>2. ASSUME NEW p \in Pages, NEW j, own2[p] = KernelRole(j)
        PROVE  j \in SharedIdx /\ t2[root][j].present /\ t2[root][j].frame = p
    <3>1. own[p] = KernelRole(j)
      BY <1>8, <2>2, RolesDiffer
    <3> QED BY <1>1, <1>5, <3>1 DEF Backed
  <2>3. ASSUME NEW p \in Pages, NEW c, NEW w, own2[p] = PageRole(c, w)
        PROVE  /\ c \in E /\ w \in UserVirt /\ <<c, w>> \notin X
               /\ vmm_get_page_entry(t2, c, w).present /\ vmm_get_page_entry(t2, c, w).frame = p
    <3>1. own[p] = PageRole(c, w)
      BY <1>8, <2>3, RolesDiffer
    <3>2. /\ c \in D /\ w \in UserVirt /\ <<c, w>> \notin X
          /\ vmm_get_page_entry(t, c, w).present /\ vmm_get_page_entry(t, c, w).frame = p
      BY <3>1 DEF Backed
    <3> QED BY <1>10, <1>11, <3>2
  <2> QED BY <2>1, <2>2, <2>3 DEF Backed
<1>14. Referenced(own2, t2, E, X, root)
  <2> USE DEF Owned
  <2>1. ASSUME NEW c \in E, NEW j \in UserIdx, t2[c][j].present
        PROVE  t2[c][j].frame \in Pages /\ own2[t2[c][j].frame] = TableRole(c, j)
    <3>1. c \in D
      BY <1>6, <1>9, <2>1
    <3>2. t[c][j].frame \in Pages /\ own[t[c][j].frame] = TableRole(c, j) /\ t2[c] = t[c]
      BY <1>5, <2>1, <3>1 DEF Referenced
    <3> QED BY <1>1, <1>8, <3>2, RolesDiffer
  <2>2. ASSUME NEW j \in SharedIdx, t2[root][j].present
        PROVE  t2[root][j].frame \in Pages /\ own2[t2[root][j].frame] = KernelRole(j)
    <3>1. t[root][j].frame \in Pages /\ own[t[root][j].frame] = KernelRole(j) /\ t2[root] = t[root]
      BY <1>1, <1>5, <2>2 DEF Referenced
    <3> QED BY <1>1, <1>8, <3>1, RolesDiffer
  <2>3. ASSUME NEW c \in E, NEW w \in UserVirt,
               vmm_get_page_entry(t2, c, w).present /\ <<c, w>> \notin X
        PROVE  /\ vmm_get_page_entry(t2, c, w).frame \in Pages
               /\ own2[vmm_get_page_entry(t2, c, w).frame] = PageRole(c, w)
    <3>1. c \in D
      BY <1>7, <1>9, <2>3, EmptyRows
    <3>2. vmm_get_page_entry(t2, c, w) = vmm_get_page_entry(t, c, w)
      BY <1>10, <3>1
    <3>3. /\ vmm_get_page_entry(t, c, w).frame \in Pages
          /\ own[vmm_get_page_entry(t, c, w).frame] = PageRole(c, w)
      BY <2>3, <3>1, <3>2 DEF Referenced
    <3> QED BY <1>1, <1>8, <3>2, <3>3, RolesDiffer
  <2>4. ASSUME NEW c \in E, NEW j \in SharedIdx PROVE t2[c][j] = t2[root][j]
    <3>1. t2[root] = t[root]
      BY <1>1, <1>5
    <3>2. CASE c = q
      BY <1>3, <1>4, <3>1, <3>2
    <3>3. CASE c \in D
      BY <1>5, <3>1, <3>3 DEF Referenced
    <3> QED BY <1>9, <3>2, <3>3
  <2> QED BY <2>1, <2>2, <2>3, <2>4 DEF Referenced
<1>15. Owned(own2, t2, h, E, X, L \ {q}, root)
  BY <1>12, <1>13, <1>14 DEF Owned
<1>16. Alike(t2, t, D) /\ Laid(t2, h, E, X, L \ {q}, root)
  BY <1>5, <1>15 DEF Alike, Laid
<1> QED BY <1>4, <1>6, <1>7, <1>16 DEF E, DirectoryAdded

\* The pages directory d maps, and all that belongs to it.
MappedFrames(t, d) ==
  {vmm_get_page_entry(t, d, v).frame : v \in {w \in UserVirt : vmm_get_page_entry(t, d, w).present}}
Belongings(t, d) == {d} \cup PrivateTables(t, d) \cup MappedFrames(t, d)

\* What belongs to a directory by its tables belongs to it by its roles.
LEMMA BelongingsOwned ==
  ASSUME NEW t \in Tables, NEW own, NEW h, NEW D, NEW X, NEW L, NEW root,
         Owned(own, t, h, D, X, L, root), NEW d \in D, \A v : <<d, v>> \notin X
  PROVE  /\ PrivateTables(t, d) \subseteq Pages /\ MappedFrames(t, d) \subseteq Pages
         /\ \A p \in Pages : p \in PrivateTables(t, d) <=> \E i : own[p] = TableRole(d, i)
         /\ \A p \in Pages : p \in MappedFrames(t, d) <=> \E v : own[p] = PageRole(d, v)
<1>1. \A p : p \in PrivateTables(t, d) <=> \E i \in UserIdx : t[d][i].present /\ p = t[d][i].frame
  BY DEF PrivateTables, UserIdx
<1>2. \A p : p \in MappedFrames(t, d) <=>
        \E v \in UserVirt : vmm_get_page_entry(t, d, v).present /\ p = vmm_get_page_entry(t, d, v).frame
  BY DEF MappedFrames
<1>3. \A i \in UserIdx : t[d][i].present =>
        t[d][i].frame \in Pages /\ own[t[d][i].frame] = TableRole(d, i)
  BY DEF Owned, Referenced
<1>4. \A v \in UserVirt : vmm_get_page_entry(t, d, v).present =>
        /\ vmm_get_page_entry(t, d, v).frame \in Pages
        /\ own[vmm_get_page_entry(t, d, v).frame] = PageRole(d, v)
  BY DEF Owned, Referenced
<1>5. ASSUME NEW p \in Pages, NEW i, own[p] = TableRole(d, i)
      PROVE  i \in UserIdx /\ t[d][i].present /\ t[d][i].frame = p
  BY <1>5 DEF Owned, Backed
<1>6. ASSUME NEW p \in Pages, NEW v, own[p] = PageRole(d, v)
      PROVE  /\ v \in UserVirt /\ vmm_get_page_entry(t, d, v).present
             /\ vmm_get_page_entry(t, d, v).frame = p
  BY <1>6 DEF Owned, Backed
<1>7. PrivateTables(t, d) \subseteq Pages /\ MappedFrames(t, d) \subseteq Pages
  BY <1>1, <1>2, <1>3, <1>4
<1>8. \A p \in Pages : p \in PrivateTables(t, d) <=> \E i : own[p] = TableRole(d, i)
  BY <1>1, <1>3, <1>5
<1>9. \A p \in Pages : p \in MappedFrames(t, d) <=> \E v : own[p] = PageRole(d, v)
  BY <1>2, <1>4, <1>6
<1> QED BY <1>7, <1>8, <1>9

\* A directory is given up: all that belongs to it is spare.
LEMMA DirectoryDropped ==
  ASSUME NEW t \in Tables, NEW own, NEW h, NEW D, NEW X, NEW L, NEW root,
         Owned(own, t, h, D, X, L, root), NEW d \in D, d # root, \A v : <<d, v>> \notin X
  PROVE  Laid(t, h, D \ {d}, X, L \cup Belongings(t, d), root)
<1> DEFINE B == Belongings(t, d)
           own2 == [p \in Pages |-> IF p \in B THEN SpareRole ELSE own[p]]
           E == D \ {d}
<1>1. d \in Pages /\ own[d] = DirRole /\ D \subseteq Pages /\ root \in D
  BY DEF Owned, RolesExact
<1>2. B \subseteq Pages /\ d \in B
  BY <1>1, BelongingsOwned DEF Belongings
<1>3. \A p \in Pages : p \in B <=> \/ p = d
                                   \/ \E i : own[p] = TableRole(d, i)
                                   \/ \E v : own[p] = PageRole(d, v)
  BY BelongingsOwned DEF Belongings
<1>4. /\ \A p \in Pages : p \in B => own2[p] = SpareRole
      /\ \A p \in Pages : p \notin B => own2[p] = own[p]
  OBVIOUS
<1>5. \A c : c \in E <=> c \in D /\ c # d
  OBVIOUS
<1> HIDE DEF B, own2, E
<1>6. RolesExact(own2, h, E, L \cup B, root)
  <2>1. \A p \in Pages : p \in B => own[p] # NoRole /\ (p \in D => p = d)
    BY <1>1, <1>3, RolesDiffer DEF Owned, RolesExact
  <2>2. ASSUME NEW p \in Pages
        PROVE  /\ p \in h <=> own2[p] # NoRole
               /\ p \in E <=> own2[p] = DirRole
               /\ p \in L \cup B <=> own2[p] = SpareRole
    BY <1>1, <1>2, <1>4, <1>5, <2>1, RolesDiffer DEF Owned, RolesExact
  <2>3. ASSUME NEW p \in Pages
        PROVE  \/ own2[p] \in {NoRole, DirRole, SpareRole}
               \/ \E c, j : own2[p] = TableRole(c, j)
               \/ \E j : own2[p] = KernelRole(j)
               \/ \E c, w : own2[p] = PageRole(c, w)
    BY <1>4 DEF Owned, RolesExact
  <2>4. root \in E /\ E \subseteq Pages /\ L \cup B \subseteq Pages
    BY <1>1, <1>2, <1>5 DEF Owned, RolesExact
  <2> QED BY <2>2, <2>3, <2>4 DEF RolesExact
<1>7. Backed(own2, t, E, X, root)
  <2> USE DEF Owned
  <2>1. ASSUME NEW p \in Pages, NEW c, NEW j, own2[p] = TableRole(c, j)
        PROVE  c \in E /\ j \in UserIdx /\ t[c][j].present /\ t[c][j].frame = p
    <3>1. own[p] = TableRole(c, j) /\ p \notin B
      BY <1>4, <2>1, RolesDiffer
    <3>2. c # d
      BY <1>3, <3>1
    <3> QED BY <1>5, <3>1, <3>2 DEF Backed
  <2>2. ASSUME NEW p \in Pages, NEW j, own2[p] = KernelRole(j)
        PROVE  j \in SharedIdx /\ t[root][j].present /\ t[root][j].frame = p
    <3>1. own[p] = KernelRole(j)
      BY <1>4, <2>2, RolesDiffer
    <3> QED BY <3>1 DEF Backed
  <2>3. ASSUME NEW p \in Pages, NEW c, NEW w, own2[p] = PageRole(c, w)
        PROVE  /\ c \in E /\ w \in UserVirt /\ <<c, w>> \notin X
               /\ vmm_get_page_entry(t, c, w).present /\ vmm_get_page_entry(t, c, w).frame = p
    <3>1. own[p] = PageRole(c, w) /\ p \notin B
      BY <1>4, <2>3, RolesDiffer
    <3>2. c # d
      BY <1>3, <3>1
    <3> QED BY <1>5, <3>1, <3>2 DEF Backed
  <2> QED BY <2>1, <2>2, <2>3 DEF Backed
<1>8. Referenced(own2, t, E, X, root)
  <2> USE DEF Owned
  <2>1. ASSUME NEW c \in E, NEW j \in UserIdx, t[c][j].present
        PROVE  t[c][j].frame \in Pages /\ own2[t[c][j].frame] = TableRole(c, j)
    <3>1. c \in D /\ c # d /\ t[c][j].frame \in Pages /\ own[t[c][j].frame] = TableRole(c, j)
      BY <1>5, <2>1 DEF Referenced
    <3>2. t[c][j].frame \notin B
      BY <1>1, <1>3, <3>1, RolesDiffer
    <3> QED BY <1>4, <3>1, <3>2
  <2>2. ASSUME NEW j \in SharedIdx, t[root][j].present
        PROVE  t[root][j].frame \in Pages /\ own2[t[root][j].frame] = KernelRole(j)
    <3>1. t[root][j].frame \in Pages /\ own[t[root][j].frame] = KernelRole(j)
      BY <2>2 DEF Referenced
    <3>2. t[root][j].frame \notin B
      BY <1>1, <1>3, <3>1, RolesDiffer
    <3> QED BY <1>4, <3>1, <3>2
  <2>3. ASSUME NEW c \in E, NEW w \in UserVirt,
               vmm_get_page_entry(t, c, w).present /\ <<c, w>> \notin X
        PROVE  /\ vmm_get_page_entry(t, c, w).frame \in Pages
               /\ own2[vmm_get_page_entry(t, c, w).frame] = PageRole(c, w)
    <3> DEFINE f == vmm_get_page_entry(t, c, w).frame
    <3>1. c \in D /\ c # d /\ f \in Pages /\ own[f] = PageRole(c, w)
      BY <1>5, <2>3 DEF Referenced
    <3>2. f \notin B
      BY <1>1, <1>3, <3>1, RolesDiffer
    <3> QED BY <1>4, <3>1, <3>2
  <2>4. \A c \in E, j \in SharedIdx : t[c][j] = t[root][j]
    BY <1>5 DEF Referenced
  <2> QED BY <2>1, <2>2, <2>3, <2>4 DEF Referenced
<1> QED BY <1>6, <1>7, <1>8 DEF Owned, Laid, B, E

-----------------------------------------------------------------------------
(* The operations of the manager on a state s with the directories D under *)
(* root and the spare pages L, the first n pages in the direct map.        *)

Site(s, D, X, L, root, n) ==
  /\ Good(s) /\ KernelMap(s.tables, root, n)
  /\ Laid(s.tables, s.held, D, X, L, root)

\* The translations left by invalidate_page.
Flushed(b, d, v) == IF d # current_page_directory_phys THEN b ELSE {t \in b : t[1] # v}

\* r is s with the tables t2 and the translations b.
Updated(r, s, t2, b, o) ==
  /\ Good(r) /\ r.held = s.held /\ r.bitmap = s.bitmap
  /\ r.tables = t2 /\ r.tlb = b /\ r.ok = o

\* Writing tables, translations and results does not disturb the allocator.
LEMMA Updates ==
  ASSUME NEW s, Good(s)
  PROVE  /\ \A t2 \in Tables : Updated([s EXCEPT !.tables = t2], s, t2, s.tlb, s.ok)
         /\ \A o \in BOOLEAN : Updated([s EXCEPT !.ok = o], s, s.tables, s.tlb, o)
         /\ \A d, v : Updated(invalidate_page(s, d, v), s, s.tables, Flushed(s.tlb, d, v), s.ok)
<1>1. s \in MemStates
  BY DEF Good
<1>2. ASSUME NEW t2 \in Tables PROVE Updated([s EXCEPT !.tables = t2], s, t2, s.tlb, s.ok)
  <2> DEFINE r == [s EXCEPT !.tables = t2]
  <2>1. r = [bitmap |-> s.bitmap, free_pages |-> s.free_pages, held |-> s.held,
             tables |-> t2, tlb |-> s.tlb, ok |-> s.ok] /\ r \in MemStates
    BY <1>1 DEF MemStates
  <2> HIDE DEF r
  <2> QED BY <2>1 DEF Good, Updated, r
<1>3. ASSUME NEW o \in BOOLEAN PROVE Updated([s EXCEPT !.ok = o], s, s.tables, s.tlb, o)
  <2> DEFINE r == [s EXCEPT !.ok = o]
  <2>1. r = [bitmap |-> s.bitmap, free_pages |-> s.free_pages, held |-> s.held,
             tables |-> s.tables, tlb |-> s.tlb, ok |-> o] /\ r \in MemStates
    BY <1>1 DEF MemStates
  <2> HIDE DEF r
  <2> QED BY <2>1 DEF Good, Updated, r
<1>4. ASSUME NEW d, NEW v
      PROVE  Updated(invalidate_page(s, d, v), s, s.tables, Flushed(s.tlb, d, v), s.ok)
  <2> DEFINE b == Flushed(s.tlb, d, v)
             r == [s EXCEPT !.tlb = b]
  <2>1. invalidate_page(s, d, v) = r
    BY <1>1 DEF invalidate_page, Flushed, MemStates
  <2>2. b \in SUBSET (Nat \X Pages)
    BY <1>1 DEF Flushed, MemStates
  <2> HIDE DEF b
  <2>3. r = [bitmap |-> s.bitmap, free_pages |-> s.free_pages, held |-> s.held,
             tables |-> s.tables, tlb |-> b, ok |-> s.ok] /\ r \in MemStates
    BY <1>1, <2>2 DEF MemStates
  <2> HIDE DEF r
  <2>4. Updated(r, s, s.tables, b, s.ok)
    BY <2>3 DEF Good, Updated
  <2> QED BY <2>1, <2>4 DEF b
<1> QED BY <1>2, <1>3, <1>4

\* The directories of a site.
LEMMA SiteFacts ==
  ASSUME NEW s, NEW D, NEW X, NEW L, NEW root, NEW n, Site(s, D, X, L, root, n)
  PROVE  /\ Good(s) /\ s \in MemStates /\ s.tables \in Tables /\ s.held \subseteq Pages
         /\ root \in D /\ D \subseteq s.held /\ L \subseteq s.held /\ D \cap L = {}
BY RolesDiffer DEF Site, Good, MemStates, Owned, RolesExact, Laid

\* Only the tables and the pages in use matter.
LEMMA SiteUpdated ==
  ASSUME NEW s, NEW D, NEW X, NEW L, NEW root, NEW n, Site(s, D, X, L, root, n),
         NEW r, Good(r), r.tables = s.tables, r.held = s.held
  PROVE  Site(r, D, X, L, root, n)
BY DEF Site

\* The same walks make the same site.
LEMMA SiteWalked ==
  ASSUME NEW s, NEW D, NEW X, NEW L, NEW root, NEW n, Site(s, D, X, L, root, n),
         NEW r, Good(r), r.held = s.held, SameWalks(r.tables, s.tables, D)
  PROVE  Site(r, D, X, L, root, n)
<1>1. s.tables \in Tables /\ r.tables \in Tables
  BY DEF Site, Good, MemStates
<1>2. PICK own : Owned(own, s.tables, s.held, D, X, L, root)
  BY DEF Site, Laid
<1>3. Owned(own, r.tables, s.held, D, X, L, root)
      /\ \A m : KernelMap(s.tables, root, m) => KernelMap(r.tables, root, m)
  BY <1>1, <1>2, SameViews
<1> QED BY <1>3 DEF Site, Laid

\* r is s after page p was taken: it is spare and cleared.
Took(r, s, p, D, X, L, root, n) ==
  /\ Site(r, D, X, L \cup {p}, root, n) /\ SameWalks(r.tables, s.tables, D)
  /\ r.held = s.held \cup {p} /\ p \in Pages /\ p \notin s.held /\ p \notin L /\ p # 0
  /\ r.tables[p] = Cleared /\ \A q \in Pages : q # p => r.tables[q] = s.tables[q]
  /\ r.tlb = s.tlb /\ r.ok = s.ok

\* A page is allocated and cleared.
LEMMA SiteTakes ==
  ASSUME Machine, NEW s, NEW D, NEW X, NEW L, NEW root, NEW n, Site(s, D, X, L, root, n),
         FreeOf(s) # {}
  PROVE  Took(Fresh(s), s, First(FreeOf(s)), D, X, L, root, n)
<1> DEFINE p == First(FreeOf(s))
           r == Fresh(s)
<1>1. Takes(r, s, p) /\ Usable(p)
  BY FreshTakes DEF Site
<1> HIDE DEF p, r
<1>2. /\ Good(r) /\ p \in Pages /\ p \notin s.held /\ r.held = s.held \cup {p}
      /\ r.tables = [s.tables EXCEPT ![p] = Cleared] /\ r.tlb = s.tlb /\ r.ok = s.ok
  BY <1>1 DEF Takes
<1>3. p # 0
  BY <1>1, <1>2, ZeroUnusable
<1>4. s.tables \in Tables /\ r.tables \in Tables
  BY <1>2 DEF Site, Good, MemStates
<1>5. r.tables[p] = Cleared /\ \A q \in Pages : q # p => r.tables[q] = s.tables[q]
  BY <1>2, <1>4 DEF Tables
<1>6. PICK own : Owned(own, s.tables, s.held, D, X, L, root)
  BY DEF Site, Laid
<1>7. own[p] = NoRole /\ p \notin L
  BY <1>2, <1>6, RolesDiffer DEF Owned, RolesExact
<1>8. SameWalks(r.tables, s.tables, D)
  <2> DEFINE S == {p}
  <2>1. /\ \A q \in S : q \in Pages => own[q] \in {NoRole, SpareRole}
        /\ \A q \in Pages : q \notin S => r.tables[q] = s.tables[q]
    BY <1>5, <1>7
  <2> HIDE DEF S
  <2> QED BY <1>4, <1>6, <2>1, WriteSpare
<1>9. Owned(own, r.tables, s.held, D, X, L, root) /\ KernelMap(r.tables, root, n)
  BY <1>4, <1>6, <1>8, SameViews DEF Site, Laid
<1>10. Laid(r.tables, s.held \cup {p}, D, X, L \cup {p}, root)
  BY <1>2, <1>9, RoleTaken
<1>11. Site(r, D, X, L \cup {p}, root, n)
  BY <1>2, <1>9, <1>10 DEF Site, Laid
<1>12. Took(r, s, p, D, X, L, root, n)
  BY <1>2, <1>3, <1>5, <1>7, <1>8, <1>11 DEF Took
<1> QED BY <1>12 DEF p, r

\* Spare pages are given back.
LEMMA SiteGives ==
  ASSUME NEW s, NEW D, NEW X, NEW L, NEW root, NEW n, Site(s, D, X, L, root, n),
         NEW S \in SUBSET L, NEW r, Gives(r, s, S)
  PROVE  Site(r, D, X, L \ S, root, n)
<1>1. PICK own : Owned(own, s.tables, s.held, D, X, L, root)
  BY DEF Site, Laid
<1>2. Laid(s.tables, s.held \ S, D, X, L \ S, root)
  BY <1>1, RoleGiven
<1> QED BY <1>2 DEF Site, Gives, Laid

\* The direct map depends on the entries only.
LEMMA KernelAlike ==
  ASSUME NEW t, NEW t2, NEW D, NEW root \in D, NEW n, KernelMap(t, root, n), Alike(t2, t, D)
  PROVE  KernelMap(t2, root, n)
<1>1. \A v \in KernelVirt : vmm_get_page_entry(t2, root, v) = vmm_get_page_entry(t, root, v)
  BY Places DEF Alike
<1> QED BY <1>1 DEF KernelMap

\* r is s with a table for page v in directory d.
Tabled(r, s, d, v, D, X, L, root, n) ==
  /\ Site(r, D, X, L, root, n) /\ HasTable(r.tables, d, v) /\ Alike(r.tables, s.tables, D)
  /\ r.tlb = s.tlb /\ r.ok = s.ok

\* A missing table is made of a new page, an existing one may be opened to
\* ring 3; no mapping changes.
LEMMA SiteTable ==
  ASSUME Machine, NEW s, NEW D, NEW X, NEW L, NEW root, NEW n, Site(s, D, X, L, root, n),
         NEW d \in D, NEW v \in AllVirt, v \in UserVirt \/ D = {d}, NEW u \in BOOLEAN,
         HasTable(s.tables, d, v) \/ FreeOf(s) # {}
  PROVE  Tabled(WithTable(s, d, v, u), s, d, v, D, X, L, root, n)
<1> DEFINE i == page_directory_index(v)
           t == s.tables
           r == WithTable(s, d, v, u)
<1>1. i \in Indexes /\ (i \in UserIdx \/ D = {d})
  BY Places
<1>2. Good(s) /\ t \in Tables /\ root \in D /\ d \in Pages /\ KernelMap(t, root, n)
  BY SiteFacts DEF Site
<1>3. HasTable(t, d, v) <=> t[d][i].present
  BY DEF HasTable
<1>4. CASE HasTable(t, d, v)
  <2> DEFINE e == [t[d][i] EXCEPT !.user = t[d][i].user \/ u]
             t2 == [t EXCEPT ![d][i] = e]
  <2>1. r = [s EXCEPT !.tables = t2]
    BY <1>4 DEF WithTable
  <2>2. t[d][i] \in EntrySet
    BY <1>1, <1>2 DEF Tables, Rows
  <2>3. e \in EntrySet /\ e.present = t[d][i].present /\ e.frame = t[d][i].frame
    <3>1. (t[d][i].user \/ u) \in BOOLEAN
      OBVIOUS
    <3> QED BY <1>3, <1>4, <2>2, <3>1 DEF EntrySet
  <2> HIDE DEF e
  <2>4. PICK own : Owned(own, t, s.held, D, X, L, root)
    BY DEF Site, Laid
  <2>12. t2 = [t EXCEPT ![d][i] = e]
    OBVIOUS
  <2> HIDE DEF t2
  <2>5. Linked(t2, t, s.held, D, X, L, root, d, i, e)
    BY <1>1, <1>2, <1>3, <1>4, <2>3, <2>4, <2>12, DirectoryTouched
  <2>6. Updated(r, s, t2, s.tlb, s.ok)
    BY <1>2, <2>1, <2>5, Updates DEF Linked
  <2>7. Alike(t2, t, D)
    BY <2>5 DEF Linked
  <2>8. KernelMap(t2, root, n)
    BY <1>2, <2>7, KernelAlike
  <2>9. HasTable(t2, d, v)
    BY <1>3, <1>4, <2>3, <2>5 DEF HasTable, Linked
  <2> HIDE DEF r
  <2>10. Site(r, D, X, L, root, n)
    BY <2>5, <2>6, <2>8 DEF Site, Updated, Linked, Laid
  <2>11. Tabled(r, s, d, v, D, X, L, root, n)
    BY <2>6, <2>7, <2>9, <2>10 DEF Tabled, Updated
  <2> QED BY <2>11 DEF r
<1>5. CASE ~HasTable(t, d, v)
  <2> DEFINE f == Fresh(s)
             q == First(FreeOf(s))
             M == L \cup {q}
             t2 == [f.tables EXCEPT ![d][i] = Entry(q, u)]
  <2>1. r = [f EXCEPT !.tables = t2]
    BY <1>5 DEF WithTable
  <2>2. Took(f, s, q, D, X, L, root, n)
    BY <1>5, SiteTakes
  <2> HIDE DEF f, q
  <2>3. /\ Site(f, D, X, M, root, n) /\ SameWalks(f.tables, t, D) /\ q \notin L /\ q \in M
        /\ f.tables[q] = Cleared /\ f.tlb = s.tlb /\ f.ok = s.ok /\ M \ {q} = L
    BY <2>2 DEF Took
  <2> HIDE DEF M
  <2>4. Good(f) /\ f.tables \in Tables /\ KernelMap(f.tables, root, n)
    BY <2>3, SiteFacts DEF Site
  <2>5. ~f.tables[d][i].present
    BY <1>3, <1>5, <2>3 DEF SameWalks
  <2>6. PICK own : Owned(own, f.tables, f.held, D, X, M, root)
    BY <2>3 DEF Site, Laid
  <2>14. t2 = [f.tables EXCEPT ![d][i] = Entry(q, u)]
    OBVIOUS
  <2> HIDE DEF t2
  <2>7. Linked(t2, f.tables, f.held, D, X, M \ {q}, root, d, i, Entry(q, u))
    BY <1>1, <2>3, <2>4, <2>5, <2>6, <2>14, TableLinked DEF Machine
  <2>8. Updated(r, f, t2, f.tlb, f.ok)
    BY <2>1, <2>4, <2>7, Updates DEF Linked
  <2>9. Alike(t2, f.tables, D) /\ Alike(t2, t, D)
    BY <2>3, <2>7 DEF Alike, SameWalks, Linked
  <2>10. KernelMap(t2, root, n)
    BY <1>2, <2>4, <2>9, KernelAlike
  <2>11. HasTable(t2, d, v)
    BY <2>7 DEF HasTable, Entry, Linked
  <2> HIDE DEF r
  <2>12. Site(r, D, X, L, root, n)
    BY <2>3, <2>7, <2>8, <2>10 DEF Site, Updated, Linked, Laid
  <2>13. Tabled(r, s, d, v, D, X, L, root, n)
    BY <2>3, <2>8, <2>9, <2>11, <2>12 DEF Tabled, Updated
  <2> QED BY <2>13 DEF r
<1> QED BY <1>4, <1>5

\* An entry is written and its translation dropped.
LEMMA EntryUpdates ==
  ASSUME NEW s, Good(s), NEW d \in Pages, NEW v \in AllVirt, HasTable(s.tables, d, v),
         NEW e \in EntrySet, NEW t2,
         t2 = [s.tables EXCEPT ![s.tables[d][page_directory_index(v)].frame][page_table_index(v)] = e]
  PROVE  /\ Updated(SetEntry(s, d, v, e), s, t2, s.tlb, s.ok)
         /\ Updated(invalidate_page(SetEntry(s, d, v, e), d, v), s, t2, Flushed(s.tlb, d, v), s.ok)
<1> DEFINE t == s.tables
           i == page_directory_index(v)
           k == page_table_index(v)
           f == t[d][i].frame
           r == SetEntry(s, d, v, e)
<1>1. i \in Indexes /\ k \in Indexes /\ t \in Tables
  BY Places DEF Good, MemStates
<1>2. f \in Pages
  BY <1>1, WalkFacts
<1>3. r = [s EXCEPT !.tables = t2]
  BY DEF SetEntry
<1>4. t2 \in Tables
  <2>1. t2 = [t EXCEPT ![f][k] = e]
    OBVIOUS
  <2> HIDE DEF t, f, k
  <2>2. IsWritten([t EXCEPT ![f][k] = e], t, f, k, e)
    BY <1>1, <1>2, CellWritten, Zenon
  <2>3. IsWritten(t2, t, f, k, e)
    BY <2>1, <2>2, Zenon
  <2> QED BY <2>3 DEF IsWritten
<1>5. Updated(r, s, t2, s.tlb, s.ok)
  BY <1>3, <1>4, Updates
<1> HIDE DEF r
<1>6. Updated(invalidate_page(r, d, v), r, r.tables, Flushed(r.tlb, d, v), r.ok)
  BY <1>5, Updates DEF Updated
<1>7. Updated(invalidate_page(r, d, v), s, t2, Flushed(s.tlb, d, v), s.ok)
  BY <1>5, <1>6 DEF Updated
<1> QED BY <1>5, <1>7 DEF r

\* r is s with entry e for page v in directory d.
Mapped(r, s, d, v, e, D, X, L, root, n) ==
  /\ Site(r, D, X, L, root, n) /\ vmm_get_page_entry(r.tables, d, v) = e
  /\ AlikeBut(r.tables, s.tables, D, d, v) /\ r.tlb = Flushed(s.tlb, d, v)

\* A user page leaves the direct map alone.
LEMMA KernelAlikeBut ==
  ASSUME NEW t, NEW t2, NEW D, NEW root \in D, NEW n, KernelMap(t, root, n),
         NEW d, NEW v \in UserVirt, AlikeBut(t2, t, D, d, v)
  PROVE  KernelMap(t2, root, n)
<1>1. \A w \in KernelVirt : w # v /\ w \in AllVirt
  BY Places
<1>2. \A w \in KernelVirt : vmm_get_page_entry(t2, root, w) = vmm_get_page_entry(t, root, w)
  BY <1>1 DEF AlikeBut
<1> QED BY <1>2 DEF KernelMap

\* What a written entry looks like.
LEMMA WrittenAlike ==
  ASSUME NEW t2, NEW t, NEW own, NEW D, NEW d \in D, NEW v \in AllVirt, NEW e,
         EntryWritten(t2, t, own, D, d, v, e)
  PROVE  AlikeBut(t2, t, D, d, v) /\ vmm_get_page_entry(t2, d, v) = e
BY DEF EntryWritten, AlikeBut

\* r is s with the spare page q at v in d, or, with r.ok FALSE, s.
MapTried(r, s, d, v, q, u, D, X, L, root, n) ==
  \/ r.ok = TRUE /\ Mapped(r, s, d, v, Entry(q, u), D, X \ {<<d, v>>}, L \ {q}, root, n)
  \/ r.ok = FALSE /\ Updated(r, s, s.tables, s.tlb, FALSE)

\* map_page_in_directory links a spare page, or fails and changes nothing.
LEMMA SiteMaps ==
  ASSUME Machine, NEW s, NEW D, NEW X, NEW L, NEW root, NEW n, Site(s, D, X, L, root, n),
         NEW d \in D, NEW v \in UserVirt, NEW q \in L, NEW u \in BOOLEAN,
         ~vmm_get_page_entry(s.tables, d, v).present \/ <<d, v>> \in X,
         NEW r, r = map_page_in_directory(s, d, v, q, u)
  PROVE  MapTried(r, s, d, v, q, u, D, X, L, root, n)
<1>1. Good(s) /\ s.tables \in Tables /\ root \in D /\ D \subseteq Pages /\ v \in AllVirt /\ q \in Pages
  BY SiteFacts, Places
<1>2. CASE ~HasTable(s.tables, d, v) /\ FreeOf(s) = {}
  <2>1. r = [s EXCEPT !.ok = FALSE]
    BY <1>2 DEF map_page_in_directory
  <2>2. Updated(r, s, s.tables, s.tlb, FALSE)
    BY <1>1, <2>1, Updates
  <2> QED BY <2>2 DEF Updated, MapTried
<1>3. CASE ~(~HasTable(s.tables, d, v) /\ FreeOf(s) = {})
  <2> DEFINE m == WithTable(s, d, v, u)
             e == Entry(q, u)
             t2 == [m.tables EXCEPT ![m.tables[d][page_directory_index(v)].frame][page_table_index(v)] = e]
             w == invalidate_page(SetEntry(m, d, v, e), d, v)
  <2>1. Tabled(m, s, d, v, D, X, L, root, n)
    BY <1>1, <1>3, SiteTable
  <2>2. r = [w EXCEPT !.ok = TRUE]
    BY <1>3 DEF map_page_in_directory
  <2>3. e \in EntrySet /\ e.present /\ e.frame = q
    BY <1>1, EntryMade DEF Machine
  <2>10. t2 = [m.tables EXCEPT ![m.tables[d][page_directory_index(v)].frame][page_table_index(v)] = e]
    OBVIOUS
  <2> HIDE DEF m, e, t2
  <2>4. /\ Site(m, D, X, L, root, n) /\ HasTable(m.tables, d, v) /\ Alike(m.tables, s.tables, D)
        /\ m.tlb = s.tlb /\ Good(m) /\ m.tables \in Tables /\ KernelMap(m.tables, root, n)
    BY <2>1, SiteFacts DEF Tabled, Site
  <2>5. Updated(w, m, t2, Flushed(m.tlb, d, v), m.ok)
    BY <1>1, <2>3, <2>4, <2>10, EntryUpdates
  <2> HIDE DEF w
  <2>6. Updated(r, w, w.tables, w.tlb, TRUE)
    <3>1. Good(w)
      BY <2>5 DEF Updated
    <3>2. Updated([w EXCEPT !.ok = TRUE], w, w.tables, w.tlb, TRUE)
      BY <3>1, Updates, Zenon
    <3> QED BY <2>2, <3>2
  <2>7. PICK own : Owned(own, m.tables, m.held, D, X, L, root)
    BY <2>4 DEF Site, Laid
  <2>8. EntryWritten(t2, m.tables, own, D, d, v, e)
    BY <1>1, <2>3, <2>4, <2>7, <2>10, WriteEntry
  <2>9. vmm_get_page_entry(m.tables, d, v) = vmm_get_page_entry(s.tables, d, v)
    BY <1>1, <2>4 DEF Alike
  <2>11. Laid(t2, m.held, D, X \ {<<d, v>>}, L \ {q}, root)
    <3>1. ~vmm_get_page_entry(m.tables, d, v).present \/ <<d, v>> \in X
      BY <2>9
    <3> QED BY <2>3, <2>4, <2>7, <2>8, <3>1, PageLinked, Zenon
  <2>12. AlikeBut(t2, m.tables, D, d, v) /\ vmm_get_page_entry(t2, d, v) = e
    BY <1>1, <2>8, WrittenAlike
  <2>13. KernelMap(t2, root, n)
    BY <1>1, <2>4, <2>12, KernelAlikeBut
  <2>14. AlikeBut(t2, s.tables, D, d, v)
    BY <2>4, <2>12 DEF Alike, AlikeBut
  <2>15. Good(r) /\ r.tables = t2 /\ r.held = m.held /\ r.tlb = Flushed(s.tlb, d, v) /\ r.ok = TRUE
    BY <2>4, <2>5, <2>6 DEF Updated
  <2>16. Site(r, D, X \ {<<d, v>>}, L \ {q}, root, n)
    BY <2>11, <2>13, <2>15 DEF Site, Laid
  <2>17. Mapped(r, s, d, v, e, D, X \ {<<d, v>>}, L \ {q}, root, n)
    BY <2>12, <2>14, <2>15, <2>16 DEF Mapped
  <2> QED BY <2>15, <2>17 DEF e, MapTried
<1> QED BY <1>2, <1>3

Rewritten(r, s, d, v, e, D, X, L, root, n) ==
  /\ Site(r, D, X, L, root, n) /\ r.tlb = s.tlb /\ r.held = s.held /\ r.bitmap = s.bitmap
  /\ vmm_get_page_entry(r.tables, d, v) = e /\ AlikeBut(r.tables, s.tables, D, d, v)

\* An entry that keeps its page, or no longer counts, is rewritten.
LEMMA SiteTouches ==
  ASSUME NEW s, NEW D, NEW X, NEW L, NEW root, NEW n, Site(s, D, X, L, root, n),
         NEW d \in D, NEW v \in UserVirt, vmm_get_page_entry(s.tables, d, v).present,
         NEW e \in EntrySet,
         \/ /\ e.present = vmm_get_page_entry(s.tables, d, v).present
            /\ e.frame = vmm_get_page_entry(s.tables, d, v).frame
         \/ <<d, v>> \in X
  PROVE  /\ Mapped(invalidate_page(SetEntry(s, d, v, e), d, v), s, d, v, e, D, X, L, root, n)
         /\ Rewritten(SetEntry(s, d, v, e), s, d, v, e, D, X, L, root, n)
         /\ invalidate_page(SetEntry(s, d, v, e), d, v).ok = s.ok
<1> DEFINE t == s.tables
           r == SetEntry(s, d, v, e)
           w == invalidate_page(r, d, v)
           t2 == [t EXCEPT ![t[d][page_directory_index(v)].frame][page_table_index(v)] = e]
<1>1. Good(s) /\ t \in Tables /\ root \in D /\ D \subseteq Pages /\ v \in AllVirt
      /\ KernelMap(t, root, n)
  <2>1. Good(s) /\ t \in Tables /\ root \in D /\ D \subseteq Pages
    BY SiteFacts
  <2>2. v \in AllVirt /\ KernelMap(t, root, n)
    BY Places DEF Site
  <2> QED BY <2>1, <2>2
<1>2. HasTable(t, d, v)
  BY <1>1, WalkFacts, EmptyRows
<1>3. t2 = [t EXCEPT ![t[d][page_directory_index(v)].frame][page_table_index(v)] = e]
  OBVIOUS
<1> HIDE DEF t2
<1>4. Updated(r, s, t2, s.tlb, s.ok) /\ Updated(w, s, t2, Flushed(s.tlb, d, v), s.ok)
  BY <1>1, <1>2, <1>3, EntryUpdates
<1> HIDE DEF r, w
<1>5. PICK own : Owned(own, t, s.held, D, X, L, root)
  BY DEF Site, Laid
<1>6. EntryWritten(t2, t, own, D, d, v, e)
  BY <1>1, <1>2, <1>3, <1>5, WriteEntry
<1>7. Owned(own, t2, s.held, D, X, L, root)
  BY <1>1, <1>5, <1>6, PageTouched
<1>8. AlikeBut(t2, t, D, d, v) /\ vmm_get_page_entry(t2, d, v) = e
  BY <1>1, <1>6, WrittenAlike
<1>9. KernelMap(t2, root, n)
  BY <1>1, <1>8, KernelAlikeBut
<1>10. Site(r, D, X, L, root, n) /\ Site(w, D, X, L, root, n)
  BY <1>4, <1>7, <1>9 DEF Site, Updated, Laid
<1>11. Mapped(w, s, d, v, e, D, X, L, root, n)
  BY <1>4, <1>8, <1>10 DEF Mapped, Updated
<1>12. Rewritten(r, s, d, v, e, D, X, L, root, n)
  BY <1>4, <1>8, <1>10 DEF Updated, Rewritten
<1> QED BY <1>4, <1>11, <1>12 DEF Updated, r, w

\* unmap_page_in_directory leaves the page spare.
LEMMA SiteUnmaps ==
  ASSUME NEW s, NEW D, NEW X, NEW L, NEW root, NEW n, Site(s, D, X, L, root, n),
         NEW d \in D, NEW v \in UserVirt, vmm_get_page_entry(s.tables, d, v).present,
         <<d, v>> \notin X, NEW r, r = unmap_page_in_directory(s, d, v)
  PROVE  /\ Mapped(r, s, d, v, NoEntry, D, X, L \cup {vmm_get_page_entry(s.tables, d, v).frame}, root, n)
         /\ r.ok = s.ok
<1> DEFINE Y == X \cup {<<d, v>>}
           M == L \cup {vmm_get_page_entry(s.tables, d, v).frame}
<1>1. r = invalidate_page(SetEntry(s, d, v, NoEntry), d, v)
  BY DEF unmap_page_in_directory
<1>2. Y \ {<<d, v>>} = X /\ <<d, v>> \in Y
  OBVIOUS
<1>3. PICK own : Owned(own, s.tables, s.held, D, X, L, root)
  BY DEF Site, Laid
<1>4. Laid(s.tables, s.held, D, Y, M, root)
  BY <1>3, RoleHidden
<1> HIDE DEF Y, M
<1>5. Site(s, D, Y, M, root, n)
  BY <1>4 DEF Site, Laid
<1>6. Mapped(r, s, d, v, NoEntry, D, Y, M, root, n) /\ r.ok = s.ok
  BY <1>1, <1>2, <1>5, SiteTouches, EmptyRows
<1>7. PICK own3 : Owned(own3, r.tables, r.held, D, Y, M, root)
  BY <1>6 DEF Mapped, Site, Laid
<1>8. Owned(own3, r.tables, r.held, D, X, M, root)
  BY <1>2, <1>6, <1>7, ExceptionEnded, EmptyRows DEF Mapped
<1>9. Site(r, D, X, M, root, n)
  BY <1>6, <1>8 DEF Mapped, Site, Laid
<1>10. Mapped(r, s, d, v, NoEntry, D, X, M, root, n)
  BY <1>6, <1>9 DEF Mapped
<1> QED BY <1>6, <1>10 DEF M

\* r is s with entry e for page v in d, or, with r.ok FALSE, without a change.
MappedNew(r, s, d, v, u, D, X, L, root, n) ==
  \/ /\ r.ok = TRUE /\ FreeOf(s) # {}
     /\ First(FreeOf(s)) \in Pages \ {0} /\ First(FreeOf(s)) \notin s.held
     /\ Mapped(r, s, d, v, Entry(First(FreeOf(s)), u), D, X \ {<<d, v>>}, L, root, n)
  \/ /\ r.ok = FALSE /\ Site(r, D, X, L, root, n)
     /\ SameWalks(r.tables, s.tables, D) /\ r.tlb = s.tlb /\ r.held = s.held

\* alloc_and_map_page maps a new page, or keeps nothing.
LEMMA SiteMapsNew ==
  ASSUME Machine, NEW s, NEW D, NEW X, NEW L, NEW root, NEW n, Site(s, D, X, L, root, n),
         NEW d \in D, NEW v \in UserVirt, NEW u \in BOOLEAN,
         ~vmm_get_page_entry(s.tables, d, v).present \/ <<d, v>> \in X
  PROVE  MappedNew(alloc_and_map_page(s, d, v, u), s, d, v, u, D, X, L, root, n)
<1> DEFINE r == alloc_and_map_page(s, d, v, u)
           q == First(FreeOf(s))
           f == Fresh(s)
           m == map_page_in_directory(f, d, v, q, u)
           M == L \cup {q}
<1>1. Good(s) /\ D \subseteq Pages /\ v \in AllVirt
  BY SiteFacts, Places
<1>2. CASE FreeOf(s) = {}
  <2>1. r = [s EXCEPT !.ok = FALSE]
    BY <1>2 DEF alloc_and_map_page
  <2> HIDE DEF r
  <2>2. Updated(r, s, s.tables, s.tlb, FALSE)
    BY <1>1, <2>1, Updates
  <2>3. Site(r, D, X, L, root, n)
    BY <2>2, SiteUpdated DEF Updated
  <2>4. SameWalks(r.tables, s.tables, D)
    BY <2>2 DEF SameWalks, Updated
  <2> QED BY <2>2, <2>3, <2>4 DEF MappedNew, Updated, r
<1>3. CASE FreeOf(s) # {}
  <2>1. Took(f, s, q, D, X, L, root, n)
    BY <1>3, SiteTakes
  <2>2. r = IF m.ok THEN m ELSE pmm_free_page(m, q)
    BY <1>3 DEF alloc_and_map_page
  <2>3. m = map_page_in_directory(f, d, v, q, u)
    OBVIOUS
  <2> HIDE DEF f, q, m, r
  <2>4. /\ Site(f, D, X, M, root, n) /\ SameWalks(f.tables, s.tables, D) /\ q \in M /\ M \ {q} = L
        /\ f.held = s.held \cup {q} /\ f.tlb = s.tlb /\ q \in Pages \ {0} /\ q \notin s.held
    BY <2>1 DEF Took
  <2> HIDE DEF M
  <2>5. ~vmm_get_page_entry(f.tables, d, v).present \/ <<d, v>> \in X
    BY <1>1, <2>4 DEF SameWalks
  <2>6. \/ m.ok = TRUE /\ Mapped(m, f, d, v, Entry(q, u), D, X \ {<<d, v>>}, M \ {q}, root, n)
        \/ m.ok = FALSE /\ Updated(m, f, f.tables, f.tlb, FALSE)
    <3>1. MapTried(m, f, d, v, q, u, D, X, M, root, n)
      BY <2>3, <2>4, <2>5, SiteMaps
    <3> QED BY <3>1 DEF MapTried
  <2>7. CASE m.ok = TRUE /\ Mapped(m, f, d, v, Entry(q, u), D, X \ {<<d, v>>}, L, root, n)
    <3>1. AlikeBut(m.tables, s.tables, D, d, v)
      BY <2>4, <2>7 DEF Mapped, AlikeBut, SameWalks
    <3>2. Mapped(m, s, d, v, Entry(q, u), D, X \ {<<d, v>>}, L, root, n)
      BY <2>4, <2>7, <3>1 DEF Mapped
    <3>3. r = m
      BY <2>2, <2>7
    <3> QED BY <1>3, <2>4, <2>7, <3>2, <3>3 DEF MappedNew, r, q
  <2>8. CASE m.ok = FALSE /\ Updated(m, f, f.tables, f.tlb, FALSE)
    <3> DEFINE S == {q}
    <3>1. r = pmm_free_page(m, q)
      BY <2>2, <2>8
    <3>2. Site(m, D, X, M, root, n) /\ Good(m) /\ m.held = f.held /\ m.tables = f.tables /\ m.tlb = f.tlb
      BY <2>4, <2>8, SiteUpdated DEF Updated
    <3>3. S \in SUBSET m.held /\ S \in SUBSET M /\ q \in S /\ S = {q}
      BY <2>4, <3>2
    <3> HIDE DEF S
    <3>4. Gives(r, m, S)
      BY <3>1, <3>2, <3>3, FreeGives
    <3>5. Site(r, D, X, M \ S, root, n)
      BY <3>2, <3>3, <3>4, SiteGives
    <3>6. r.tables = f.tables /\ r.tlb = s.tlb /\ r.ok = FALSE /\ r.held = s.held
      BY <2>4, <2>8, <3>2, <3>3, <3>4 DEF Gives
    <3> QED BY <2>4, <3>3, <3>5, <3>6 DEF MappedNew, r
  <2> QED BY <2>4, <2>6, <2>7, <2>8
<1> QED BY <1>2, <1>3

-----------------------------------------------------------------------------
(* Releasing pages: the loops of pager.c and memdemo.c.                    *)

\* Unmapping keeps the type of the state.
LEMMA UnmapTyped ==
  ASSUME NEW s \in MemStates, NEW d \in Pages, NEW v \in AllVirt
  PROVE  unmap_page_in_directory(s, d, v) \in MemStates
<1> DEFINE t == s.tables
           r == SetEntry(s, d, v, NoEntry)
           f == t[d][page_directory_index(v)].frame
           k == page_table_index(v)
           t2 == [t EXCEPT ![f][k] = NoEntry]
<1>1. CASE ~vmm_get_page_entry(t, d, v).present
  BY <1>1 DEF unmap_page_in_directory
<1>2. CASE vmm_get_page_entry(t, d, v).present
  <2>1. t \in Tables
    BY DEF MemStates
  <2>2. HasTable(t, d, v)
    BY <1>2, <2>1, WalkFacts, EmptyRows
  <2>3. f \in Pages /\ k \in Indexes
    BY <2>1, <2>2, WalkFacts, Places
  <2>4. r = [s EXCEPT !.tables = t2]
    BY DEF SetEntry
  <2> HIDE DEF f, k, t
  <2>5. IsWritten(t2, t, f, k, NoEntry)
    BY <2>1, <2>3, EmptyRows, CellWritten, Zenon
  <2>6. t2 \in Tables
    BY <2>5 DEF IsWritten
  <2> HIDE DEF t2, r
  <2>7. r \in MemStates
    BY <2>4, <2>6 DEF MemStates
  <2>8. invalidate_page(r, d, v) \in MemStates
    BY <2>7 DEF invalidate_page, MemStates
  <2> QED BY <1>2, <2>8 DEF unmap_page_in_directory, r, t
<1> QED BY <1>1, <1>2

\* g is the function of the loop that unmaps the pages one by one.
Unmaps(g, s, d, pages) ==
  /\ g \in [SUBSET pages -> MemStates]
  /\ \A S \in SUBSET pages :
       g[S] = IF S = {} THEN s
              ELSE unmap_page_in_directory(g[S \ {CHOOSE p \in S : TRUE}], d,
                                           (CHOOSE p \in S : TRUE)[1])

\* Release is that loop, then the freeing of the pages.
LEMMA ReleaseRuns ==
  ASSUME NEW s \in MemStates, NEW d \in Pages, NEW pages, IsFiniteSet(pages),
         \A p \in pages : p[1] \in UserVirt
  PROVE  \E g : /\ Unmaps(g, s, d, pages)
                /\ Release(s, d, pages) = FreeAll(g[pages], {p[2] : p \in pages})
<1> DEFINE Pick(S) == CHOOSE p \in S : TRUE
           Body(g) == [S \in SUBSET pages |->
                         IF S = {} THEN s
                         ELSE unmap_page_in_directory(g[S \ {Pick(S)}], d, Pick(S)[1])]
           B == [px \in pages \X MemStates |-> unmap_page_in_directory(px[2], d, px[1][1])]
           U == CHOOSE g : g = Body(g)
           frames == {p[2] : p \in pages}
<1>1. Release(s, d, pages) = FreeAll(U[pages], frames)
  BY DEF Release
<1>2. \A p \in pages, x \in MemStates : unmap_page_in_directory(x, d, p[1]) \in MemStates
  BY UnmapTyped, Places
<1>3. B \in [pages \X MemStates -> MemStates]
      /\ \A p \in pages, x \in MemStates : B[<<p, x>>] = unmap_page_in_directory(x, d, p[1])
  BY <1>2
<1> HIDE DEF B
<1>11. PICK f : IsSetRun(f, s, B, pages, MemStates)
  BY <1>3, SubsetRecursion
<1>4. /\ f \in [SUBSET pages -> MemStates]
      /\ \A S \in SUBSET pages :
           f[S] = IF S = {} THEN s
                  ELSE B[<<CHOOSE p \in S : TRUE, f[S \ {CHOOSE p \in S : TRUE}]>>]
  BY <1>11 DEF IsSetRun
<1>5. \A S \in SUBSET pages : S # {} => Pick(S) \in pages /\ S \ {Pick(S)} \in SUBSET pages
  OBVIOUS
<1>6. f = Body(f)
  <2>1. ASSUME NEW S \in SUBSET pages
        PROVE  f[S] = IF S = {} THEN s
                      ELSE unmap_page_in_directory(f[S \ {Pick(S)}], d, Pick(S)[1])
    <3>1. CASE S = {}
      BY <1>4, <3>1
    <3>2. CASE S # {}
      <4>1. f[S] = B[<<Pick(S), f[S \ {Pick(S)}]>>]
        BY <1>4, <3>2
      <4> HIDE DEF Pick
      <4>2. Pick(S) \in pages /\ f[S \ {Pick(S)}] \in MemStates
        BY <1>4, <1>5, <3>2
      <4> QED BY <1>3, <3>2, <4>1, <4>2
    <3> QED BY <3>1, <3>2
  <2> HIDE DEF Pick
  <2> QED BY <1>4, <2>1
<1>7. U = Body(U)
  <2> HIDE DEF Body
  <2> QED BY <1>6
<1> HIDE DEF U
<1>8. ASSUME NEW S \in SUBSET pages
      PROVE  U[S] = IF S = {} THEN s
                    ELSE unmap_page_in_directory(U[S \ {Pick(S)}], d, Pick(S)[1])
  <2> HIDE DEF Pick
  <2> QED BY <1>7
<1>9. U \in [SUBSET pages -> MemStates]
  <2> DEFINE T == {S \in SUBSET pages : U[S] \in MemStates}
  <2>1. {} \in T
    BY <1>8
  <2>2. ASSUME NEW S \in SUBSET pages, S # {}, S \ {CHOOSE p \in S : TRUE} \in T
        PROVE  S \in T
    <3>1. Pick(S) \in pages /\ U[S \ {Pick(S)}] \in MemStates
      BY <2>2
    <3>2. U[S] = unmap_page_in_directory(U[S \ {Pick(S)}], d, Pick(S)[1])
      BY <1>8, <2>2
    <3> HIDE DEF Pick
    <3> QED BY <1>2, <3>1, <3>2
  <2> HIDE DEF T
  <2>3. SUBSET pages \subseteq T
    BY <2>1, <2>2, SubsetInduction
  <2>6. \A S \in SUBSET pages : U[S] \in MemStates
    BY <2>3 DEF T
  <2>7. U = [S \in SUBSET pages |-> U[S]]
    BY <1>7
  <2> QED BY <2>6, <2>7
<1>10. Unmaps(U, s, d, pages)
  BY <1>8, <1>9 DEF Unmaps
<1> QED BY <1>1, <1>10

\* r is s with the pages of S unmapped in d and spare pages M.
Without(r, s, d, S, D, X, M, root, n) ==
  /\ Site(r, D, X, M, root, n) /\ r.ok = s.ok
  /\ \A p \in S : vmm_get_page_entry(r.tables, d, p[1]) = NoEntry
  /\ \A c \in D, w \in AllVirt : ~(c = d /\ \E p \in S : w = p[1]) =>
       vmm_get_page_entry(r.tables, c, w) = vmm_get_page_entry(s.tables, c, w)
  /\ r.tlb = {b \in s.tlb : ~(d = current_page_directory_phys /\ \E p \in S : b[1] = p[1])}

\* The pages of a set that directory d maps, none of them excepted.
MapsAll(t, d, pages, X) ==
  /\ IsFiniteSet(pages) /\ pages \subseteq UserVirt \X Pages
  /\ \A p \in pages : /\ vmm_get_page_entry(t, d, p[1]).present
                      /\ vmm_get_page_entry(t, d, p[1]).frame = p[2]
                      /\ <<d, p[1]>> \notin X

\* One more page is unmapped.
LEMMA WithoutOneMore ==
  ASSUME NEW s, NEW D, NEW X, NEW L, NEW root, NEW n, Site(s, D, X, L, root, n),
         NEW d \in D, NEW pages, MapsAll(s.tables, d, pages, X),
         NEW S \in SUBSET pages, NEW p \in S, NEW x, NEW M,
         Without(x, s, d, S \ {p}, D, X, M, root, n)
  PROVE  Without(unmap_page_in_directory(x, d, p[1]), s, d, S, D, X, M \cup {p[2]}, root, n)
<1> DEFINE r == unmap_page_in_directory(x, d, p[1])
           v == p[1]
           R == S \ {p}
<1>1. /\ v \in UserVirt /\ v \in AllVirt /\ <<d, v>> \notin X
      /\ vmm_get_page_entry(s.tables, d, v).present /\ vmm_get_page_entry(s.tables, d, v).frame = p[2]
  BY Places DEF MapsAll
<1>2. ASSUME NEW q \in S, q[1] = v PROVE q = p
  <2>1. q \in pages /\ p \in pages /\ q \in UserVirt \X Pages /\ p \in UserVirt \X Pages
    BY DEF MapsAll
  <2>3. q[2] = vmm_get_page_entry(s.tables, d, q[1]).frame
        /\ p[2] = vmm_get_page_entry(s.tables, d, p[1]).frame
    BY <2>1 DEF MapsAll
  <2>2. q[2] = p[2]
    BY <1>2, <2>3
  <2> QED BY <1>2, <2>1, <2>2
<1>3. \A q \in R : q \in S /\ q[1] # v
  BY <1>2
<1>4. \A q \in S : q = p \/ q \in R
  OBVIOUS
<1>12. p \notin R
  OBVIOUS
<1> HIDE DEF R
<1>5. /\ Site(x, D, X, M, root, n) /\ x.ok = s.ok
      /\ \A q \in R : vmm_get_page_entry(x.tables, d, q[1]) = NoEntry
      /\ \A c \in D, w \in AllVirt : ~(c = d /\ \E q \in R : w = q[1]) =>
           vmm_get_page_entry(x.tables, c, w) = vmm_get_page_entry(s.tables, c, w)
      /\ x.tlb = {b \in s.tlb : ~(d = current_page_directory_phys /\ \E q \in R : b[1] = q[1])}
  BY DEF Without, R
<1>6. vmm_get_page_entry(x.tables, d, v) = vmm_get_page_entry(s.tables, d, v)
  BY <1>1, <1>3, <1>5
<1> HIDE DEF v
<1>7. Mapped(r, x, d, v, NoEntry, D, X, M \cup {p[2]}, root, n) /\ r.ok = x.ok
  <2>1. r = unmap_page_in_directory(x, d, v)
    BY DEF v
  <2> HIDE DEF r
  <2>2. /\ Mapped(r, x, d, v, NoEntry, D, X, M \cup {vmm_get_page_entry(x.tables, d, v).frame}, root, n)
        /\ r.ok = x.ok
    BY <1>1, <1>5, <1>6, <2>1, SiteUnmaps
  <2> QED BY <1>1, <1>6, <2>2
<1> HIDE DEF r
<1>8. /\ Site(r, D, X, M \cup {p[2]}, root, n) /\ vmm_get_page_entry(r.tables, d, v) = NoEntry
      /\ \A c \in D, w \in AllVirt : ~(c = d /\ w = v) =>
           vmm_get_page_entry(r.tables, c, w) = vmm_get_page_entry(x.tables, c, w)
      /\ r.tlb = Flushed(x.tlb, d, v)
  BY <1>7 DEF Mapped, AlikeBut
<1>9. ASSUME NEW q \in S PROVE vmm_get_page_entry(r.tables, d, q[1]) = NoEntry
  <2>1. CASE q = p
    BY <1>8, <2>1 DEF v
  <2>2. CASE q \in R
    <3>1. q[1] \in AllVirt
      BY Places DEF MapsAll
    <3> QED BY <1>3, <1>5, <1>8, <2>2, <3>1
  <2> QED BY <1>4, <2>1, <2>2
<1>10. ASSUME NEW c \in D, NEW w \in AllVirt, ~(c = d /\ \E q \in S : w = q[1])
       PROVE  vmm_get_page_entry(r.tables, c, w) = vmm_get_page_entry(s.tables, c, w)
  <2>1. ~(c = d /\ w = v) /\ ~(c = d /\ \E q \in R : w = q[1])
    BY <1>3, <1>10 DEF v
  <2> QED BY <1>5, <1>8, <2>1
<1>11. r.tlb = {b \in s.tlb : ~(d = current_page_directory_phys /\ \E q \in S : b[1] = q[1])}
  <2>1. \A b : (\E q \in S : b[1] = q[1]) <=> (\E q \in R : b[1] = q[1]) \/ b[1] = v
    BY <1>3, <1>4 DEF v
  <2> QED BY <1>5, <1>8, <2>1 DEF Flushed
<1>13. Without(r, s, d, S, D, X, M \cup {p[2]}, root, n)
  BY <1>5, <1>7, <1>8, <1>9, <1>10, <1>11 DEF Without
<1> QED BY <1>13 DEF r, v

\* Release unmaps the pages and gives them back.
LEMMA SiteReleases ==
  ASSUME Machine, NEW s, NEW D, NEW X, NEW L, NEW root, NEW n, Site(s, D, X, L, root, n),
         NEW d \in D, NEW pages, MapsAll(s.tables, d, pages, X)
  PROVE  Without(Release(s, d, pages), s, d, pages, D, X, L, root, n)
<1> DEFINE F(S) == {p[2] : p \in S}
           r == Release(s, d, pages)
<1>1. Good(s) /\ s \in MemStates /\ d \in Pages
  BY SiteFacts
<1>2. PICK g : Unmaps(g, s, d, pages) /\ r = FreeAll(g[pages], F(pages))
  BY <1>1, ReleaseRuns DEF MapsAll
<1> DEFINE T == {S \in SUBSET pages : Without(g[S], s, d, S, D, X, L \cup F(S), root, n)}
<1>3. {} \in T
  <2>1. g[{}] = s
    BY <1>2 DEF Unmaps
  <2>2. L \cup F({}) = L
    OBVIOUS
  <2>3. Without(s, s, d, {}, D, X, L, root, n)
    BY DEF Without
  <2> HIDE DEF F
  <2> QED BY <2>1, <2>2, <2>3
<1>4. ASSUME NEW S \in SUBSET pages, S # {}, S \ {CHOOSE p \in S : TRUE} \in T
      PROVE  S \in T
  <2> DEFINE p == CHOOSE p \in S : TRUE
             R == S \ {p}
             M == L \cup F(R)
  <2>1. p \in S
    BY <1>4
  <2>2. g[S] = unmap_page_in_directory(g[R], d, p[1])
    BY <1>2, <1>4 DEF Unmaps
  <2>3. Without(g[R], s, d, R, D, X, M, root, n)
    BY <1>4
  <2> HIDE DEF p
  <2>4. M \cup {p[2]} = L \cup F(S)
    BY <2>1
  <2> HIDE DEF M, F
  <2>5. Without(g[S], s, d, S, D, X, M \cup {p[2]}, root, n)
    BY <2>1, <2>2, <2>3, WithoutOneMore
  <2> QED BY <2>4, <2>5
<1> HIDE DEF T
<1>5. SUBSET pages \subseteq T
  BY <1>3, <1>4, SubsetInduction DEF MapsAll
<1> DEFINE x == g[pages]
           M == L \cup F(pages)
<1>6. Without(x, s, d, pages, D, X, M, root, n)
  BY <1>5 DEF T
<1>7. F(pages) \in SUBSET M /\ M \ F(pages) = L
  <2>1. F(pages) \cap L = {}
    <3>1. ASSUME NEW p \in pages, p[2] \in L PROVE FALSE
      <4>1. PICK own : Owned(own, s.tables, s.held, D, X, L, root)
        BY DEF Site, Laid
      <4>4. /\ p[1] \in UserVirt /\ <<d, p[1]>> \notin X
            /\ vmm_get_page_entry(s.tables, d, p[1]).present
            /\ vmm_get_page_entry(s.tables, d, p[1]).frame = p[2]
        BY DEF MapsAll
      <4>2. own[p[2]] = PageRole(d, p[1]) /\ p[2] \in Pages
        BY <4>1, <4>4 DEF Owned, Referenced
      <4>3. own[p[2]] = SpareRole
        BY <3>1, <4>1, <4>2 DEF Owned, RolesExact
      <4> QED BY <4>2, <4>3, RolesDiffer
    <3> QED BY <3>1
  <2> HIDE DEF F
  <2> QED BY <2>1
<1> HIDE DEF x, F, M
<1>8. Site(x, D, X, M, root, n) /\ M \subseteq x.held /\ Good(x)
  BY <1>6, SiteFacts DEF Without
<1>9. r = FreeAll(x, F(pages))
  BY <1>2 DEF x
<1>10. Gives(r, x, F(pages))
  BY <1>7, <1>8, <1>9, FreeGives
<1> HIDE DEF r
<1>11. Site(r, D, X, L, root, n)
  BY <1>7, <1>8, <1>10, SiteGives
<1>12. r.tables = x.tables /\ r.tlb = x.tlb /\ r.ok = x.ok
  BY <1>10 DEF Gives
<1>13. Without(r, s, d, pages, D, X, L, root, n)
  BY <1>6, <1>11, <1>12 DEF Without
<1> QED BY <1>13 DEF r

-----------------------------------------------------------------------------
(* Address spaces are created and destroyed.                               *)

\* r is s with a new directory, without user pages; or, with r.ok FALSE, s.
Created(r, s, D, X, L, root, n) ==
  \/ /\ FreeOf(s) # {} /\ r.ok = s.ok
     /\ First(FreeOf(s)) \in Pages \ {0} /\ First(FreeOf(s)) \notin s.held
     /\ Site(r, D \cup {First(FreeOf(s))}, X, L, root, n)
     /\ \A i \in UserIdx : r.tables[First(FreeOf(s))][i] = NoEntry
     /\ \A w \in UserVirt : vmm_get_page_entry(r.tables, First(FreeOf(s)), w) = NoEntry
     /\ Alike(r.tables, s.tables, D) /\ r.tlb = s.tlb /\ r.held = s.held \cup {First(FreeOf(s))}
  \/ FreeOf(s) = {} /\ r.ok = FALSE /\ Updated(r, s, s.tables, s.tlb, FALSE)

\* vmm_create_address_space, with the kernel's directory as root.
LEMMA SiteCreates ==
  ASSUME Machine, NEW s, NEW D, NEW X, NEW L, NEW n, Site(s, D, X, L, KernelDir, n)
  PROVE  Created(vmm_create_address_space(s), s, D, X, L, KernelDir, n)
<1> DEFINE r == vmm_create_address_space(s)
           q == First(FreeOf(s))
           f == Fresh(s)
           M == L \cup {q}
           root == KernelDir
           t2 == [f.tables EXCEPT ![q] = SharedPart(f.tables[root])]
<1>1. Good(s) /\ root \in D
  BY SiteFacts
<1>2. CASE FreeOf(s) = {}
  <2>1. r = [s EXCEPT !.ok = FALSE]
    BY <1>2 DEF vmm_create_address_space
  <2>2. Updated(r, s, s.tables, s.tlb, FALSE)
    BY <1>1, <2>1, Updates
  <2> HIDE DEF r
  <2> QED BY <1>2, <2>2 DEF Created, Updated, r
<1>3. CASE FreeOf(s) # {}
  <2>1. Took(f, s, q, D, X, L, root, n)
    BY <1>3, SiteTakes
  <2>2. r = [f EXCEPT !.tables = [f.tables EXCEPT ![q] = SharedPart(s.tables[root])]]
    BY <1>3 DEF vmm_create_address_space, KernelDir, SharedPart
  <2> HIDE DEF f, q
  <2>3. /\ Site(f, D, X, M, root, n) /\ SameWalks(f.tables, s.tables, D) /\ q \in M /\ M \ {q} = L
        /\ f.held = s.held \cup {q} /\ f.tlb = s.tlb /\ q \in Pages \ {0} /\ q \notin s.held
        /\ f.ok = s.ok
    BY <2>1 DEF Took
  <2>4. f.tables[root] = s.tables[root]
    BY <1>1, <2>3 DEF SameWalks
  <2>5. t2 = [f.tables EXCEPT ![q] = SharedPart(f.tables[root])]
    OBVIOUS
  <2>6. r = [f EXCEPT !.tables = t2]
    BY <2>2, <2>4
  <2> HIDE DEF M, t2, r, root
  <2>7. Good(f) /\ f.tables \in Tables
    BY <2>3, SiteFacts
  <2>8. PICK own : Owned(own, f.tables, f.held, D, X, M, root)
    BY <2>3 DEF Site, Laid
  <2>9. /\ t2 \in Tables /\ \A i \in UserIdx : t2[q][i] = NoEntry
        /\ \A w \in UserVirt : vmm_get_page_entry(t2, q, w) = NoEntry
        /\ Alike(t2, f.tables, D) /\ Laid(t2, f.held, D \cup {q}, X, M \ {q}, root)
    <3>1. DirectoryAdded(t2, f.tables, q, f.held, D, X, M, root)
      BY <2>3, <2>5, <2>7, <2>8, DirectoryLinked
    <3> QED BY <3>1 DEF DirectoryAdded
  <2>10. Updated(r, f, t2, f.tlb, f.ok)
    BY <2>6, <2>7, <2>9, Updates
  <2>11. Alike(t2, f.tables, D) /\ Alike(t2, s.tables, D)
    BY <2>3, <2>9 DEF Alike, SameWalks
  <2>12. KernelMap(t2, root, n)
    <3>1. KernelMap(f.tables, root, n)
      BY <2>3 DEF Site
    <3> QED BY <1>1, <2>11, <3>1, KernelAlike
  <2>13. Site(r, D \cup {q}, X, L, root, n)
    BY <2>3, <2>9, <2>10, <2>12 DEF Site, Updated
  <2>14. r.ok = s.ok /\ r.tables = t2 /\ r.tlb = s.tlb /\ r.held = s.held \cup {q}
    BY <2>3, <2>10 DEF Updated
  <2> QED BY <1>3, <2>3, <2>9, <2>11, <2>13, <2>14 DEF Created, r, q, root
<1> QED BY <1>2, <1>3

\* A directory is given up.
LEMMA SiteDrops ==
  ASSUME NEW s, NEW D, NEW X, NEW L, NEW root, NEW n, Site(s, D, X, L, root, n),
         NEW d \in D, d # root, \A v : <<d, v>> \notin X
  PROVE  /\ Site(s, D \ {d}, X, L \cup Belongings(s.tables, d), root, n)
         /\ Belongings(s.tables, d) \cap L = {} /\ Belongings(s.tables, d) \subseteq s.held
         /\ d \notin PrivateTables(s.tables, d) /\ d \notin MappedFrames(s.tables, d)
         /\ MappedFrames(s.tables, d) \cap PrivateTables(s.tables, d) = {}
<1> DEFINE t == s.tables
<1>1. PICK own : Owned(own, t, s.held, D, X, L, root)
  BY DEF Site, Laid
<1>2. t \in Tables /\ d \in Pages /\ own[d] = DirRole
  BY <1>1 DEF Site, Good, MemStates, Owned, RolesExact
<1>3. Laid(t, s.held, D \ {d}, X, L \cup Belongings(t, d), root)
  BY <1>1, <1>2, DirectoryDropped
<1>4. /\ PrivateTables(t, d) \subseteq Pages /\ MappedFrames(t, d) \subseteq Pages
      /\ \A p \in Pages : p \in PrivateTables(t, d) <=> \E i : own[p] = TableRole(d, i)
      /\ \A p \in Pages : p \in MappedFrames(t, d) <=> \E v : own[p] = PageRole(d, v)
  BY <1>1, <1>2, BelongingsOwned
<1>5. \A p \in Belongings(t, d) : /\ p \in Pages /\ own[p] # SpareRole /\ own[p] # NoRole
  BY <1>2, <1>4, RolesDiffer DEF Belongings
<1>6. Belongings(t, d) \cap L = {} /\ Belongings(t, d) \subseteq s.held
  BY <1>1, <1>5 DEF Owned, RolesExact
<1>7. d \notin PrivateTables(t, d) /\ d \notin MappedFrames(t, d)
      /\ MappedFrames(t, d) \cap PrivateTables(t, d) = {}
  BY <1>2, <1>4, RolesDiffer
<1>8. Site(s, D \ {d}, X, L \cup Belongings(t, d), root, n)
  BY <1>3 DEF Site
<1> QED BY <1>6, <1>7, <1>8

\* r is s without directory d.
Destroyed(r, s, d, D, X, L, root, n) ==
  /\ Site(r, D \ {d}, X, L, root, n) /\ Alike(r.tables, s.tables, D \ {d})
  /\ r.tlb = s.tlb /\ r.ok = s.ok

\* vmm_destroy_address_space, when no user page is mapped any more.
LEMMA SiteDestroys ==
  ASSUME Machine, NEW s, NEW D, NEW X, NEW L, NEW root, NEW n, Site(s, D, X, L, root, n),
         NEW d \in D, d # root, \A v : <<d, v>> \notin X,
         \A v \in UserVirt : ~vmm_get_page_entry(s.tables, d, v).present
  PROVE  Destroyed(vmm_destroy_address_space(s, d), s, d, D, X, L, root, n)
<1> DEFINE t == s.tables
           P == PrivateTables(t, d)
           E == D \ {d}
           M == L \cup Belongings(t, d)
           row == [i \in Indexes |-> IF IsShared(i) THEN t[d][i] ELSE NoEntry]
           t2 == [t EXCEPT ![d] = row]
           c == [s EXCEPT !.tables = t2]
           a == FreeAll(c, P)
           r == pmm_free_page(a, d)
<1>1. vmm_destroy_address_space(s, d) = r
  BY DEF vmm_destroy_address_space
<1>2. /\ Site(s, E, X, M, root, n) /\ Belongings(t, d) \cap L = {} /\ d \notin P
      /\ Belongings(t, d) \subseteq s.held
  BY SiteDrops
<1>3. MappedFrames(t, d) = {}
  BY DEF MappedFrames
<1>4. Belongings(t, d) = {d} \cup P
  BY <1>3 DEF Belongings
<1>5. Good(s) /\ t \in Tables /\ d \in Pages
  BY SiteFacts
<1>6. t2 \in Tables /\ \A p \in Pages : p # d => t2[p] = t[p]
  <2>1. row \in Rows
    BY <1>5, EmptyRows DEF Tables, Rows
  <2> HIDE DEF row
  <2> QED BY <1>5, <2>1 DEF Tables
<1> HIDE DEF t2, P, E
<1>7. Updated(c, s, t2, s.tlb, s.ok)
  BY <1>5, <1>6, Updates
<1>8. M = L \cup ({d} \cup P) /\ d \in M /\ P \in SUBSET M /\ (M \ P) \ {d} = L /\ d \in M \ P
  BY <1>2, <1>4
<1>9. SameWalks(t2, t, E)
  <2>1. PICK own : Owned(own, t, s.held, E, X, M, root)
    BY <1>2 DEF Site, Laid
  <2> DEFINE S == {d}
  <2>2. /\ \A p \in S : p \in Pages => own[p] \in {NoRole, SpareRole}
        /\ \A p \in Pages : p \notin S => t2[p] = t[p]
    BY <1>5, <1>6, <1>8, <2>1 DEF Owned, RolesExact
  <2> HIDE DEF S
  <2> QED BY <1>5, <1>6, <2>1, <2>2, WriteSpare
<1> HIDE DEF M, c
<1>10. Site(c, E, X, M, root, n) /\ Good(c) /\ c.tables = t2
  BY <1>2, <1>7, <1>9, SiteWalked DEF Updated
<1>11. M \subseteq c.held
  BY <1>10, SiteFacts
<1>12. Gives(a, c, P)
  BY <1>8, <1>10, <1>11, FreeGives
<1> HIDE DEF a
<1>13. Site(a, E, X, M \ P, root, n) /\ Good(a)
  BY <1>8, <1>10, <1>12, SiteGives DEF Gives
<1> DEFINE S == {d}
<1>14. d \in S /\ S = {d} /\ S \in SUBSET (M \ P) /\ (M \ P) \ S = L
  BY <1>8
<1>15. S \in SUBSET a.held
  <2>1. M \ P \subseteq a.held
    BY <1>13, SiteFacts
  <2> QED BY <1>14, <2>1
<1> HIDE DEF S
<1>16. Gives(r, a, S)
  BY <1>13, <1>14, <1>15, FreeGives
<1> HIDE DEF r
<1>17. Site(r, E, X, L, root, n)
  BY <1>13, <1>14, <1>16, SiteGives
<1>18. r.tables = t2 /\ r.tlb = s.tlb /\ r.ok = s.ok
  BY <1>7, <1>10, <1>12, <1>16 DEF Gives, Updated
<1>19. Alike(t2, t, E)
  BY <1>9 DEF SameWalks, Alike
<1>20. Destroyed(r, s, d, D, X, L, root, n)
  BY <1>17, <1>18, <1>19 DEF Destroyed, E
<1> QED BY <1>1, <1>20

-----------------------------------------------------------------------------
(* The mappings that disappear, in any number of directories.              *)

\* r is s with the mappings of G, pairs of a directory and a page, removed.
Removed(r, s, G, D, X, L, root, n) ==
  /\ Site(r, D, X, L, root, n) /\ r.ok = s.ok
  /\ \A c \in D, w \in UserVirt : vmm_get_page_entry(r.tables, c, w) =
       IF <<c, w>> \in G THEN NoEntry ELSE vmm_get_page_entry(s.tables, c, w)
  /\ r.tlb = {b \in s.tlb : <<current_page_directory_phys, b[1]>> \notin G}

\* Release removes the mappings of one directory.
LEMMA ReleaseRemoves ==
  ASSUME Machine, NEW s, NEW D, NEW X, NEW L, NEW root, NEW n, Site(s, D, X, L, root, n),
         NEW d \in D, NEW pages, MapsAll(s.tables, d, pages, X)
  PROVE  Removed(Release(s, d, pages), s, {<<d, p[1]>> : p \in pages}, D, X, L, root, n)
<1> DEFINE r == Release(s, d, pages)
           G == {<<d, p[1]>> : p \in pages}
<1>1. Without(r, s, d, pages, D, X, L, root, n)
  BY SiteReleases
<1> HIDE DEF r
<1>2. \A c, w : <<c, w>> \in G <=> c = d /\ \E p \in pages : w = p[1]
  OBVIOUS
<1> HIDE DEF G
<1>3. ASSUME NEW c \in D, NEW w \in UserVirt
      PROVE  vmm_get_page_entry(r.tables, c, w) =
               IF <<c, w>> \in G THEN NoEntry ELSE vmm_get_page_entry(s.tables, c, w)
  <2>1. w \in AllVirt
    BY Places
  <2>2. CASE <<c, w>> \in G
    <3>1. PICK p \in pages : w = p[1] /\ c = d
      BY <1>2, <2>2
    <3>2. vmm_get_page_entry(r.tables, c, w) = NoEntry
      BY <1>1, <3>1 DEF Without
    <3> QED BY <2>2, <3>2
  <2>3. CASE <<c, w>> \notin G
    <3>1. ~(c = d /\ \E p \in pages : w = p[1])
      BY <1>2, <2>3
    <3>2. vmm_get_page_entry(r.tables, c, w) = vmm_get_page_entry(s.tables, c, w)
      BY <1>1, <2>1, <3>1 DEF Without
    <3> QED BY <2>3, <3>2
  <2> QED BY <2>2, <2>3
<1>4. r.tlb = {b \in s.tlb : <<current_page_directory_phys, b[1]>> \notin G}
  BY <1>1, <1>2 DEF Without
<1>5. Removed(r, s, G, D, X, L, root, n)
  BY <1>1, <1>3, <1>4 DEF Without, Removed
<1> QED BY <1>5 DEF r, G

\* Releasing twice.
LEMMA RemovedTwice ==
  ASSUME NEW s, NEW x, NEW r, NEW G, NEW H, NEW D, NEW X, NEW L, NEW root, NEW n,
         Removed(x, s, G, D, X, L, root, n), Removed(r, x, H, D, X, L, root, n)
  PROVE  Removed(r, s, G \cup H, D, X, L, root, n)
<1>1. \A c \in D, w \in UserVirt : vmm_get_page_entry(r.tables, c, w) =
        IF <<c, w>> \in G \cup H THEN NoEntry ELSE vmm_get_page_entry(s.tables, c, w)
  BY DEF Removed
<1>2. r.tlb = {b \in s.tlb : <<current_page_directory_phys, b[1]>> \notin G \cup H}
  BY DEF Removed
<1> QED BY <1>1, <1>2 DEF Removed

\* Freeing keeps the type of the state.
LEMMA FreeTyped ==
  ASSUME Machine, NEW s \in MemStates, NEW S
  PROVE  FreeAll(s, S) \in MemStates
<1> DEFINE F == {p \in S : p * PAGE_SIZE >= bitmap_end}
           c == Cardinality(F \cap s.bitmap)
           g == free_page(s, F)
           r == [g EXCEPT !.held = g.held \ F]
<1>1. c \in Nat
  <2>1. s.bitmap \in SUBSET Pages /\ IsFiniteSet(Pages)
    BY PagesInside DEF Machine, MemStates
  <2>2. IsFiniteSet(F \cap s.bitmap)
    BY <2>1, FS_Subset
  <2> QED BY <2>2, FS_CardinalityType
<1>2. FreeAll(s, S) = r
  BY DEF FreeAll
<1>3. g = [s EXCEPT !.bitmap = s.bitmap \ F, !.free_pages = s.free_pages + c]
  BY DEF free_page
<1> HIDE DEF F, c, g
<1>4. g = [bitmap |-> s.bitmap \ F, free_pages |-> s.free_pages + c, held |-> s.held,
           tables |-> s.tables, tlb |-> s.tlb, ok |-> s.ok]
  BY <1>3 DEF MemStates
<1>5. r = [bitmap |-> s.bitmap \ F, free_pages |-> s.free_pages + c, held |-> s.held \ F,
           tables |-> s.tables, tlb |-> s.tlb, ok |-> s.ok]
  BY <1>4
<1> HIDE DEF r
<1>6. r \in MemStates
  BY <1>1, <1>5 DEF MemStates
<1> QED BY <1>2, <1>6

\* free_slot, as a step from a state.
FreeSlot(x, v) == IF slots[v] = NoSlot THEN x ELSE Release(x, slots[v][1], {<<v, slots[v][2]>>})

\* g is the function of the loop in memdemo_reset.
Resets(g) ==
  /\ g \in [SUBSET MEMDEMO_VIRT -> MemStates]
  /\ \A S \in SUBSET MEMDEMO_VIRT :
       g[S] = IF S = {} THEN State
              ELSE FreeSlot(g[S \ {CHOOSE v \in S : TRUE}], CHOOSE v \in S : TRUE)

\* The slots are in user space.
LEMMA SlotPlaces ==
  MEMDEMO_VIRT \subseteq UserVirt /\ IsFiniteSet(MEMDEMO_VIRT)
<1>1. MEMDEMO_VIRT \subseteq UserVirt
  BY AddressSpacesAssumption DEF UserVirt, Base
<1> QED BY <1>1, Places, FS_Subset

\* memdemo_reset is that loop.
LEMMA ResetRuns ==
  ASSUME Machine, State \in MemStates, memdemo_reset,
         \A v \in MEMDEMO_VIRT : slots[v] # NoSlot => slots[v][1] \in Pages
  PROVE  \E g : Resets(g) /\ VmmBecomes(g[MEMDEMO_VIRT])
<1> DEFINE P == MEMDEMO_VIRT
           Pick(S) == CHOOSE p \in S : TRUE
           Body(g) == [S \in SUBSET P |->
                         IF S = {} THEN State
                         ELSE IF slots[Pick(S)] = NoSlot THEN g[S \ {Pick(S)}]
                         ELSE Release(g[S \ {Pick(S)}], slots[Pick(S)][1],
                                      {<<Pick(S), slots[Pick(S)][2]>>})]
           B == [px \in P \X MemStates |-> FreeSlot(px[2], px[1])]
           U == CHOOSE g : g = Body(g)
<1>1. VmmBecomes(U[P])
  BY DEF memdemo_reset
<1>2. ASSUME NEW v \in P, NEW x \in MemStates PROVE FreeSlot(x, v) \in MemStates
  <2>1. CASE slots[v] = NoSlot
    BY <2>1 DEF FreeSlot
  <2>2. CASE slots[v] # NoSlot
    <3> DEFINE pages == {<<v, slots[v][2]>>}
               d == slots[v][1]
    <3>1. IsFiniteSet(pages) /\ (\A p \in pages : p[1] \in UserVirt) /\ d \in Pages
      <4>1. IsFiniteSet(pages)
        BY FS_Singleton
      <4>2. d \in Pages /\ v \in UserVirt
        BY <2>2, SlotPlaces
      <4> QED BY <4>1, <4>2
    <3>2. FreeSlot(x, v) = Release(x, d, pages)
      BY <2>2 DEF FreeSlot
    <3> HIDE DEF pages, d
    <3>3. PICK g : /\ Unmaps(g, x, d, pages)
                   /\ Release(x, d, pages) = FreeAll(g[pages], {p[2] : p \in pages})
      BY <3>1, ReleaseRuns
    <3>4. g[pages] \in MemStates
      BY <3>3 DEF Unmaps
    <3> QED BY <3>2, <3>3, <3>4, FreeTyped
  <2> QED BY <2>1, <2>2
<1>3. B \in [P \X MemStates -> MemStates]
      /\ \A p \in P, x \in MemStates : B[<<p, x>>] = FreeSlot(x, p)
  BY <1>2
<1> HIDE DEF B
<1>4. PICK f : IsSetRun(f, State, B, P, MemStates)
  BY <1>3, SlotPlaces, SubsetRecursion
<1>5. /\ f \in [SUBSET P -> MemStates]
      /\ \A S \in SUBSET P :
           f[S] = IF S = {} THEN State
                  ELSE B[<<CHOOSE p \in S : TRUE, f[S \ {CHOOSE p \in S : TRUE}]>>]
  BY <1>4 DEF IsSetRun
<1>6. \A S \in SUBSET P : S # {} => Pick(S) \in P /\ S \ {Pick(S)} \in SUBSET P
  OBVIOUS
<1>7. f = Body(f)
  <2>1. ASSUME NEW S \in SUBSET P
        PROVE  f[S] = IF S = {} THEN State
                      ELSE IF slots[Pick(S)] = NoSlot THEN f[S \ {Pick(S)}]
                      ELSE Release(f[S \ {Pick(S)}], slots[Pick(S)][1],
                                      {<<Pick(S), slots[Pick(S)][2]>>})
    <3>1. CASE S = {}
      BY <1>5, <3>1
    <3>2. CASE S # {}
      <4>1. f[S] = B[<<Pick(S), f[S \ {Pick(S)}]>>]
        BY <1>5, <3>2
      <4> HIDE DEF Pick
      <4>2. Pick(S) \in P /\ f[S \ {Pick(S)}] \in MemStates
        BY <1>5, <1>6, <3>2
      <4>3. f[S] = FreeSlot(f[S \ {Pick(S)}], Pick(S))
        BY <1>3, <4>1, <4>2
      <4> QED BY <3>2, <4>3 DEF FreeSlot
    <3> QED BY <3>1, <3>2
  <2> HIDE DEF Pick, P
  <2> QED BY <1>5, <2>1
<1>8. U = Body(U)
  <2> HIDE DEF Body
  <2> QED BY <1>7
<1> HIDE DEF U
<1>9. ASSUME NEW S \in SUBSET P
      PROVE  U[S] = IF S = {} THEN State ELSE FreeSlot(U[S \ {Pick(S)}], Pick(S))
  <2> HIDE DEF Pick
  <2> QED BY <1>8 DEF FreeSlot
<1>10. U \in [SUBSET P -> MemStates]
  <2> DEFINE T == {S \in SUBSET P : U[S] \in MemStates}
  <2>1. {} \in T
    BY <1>9
  <2>2. ASSUME NEW S \in SUBSET P, S # {}, S \ {CHOOSE p \in S : TRUE} \in T
        PROVE  S \in T
    <3>1. Pick(S) \in P /\ U[S \ {Pick(S)}] \in MemStates
      BY <2>2
    <3>2. U[S] = FreeSlot(U[S \ {Pick(S)}], Pick(S))
      BY <1>9, <2>2
    <3> HIDE DEF Pick
    <3> QED BY <1>2, <3>1, <3>2
  <2> HIDE DEF T
  <2>3. SUBSET P \subseteq T
    BY <2>1, <2>2, SlotPlaces, SubsetInduction
  <2>4. \A S \in SUBSET P : U[S] \in MemStates
    BY <2>3 DEF T
  <2>5. U = [S \in SUBSET P |-> U[S]]
    BY <1>8
  <2> QED BY <2>4, <2>5
<1>11. Resets(U)
  BY <1>9, <1>10 DEF Resets
<1> QED BY <1>1, <1>11

\* The slots are mapped where they were allocated.
SlotsSet(t, D, X) ==
  \A v \in MEMDEMO_VIRT : slots[v] # NoSlot =>
    /\ slots[v][1] \in D /\ slots[v][2] \in Pages /\ <<slots[v][1], v>> \notin X
    /\ vmm_get_page_entry(t, slots[v][1], v).present
    /\ vmm_get_page_entry(t, slots[v][1], v).frame = slots[v][2]

\* The mappings of the slots in S.
SlotPairs(S) == {<<slots[v][1], v>> : v \in {w \in S : slots[w] # NoSlot}}

\* memdemo_reset removes the mappings of all slots.
LEMMA ResetRemoves ==
  ASSUME Machine, memdemo_reset, NEW D, NEW X, NEW L, NEW root, NEW n,
         Site(State, D, X, L, root, n), SlotsSet(tables, D, X)
  PROVE  \E r : VmmBecomes(r) /\ Removed(r, State, SlotPairs(MEMDEMO_VIRT), D, X, L, root, n)
<1> DEFINE P == MEMDEMO_VIRT
<1>1. State \in MemStates /\ D \subseteq Pages
  BY SiteFacts
<1>2. State.tables = tables
  BY DEF State
<1>3. PICK g : Resets(g) /\ VmmBecomes(g[P])
  BY <1>1, ResetRuns DEF SlotsSet
<1> DEFINE T == {S \in SUBSET P : Removed(g[S], State, SlotPairs(S), D, X, L, root, n)}
<1>4. {} \in T
  <2>1. g[{}] = State
    BY <1>3 DEF Resets
  <2>2. SlotPairs({}) = {}
    BY DEF SlotPairs
  <2>3. Removed(State, State, {}, D, X, L, root, n)
    BY DEF Removed
  <2> QED BY <2>1, <2>2, <2>3
<1>5. ASSUME NEW S \in SUBSET P, S # {}, S \ {CHOOSE p \in S : TRUE} \in T
      PROVE  S \in T
  <2> DEFINE v == CHOOSE p \in S : TRUE
             R == S \ {v}
             x == g[R]
             d == slots[v][1]
             f == slots[v][2]
             pages == {<<v, f>>}
             H == {<<d, p[1]>> : p \in pages}
  <2>1. v \in S /\ v \in P
    BY <1>5
  <2>2. g[S] = FreeSlot(x, v)
    BY <1>3, <1>5 DEF Resets
  <2>3. Removed(x, State, SlotPairs(R), D, X, L, root, n)
    BY <1>5
  <2> HIDE DEF v
  <2>4. CASE slots[v] = NoSlot
    <3>1. g[S] = x
      BY <2>2, <2>4 DEF FreeSlot
    <3>2. SlotPairs(R) = SlotPairs(S)
      BY <2>1, <2>4 DEF SlotPairs
    <3> QED BY <2>3, <3>1, <3>2
  <2>5. CASE slots[v] # NoSlot
    <3>1. g[S] = Release(x, d, pages)
      BY <2>2, <2>5 DEF FreeSlot
    <3>2. /\ d \in D /\ f \in Pages /\ <<d, v>> \notin X /\ v \in UserVirt
          /\ vmm_get_page_entry(tables, d, v).present /\ vmm_get_page_entry(tables, d, v).frame = f
      BY <2>1, <2>5, SlotPlaces DEF SlotsSet
    <3>3. <<d, v>> \notin SlotPairs(R)
      BY DEF SlotPairs
    <3>4. SlotPairs(R) \cup H = SlotPairs(S)
      <4>1. H = {<<d, v>>}
        OBVIOUS
      <4>2. SlotPairs(S) = SlotPairs(R) \cup {<<d, v>>}
        BY <2>1, <2>5 DEF SlotPairs
      <4> QED BY <4>1, <4>2
    <3>5. vmm_get_page_entry(x.tables, d, v) = vmm_get_page_entry(tables, d, v)
      BY <1>2, <2>3, <3>2, <3>3 DEF Removed
    <3>6. MapsAll(x.tables, d, pages, X)
      <4>1. IsFiniteSet(pages)
        BY FS_Singleton
      <4> QED BY <3>2, <3>5, <4>1 DEF MapsAll
    <3> HIDE DEF H, pages, x, R, d
    <3>7. Removed(Release(x, d, pages), x, H, D, X, L, root, n)
      <4>1. Site(x, D, X, L, root, n)
        BY <2>3 DEF Removed
      <4> QED BY <3>2, <3>6, <4>1, ReleaseRemoves DEF H
    <3>8. Removed(g[S], State, SlotPairs(R) \cup H, D, X, L, root, n)
      BY <2>3, <3>1, <3>7, RemovedTwice
    <3> QED BY <3>4, <3>8
  <2> QED BY <2>4, <2>5
<1> HIDE DEF T
<1>6. SUBSET P \subseteq T
  BY <1>4, <1>5, SlotPlaces, SubsetInduction
<1>7. Removed(g[P], State, SlotPairs(P), D, X, L, root, n)
  BY <1>6 DEF T
<1> QED BY <1>3, <1>7

-----------------------------------------------------------------------------
(* vmm_init builds the direct map.                                         *)

\* After n passes of the loop: the first n pages are mapped and no user page,
\* or the loop has failed.
InitInv(x, root, X, n) ==
  /\ Good(x) /\ x.tlb = {}
  /\ x.ok = TRUE =>
       /\ Site(x, {root}, X, {}, root, n)
       /\ \A w \in UserVirt : vmm_get_page_entry(x.tables, root, w) = NoEntry

\* A page of the direct map is one more than before.
LEMMA KernelMapGrows ==
  ASSUME Machine, NEW t, NEW t2, NEW root, NEW n \in Pages, KernelMap(t, root, n),
         NEW D, root \in D, AlikeBut(t2, t, D, root, phys_to_virt(n)),
         vmm_get_page_entry(t2, root, phys_to_virt(n)) = Entry(n, FALSE)
  PROVE  KernelMap(t2, root, n + 1)
<1> DEFINE u == phys_to_virt(n)
<1>1. u = Base + n /\ u \in KernelVirt /\ n \in Nat /\ Base \in Nat
  BY DirectMap, PagesInside, Places DEF Machine
<1> HIDE DEF u
<1>2. ASSUME NEW v \in KernelVirt
      PROVE  IF v < Base + (n + 1)
             THEN /\ vmm_get_page_entry(t2, root, v).present
                  /\ vmm_get_page_entry(t2, root, v).frame = v - Base
                  /\ ~vmm_get_page_entry(t2, root, v).user
             ELSE ~vmm_get_page_entry(t2, root, v).present
  <2>1. v \in Nat /\ v \in AllVirt
    BY Places
  <2>2. CASE v = u
    <3>1. vmm_get_page_entry(t2, root, v) = Entry(n, FALSE)
      BY <2>2 DEF u
    <3>2. v < Base + (n + 1) /\ v - Base = n
      BY <1>1, <2>2
    <3> QED BY <3>1, <3>2 DEF Entry
  <2>3. CASE v # u
    <3>1. vmm_get_page_entry(t2, root, v) = vmm_get_page_entry(t, root, v)
      BY <2>1, <2>3 DEF AlikeBut, u
    <3>2. v < Base + (n + 1) <=> v < Base + n
      BY <1>1, <2>1, <2>3
    <3> QED BY <3>1, <3>2 DEF KernelMap
  <2> QED BY <2>2, <2>3
<1> QED BY <1>2 DEF KernelMap

\* One pass of the loop.
LEMMA InitPass ==
  ASSUME Machine, NEW root, NEW X, NEW n \in Pages, NEW x, InitInv(x, root, X, n), NEW r,
         r = IF ~x.ok THEN x ELSE map_page_in_directory(x, root, phys_to_virt(n), n, FALSE)
  PROVE  InitInv(r, root, X, n + 1)
<1> DEFINE v == phys_to_virt(n)
           D == {root}
           L == {}
<1>1. Good(x) /\ x.tlb = {} /\ x.ok \in BOOLEAN
  BY DEF InitInv, Good, MemStates
<1>2. v \in AllVirt /\ v \notin UserVirt /\ D = {root} /\ root \in D
  BY DirectMap, Places DEF Machine
<1>3. CASE x.ok = FALSE
  <2>1. r = x
    BY <1>3
  <2> QED BY <1>1, <1>3, <2>1 DEF InitInv
<1>4. CASE x.ok = TRUE /\ ~HasTable(x.tables, root, v) /\ FreeOf(x) = {}
  <2>1. r = [x EXCEPT !.ok = FALSE]
    BY <1>4 DEF map_page_in_directory
  <2>2. Updated(r, x, x.tables, x.tlb, FALSE)
    BY <1>1, <2>1, Updates
  <2> QED BY <1>1, <2>2 DEF Updated, InitInv
<1>5. CASE x.ok = TRUE /\ ~(~HasTable(x.tables, root, v) /\ FreeOf(x) = {})
  <2> DEFINE m == WithTable(x, root, v, FALSE)
             e == Entry(n, FALSE)
             t2 == [m.tables EXCEPT ![m.tables[root][page_directory_index(v)].frame][page_table_index(v)] = e]
             w == invalidate_page(SetEntry(m, root, v, e), root, v)
  <2>1. r = [w EXCEPT !.ok = TRUE]
    BY <1>5 DEF map_page_in_directory
  <2>2. Site(x, D, X, L, root, n) /\ \A p \in UserVirt : vmm_get_page_entry(x.tables, root, p) = NoEntry
    BY <1>5 DEF InitInv
  <2> HIDE DEF D, L
  <2>3. Tabled(m, x, root, v, D, X, L, root, n)
    BY <1>2, <1>5, <2>2, SiteTable
  <2>4. e \in EntrySet /\ e.present /\ e.frame = n
    BY EntryMade DEF Machine
  <2>5. t2 = [m.tables EXCEPT ![m.tables[root][page_directory_index(v)].frame][page_table_index(v)] = e]
    OBVIOUS
  <2> HIDE DEF m, t2
  <2>6. /\ Site(m, D, X, L, root, n) /\ HasTable(m.tables, root, v) /\ Alike(m.tables, x.tables, D)
        /\ m.tlb = x.tlb
    BY <2>3 DEF Tabled
  <2>7. Good(m) /\ m.tables \in Tables /\ D \subseteq Pages
    BY <2>6, SiteFacts
  <2>8. KernelMap(m.tables, root, n)
    BY <2>6 DEF Site
  <2>9. Updated(w, m, t2, Flushed(m.tlb, root, v), m.ok)
    <3> HIDE DEF e, v
    <3> QED BY <1>2, <2>4, <2>5, <2>6, <2>7, EntryUpdates
  <2> HIDE DEF w
  <2>10. Updated(r, w, w.tables, w.tlb, TRUE)
    <3>1. Good(w)
      BY <2>9 DEF Updated
    <3>2. Updated([w EXCEPT !.ok = TRUE], w, w.tables, w.tlb, TRUE)
      BY <3>1, Updates, Zenon
    <3> QED BY <2>1, <3>2
  <2>11. PICK own : Owned(own, m.tables, m.held, D, X, L, root)
    BY <2>6 DEF Site, Laid
  <2> HIDE DEF e, v
  <2>12. EntryWritten(t2, m.tables, own, D, root, v, e)
    BY <1>2, <2>4, <2>5, <2>6, <2>7, <2>11, WriteEntry DEF D
  <2>13. Owned(own, t2, m.held, D, X, L, root)
    BY <1>2, <2>4, <2>7, <2>11, <2>12, PageTouched
  <2>14. AlikeBut(t2, m.tables, D, root, v) /\ vmm_get_page_entry(t2, root, v) = e
    BY <1>2, <2>12, WrittenAlike
  <2>15. KernelMap(t2, root, n + 1)
    BY <1>2, <2>8, <2>14, KernelMapGrows DEF e, v
  <2>16. Good(r) /\ r.tables = t2 /\ r.held = m.held /\ r.tlb = {} /\ r.ok = TRUE
    BY <1>1, <2>6, <2>9, <2>10 DEF Updated, Flushed
  <2>17. Site(r, D, X, L, root, n + 1)
    BY <2>13, <2>15, <2>16 DEF Site, Laid
  <2>18. \A p \in UserVirt : vmm_get_page_entry(r.tables, root, p) = NoEntry
    <3>1. \A p \in UserVirt : p \in AllVirt /\ p # v
      BY <1>2, Places
    <3> QED BY <1>2, <2>2, <2>6, <2>14, <2>16, <3>1 DEF Alike, AlikeBut
  <2> QED BY <2>16, <2>17, <2>18 DEF InitInv, D, L
<1> QED BY <1>1, <1>3, <1>4, <1>5

\* The empty directory, before the loop.
LEMMA InitStart ==
  ASSUME Machine, Good(State), held = {}, tables = [p \in Pages |-> Cleared], tlb = {},
         FreeOf(State) # {}, NEW X
  PROVE  InitInv(Fresh(State), First(FreeOf(State)), X, 0)
<1> DEFINE f == Fresh(State)
           root == First(FreeOf(State))
           D == {root}
           t == f.tables
           own == [p \in Pages |-> IF p = root THEN DirRole ELSE NoRole]
<1>1. Takes(f, State, root)
  BY FreshTakes
<1>2. /\ Good(f) /\ root \in Pages /\ f.held = State.held \cup {root}
      /\ t = [State.tables EXCEPT ![root] = Cleared] /\ f.tlb = State.tlb
  BY <1>1 DEF Takes
<1>3. State.held = {} /\ State.tlb = {} /\ State.tables = [p \in Pages |-> Cleared]
  BY DEF State
<1> HIDE DEF f, root
<1>4. f.held = {root} /\ f.tlb = {} /\ (\A p \in Pages : t[p] = Cleared) /\ t \in Tables
  BY <1>2, <1>3 DEF Good, MemStates
<1>5. \A p \in Pages, i \in Indexes : t[p][i] = NoEntry
  BY <1>4, EmptyRows
<1>6. \A v \in AllVirt : vmm_get_page_entry(t, root, v) = NoEntry
  <2> TAKE v \in AllVirt
  <2>1. page_directory_index(v) \in Indexes
    BY Places
  <2>2. ~HasTable(t, root, v)
    BY <1>2, <1>5, <2>1, EmptyRows DEF HasTable
  <2> QED BY <2>2 DEF vmm_get_page_entry
<1>7. KernelMap(t, root, 0)
  <2>1. \A v \in KernelVirt : v \in AllVirt /\ ~(v < Base + 0)
    BY Places DEF KernelVirt
  <2> QED BY <1>6, <2>1, EmptyRows DEF KernelMap
<1>8. Owned(own, t, {root}, {root}, X, {}, root)
  <2>1. \A p \in Pages : own[p] = IF p = root THEN DirRole ELSE NoRole
    OBVIOUS
  <2> HIDE DEF own
  <2>2. RolesExact(own, {root}, {root}, {}, root)
    BY <1>2, <2>1, RolesDiffer DEF RolesExact
  <2>3. Backed(own, t, {root}, X, root)
    BY <2>1, RolesDiffer DEF Backed
  <2>4. Referenced(own, t, {root}, X, root)
    <3>1. \A i \in UserIdx : ~t[root][i].present
      BY <1>2, <1>5, EmptyRows DEF UserIdx
    <3>2. \A i \in SharedIdx : ~t[root][i].present
      BY <1>2, <1>5, EmptyRows DEF SharedIdx
    <3>3. \A v \in UserVirt : ~vmm_get_page_entry(t, root, v).present
      BY <1>6, Places, EmptyRows
    <3> QED BY <3>1, <3>2, <3>3 DEF Referenced
  <2> QED BY <2>2, <2>3, <2>4 DEF Owned
<1>9. Site(f, {root}, X, {}, root, 0)
  BY <1>2, <1>4, <1>7, <1>8 DEF Site, Laid
<1>10. \A w \in UserVirt : vmm_get_page_entry(t, root, w) = NoEntry
  BY <1>6, Places
<1>11. InitInv(f, root, X, 0)
  BY <1>2, <1>4, <1>9, <1>10 DEF InitInv
<1> QED BY <1>11 DEF f, root

\* vmm_init ends with state s: the kernel's directory is loaded and maps the
\* whole memory, or the system halts.
Booted(s) ==
  /\ VmmBecomes(s) /\ vmm_ready' = IF s.ok THEN "yes" ELSE "failed"
  /\ Good(s) /\ s.tlb = {}
  /\ s.ok = TRUE =>
       /\ current_page_directory_phys' = kernel_page_directory_phys'
       /\ InitInv(s, KernelDir', {<<KernelDir', VMM_USER_CODE_BASE>>}, pmm_total_pages)

\* The loop of vmm_init.
LEMMA InitRuns ==
  ASSUME Machine, Good(State), held = {}, tables = [p \in Pages |-> Cleared], tlb = {}, vmm_init
  PROVE  \E s : Booted(s)
<1> DEFINE root == First(FreeOf(State))
           f0 == Fresh(State)
           X == {<<root, VMM_USER_CODE_BASE>>}
           N == kernel_mapped_pages
           Pass(n, x) == IF ~x.ok THEN x
                         ELSE map_page_in_directory(x, root, phys_to_virt(n - 1), n - 1, FALSE)
           Body(g) == [n \in 0 .. N |-> IF n = 0 THEN f0
                         ELSE IF ~g[n - 1].ok THEN g[n - 1]
                         ELSE map_page_in_directory(g[n - 1], root, phys_to_virt(n - 1), n - 1, FALSE)]
           D == [kx \in (1 .. N) \X MemStates |->
                   IF Pass(kx[1], kx[2]) \in MemStates THEN Pass(kx[1], kx[2]) ELSE kx[2]]
           M == CHOOSE g : g = Body(g)
           s == IF FreeOf(State) = {} THEN [State EXCEPT !.ok = FALSE] ELSE M[N]
<1>1. /\ VmmBecomes(s) /\ vmm_ready' = IF s.ok THEN "yes" ELSE "failed"
      /\ current_page_directory_phys' = IF FreeOf(State) = {} THEN 0 ELSE root
      /\ kernel_page_directory_phys' = IF FreeOf(State) = {} THEN 0 ELSE root
  BY DEF vmm_init
<1>2. N \in Nat /\ N = pmm_total_pages /\ Pages = 0 .. N - 1
  BY PagesInside DEF Machine, kernel_mapped_pages
<1> HIDE DEF N
<1>3. CASE FreeOf(State) = {}
  <2>1. s = [State EXCEPT !.ok = FALSE]
    BY <1>3
  <2> HIDE DEF s
  <2>2. Updated(s, State, State.tables, State.tlb, FALSE)
    BY <2>1, Updates
  <2>3. State.tlb = {}
    BY DEF State
  <2>4. Booted(s)
    BY <1>1, <2>2, <2>3 DEF Updated, Booted
  <2> QED BY <2>4
<1>4. CASE FreeOf(State) # {}
  <2>1. InitInv(f0, root, X, 0)
    <3> HIDE DEF X
    <3> QED BY <1>4, InitStart
  <2>2. \A n, x : InitInv(x, root, X, n) => x \in MemStates
    BY DEF InitInv, Good
  <2>3. ASSUME NEW n \in 1 .. N, NEW x, InitInv(x, root, X, n - 1)
        PROVE  InitInv(Pass(n, x), root, X, n)
    <3> DEFINE k == n - 1
    <3>1. k \in Pages /\ k + 1 = n
      BY <1>2
    <3>2. InitInv(x, root, X, k) /\ Pass(n, x) = IF ~x.ok THEN x
                         ELSE map_page_in_directory(x, root, phys_to_virt(k), k, FALSE)
      BY <2>3
    <3> HIDE DEF root, X, k, Pass
    <3>3. InitInv(Pass(n, x), root, X, k + 1)
      BY <3>1, <3>2, InitPass
    <3> QED BY <3>1, <3>3
  <2> HIDE DEF X, f0, root
  <2>4. IsLoopBody(D, N, MemStates) /\ \A n \in 1 .. N, x \in MemStates :
          Pass(n, x) \in MemStates => D[<<n, x>>] = Pass(n, x)
    <3> HIDE DEF Pass
    <3> QED BY DEF IsLoopBody
  <2> HIDE DEF D
  <2>5. PICK g : IsLoopRun(g, f0, D, N, MemStates)
    <3>1. f0 \in MemStates
      BY <2>1, <2>2
    <3> QED BY <1>2, <2>4, <3>1, RecursionExists
  <2>6. /\ g \in [0 .. N -> MemStates] /\ g[0] = f0
        /\ \A n \in 1 .. N : g[n] = D[<<n, g[n - 1]>>]
    BY <2>5 DEF IsLoopRun
  <2> HIDE DEF Pass
  <2>7. ASSUME NEW n \in 1 .. N, InitInv(g[n - 1], root, X, n - 1)
        PROVE  g[n] = Pass(n, g[n - 1]) /\ InitInv(g[n], root, X, n)
    <3>1. InitInv(Pass(n, g[n - 1]), root, X, n)
      BY <2>3, <2>7
    <3>2. g[n - 1] \in MemStates /\ Pass(n, g[n - 1]) \in MemStates
      BY <2>2, <2>7, <3>1
    <3>3. g[n] = Pass(n, g[n - 1])
      BY <2>4, <2>6, <3>2
    <3> QED BY <3>1, <3>3
  <2>8. \A n \in 0 .. N : InitInv(g[n], root, X, n)
    <3> DEFINE T == {n \in 0 .. N : InitInv(g[n], root, X, n)}
    <3>1. 0 \in T
      BY <1>2, <2>1, <2>6
    <3>2. ASSUME NEW n \in 0 .. N - 1, n \in T PROVE n + 1 \in T
      <4> DEFINE k == n + 1
      <4>1. k \in 1 .. N /\ k \in 0 .. N /\ k - 1 = n
        BY <1>2
      <4> HIDE DEF k
      <4>2. InitInv(g[k], root, X, k)
        BY <2>7, <3>2, <4>1
      <4> QED BY <4>1, <4>2 DEF k
    <3> HIDE DEF T
    <3>3. 0 .. N \subseteq T
      BY <1>2, <3>1, <3>2, IntervalInduction
    <3> QED BY <3>3 DEF T
  <2>9. g = Body(g)
    <3>1. ASSUME NEW n \in 0 .. N
          PROVE  g[n] = IF n = 0 THEN f0
                        ELSE IF ~g[n - 1].ok THEN g[n - 1]
                        ELSE map_page_in_directory(g[n - 1], root, phys_to_virt(n - 1), n - 1, FALSE)
      <4>1. CASE n = 0
        BY <2>6, <4>1
      <4>2. CASE n # 0
        <5>1. n \in 1 .. N /\ n - 1 \in 0 .. N
          BY <1>2, <4>2
        <5>2. g[n] = Pass(n, g[n - 1])
          BY <2>7, <2>8, <5>1
        <5> QED BY <4>2, <5>2 DEF Pass
      <4> QED BY <4>1, <4>2
    <3> QED BY <2>6, <3>1
  <2>10. M = Body(M)
    <3> HIDE DEF Body
    <3> QED BY <2>9
  <2> HIDE DEF M
  <2>11. M[0] = f0 /\ \A n \in 1 .. N : M[n] = Pass(n, M[n - 1])
    <3>1. \A n \in 0 .. N : M[n] = IF n = 0 THEN f0
                        ELSE IF ~M[n - 1].ok THEN M[n - 1]
                        ELSE map_page_in_directory(M[n - 1], root, phys_to_virt(n - 1), n - 1, FALSE)
      BY <2>10
    <3>2. 0 \in 0 .. N /\ \A n \in 1 .. N : n \in 0 .. N /\ n # 0
      BY <1>2
    <3>3. M[0] = f0
      BY <3>1, <3>2
    <3>4. ASSUME NEW n \in 1 .. N PROVE M[n] = Pass(n, M[n - 1])
      BY <3>1, <3>2 DEF Pass
    <3> QED BY <3>3, <3>4
  <2>12. InitInv(M[N], root, X, N)
    <3> DEFINE T == {n \in 0 .. N : InitInv(M[n], root, X, n)}
    <3>1. 0 \in T
      BY <1>2, <2>1, <2>11
    <3>2. ASSUME NEW n \in 0 .. N - 1, n \in T PROVE n + 1 \in T
      <4> DEFINE k == n + 1
      <4>1. k \in 1 .. N /\ k \in 0 .. N /\ k - 1 = n
        BY <1>2
      <4> HIDE DEF k
      <4>3. InitInv(M[k - 1], root, X, k - 1)
        BY <3>2, <4>1
      <4>2. InitInv(M[k], root, X, k)
        BY <2>3, <2>11, <4>1, <4>3
      <4> QED BY <4>1, <4>2 DEF k
    <3> HIDE DEF T
    <3>3. 0 .. N \subseteq T
      BY <1>2, <3>1, <3>2, IntervalInduction
    <3>4. N \in T
      BY <1>2, <3>3
    <3> QED BY <3>4 DEF T
  <2>13. s = M[N]
    BY <1>4
  <2> HIDE DEF s
  <2>14. InitInv(s, root, X, pmm_total_pages) /\ Good(s) /\ s.tlb = {}
    BY <1>2, <2>12, <2>13 DEF InitInv
  <2>15. current_page_directory_phys' = root /\ KernelDir' = root
    BY <1>1, <1>4 DEF KernelDir
  <2>16. X = {<<root, VMM_USER_CODE_BASE>>}
    BY DEF X
  <2>17. InitInv(s, KernelDir', {<<KernelDir', VMM_USER_CODE_BASE>>}, pmm_total_pages)
    BY <2>14, <2>15, <2>16
  <2>18. current_page_directory_phys' = kernel_page_directory_phys'
    BY <1>1, <1>4
  <2>19. Booted(s)
    BY <1>1, <2>14, <2>17, <2>18 DEF Booted
  <2> QED BY <2>19
<1> QED BY <1>3, <1>4

-----------------------------------------------------------------------------
(* The demonstrations.                                                     *)

\* r is s with the directories D and the spare pages M: pages were given back.
GivenBack(r, s, D, X, M, root, n) ==
  Site(r, D, X, M, root, n) /\ r.tables = s.tables /\ r.tlb = s.tlb /\ r.ok = s.ok

\* One spare page is given back.
LEMMA SpareFreed ==
  ASSUME Machine, NEW s, NEW D, NEW X, NEW L, NEW root, NEW n, Site(s, D, X, L, root, n),
         NEW q \in L, NEW r, r = pmm_free_page(s, q), NEW M, M = L \ {q}
  PROVE  GivenBack(r, s, D, X, M, root, n)
<1> DEFINE S == {q}
<1>1. Good(s) /\ L \subseteq s.held
  BY SiteFacts
<1>2. S \in SUBSET s.held /\ S \in SUBSET L /\ q \in S /\ S = {q}
  BY <1>1
<1> HIDE DEF S
<1>3. Gives(r, s, S)
  BY <1>1, <1>2, FreeGives
<1>4. Site(r, D, X, L \ S, root, n)
  BY <1>2, <1>3, SiteGives
<1> QED BY <1>2, <1>3, <1>4 DEF Gives, GivenBack

\* uservm gives up a directory without any page.
LEMMA BareDropped ==
  ASSUME Machine, NEW s, NEW D, NEW X, NEW L, NEW root, NEW n, Site(s, D, X, L, root, n),
         NEW d \in D, d # root, \A v : <<d, v>> \notin X,
         PrivateTables(s.tables, d) = {}, MappedFrames(s.tables, d) = {},
         NEW r, r = pmm_free_page(s, d)
  PROVE  GivenBack(r, s, D \ {d}, X, L, root, n)
<1> DEFINE K == L \cup {d}
<1>1. Belongings(s.tables, d) = {d}
  BY DEF Belongings
<1>2. Site(s, D \ {d}, X, K, root, n) /\ d \notin L
  BY <1>1, SiteDrops
<1>3. d \in K /\ L = K \ {d}
  BY <1>2
<1> HIDE DEF K
<1> QED BY <1>2, <1>3, SpareFreed

\* uservm gives up a directory with one page: its tables stay behind.
LEMMA CodedDropped ==
  ASSUME Machine, NEW s, NEW D, NEW X, NEW L, NEW root, NEW n, Site(s, D, X, L, root, n),
         NEW d \in D, d # root, \A v : <<d, v>> \notin X,
         NEW code, MappedFrames(s.tables, d) = {code},
         NEW y, y = pmm_free_page(s, code), NEW r, r = pmm_free_page(y, d)
  PROVE  GivenBack(r, s, D \ {d}, X, L \cup PrivateTables(s.tables, d), root, n)
<1> DEFINE P == PrivateTables(s.tables, d)
           K == L \cup ({d} \cup P \cup {code})
           K2 == K \ {code}
           M == L \cup P
<1>1. Belongings(s.tables, d) = {d} \cup P \cup {code}
  BY DEF Belongings
<1>2. Site(s, D \ {d}, X, K, root, n) /\ ({d} \cup P \cup {code}) \cap L = {}
      /\ d \notin P /\ d # code /\ code \notin P
  <2>1. /\ Site(s, D \ {d}, X, L \cup Belongings(s.tables, d), root, n)
        /\ Belongings(s.tables, d) \cap L = {}
        /\ d \notin PrivateTables(s.tables, d) /\ d \notin MappedFrames(s.tables, d)
        /\ MappedFrames(s.tables, d) \cap PrivateTables(s.tables, d) = {}
    BY SiteDrops
  <2> QED BY <1>1, <2>1
<1>3. code \in K /\ d \in K2 /\ M = K2 \ {d} /\ K2 = K \ {code}
  BY <1>2
<1> HIDE DEF K, K2, P, M
<1>4. GivenBack(y, s, D \ {d}, X, K2, root, n)
  BY <1>2, <1>3, SpareFreed
<1>5. GivenBack(r, y, D \ {d}, X, M, root, n)
  BY <1>3, <1>4, SpareFreed DEF GivenBack
<1> QED BY <1>4, <1>5 DEF GivenBack, M, P

\* r is s with a new directory d, or, with r.ok FALSE, without it; the pages
\* of M are lost.
DemoMade(r, s, d, D, X, M, root, n) ==
  /\ Alike(r.tables, s.tables, D) /\ r.tlb = s.tlb
  /\ \/ r.ok = FALSE /\ Site(r, D, X, M, root, n)
     \/ r.ok = TRUE /\ d \in Pages \ {0} /\ d \notin D /\ Site(r, D \cup {d}, X, M, root, n)

\* The second page of uservm.
LEMMA DemoStack ==
  ASSUME Machine, NEW s, NEW D, NEW X, NEW L, NEW root, NEW n, NEW d,
         Site(s, D \cup {d}, X, L, root, n), d \in Pages \ {0}, d \notin D, d # root,
         d # current_page_directory_phys, \A v : <<d, v>> \notin X,
         NEW c1 \in UserVirt, NEW c2 \in UserVirt, c1 # c2, NEW code,
         vmm_get_page_entry(s.tables, d, c1) = Entry(code, TRUE),
         \A w \in UserVirt : w # c1 => vmm_get_page_entry(s.tables, d, w) = NoEntry,
         NEW x, x = alloc_and_map_page(s, d, c2, TRUE), NEW r,
         r = IF ~x.ok THEN pmm_free_page(pmm_free_page(x, code), d) ELSE x,
         NEW M, M = IF ~x.ok THEN L \cup PrivateTables(s.tables, d) ELSE L
  PROVE  DemoMade(r, s, d, D, X, M, root, n)
<1> DEFINE E == D \cup {d}
           P == PrivateTables(s.tables, d)
<1>1. d \in E /\ E \ {d} = D /\ \A c \in D : c \in E /\ c # d
  OBVIOUS
<1>2. Site(s, E, X, L, root, n)
  OBVIOUS
<1> HIDE DEF E
<1>3. MappedNew(x, s, d, c2, TRUE, E, X, L, root, n)
  <2>1. ~vmm_get_page_entry(s.tables, d, c2).present \/ <<d, c2>> \in X
    BY EmptyRows
  <2> QED BY <1>1, <1>2, <2>1, SiteMapsNew
<1>4. CASE x.ok = FALSE
  <2>1. /\ Site(x, E, X, L, root, n) /\ SameWalks(x.tables, s.tables, E) /\ x.tlb = s.tlb
    BY <1>3, <1>4 DEF MappedNew
  <2>2. x.tables[d] = s.tables[d]
        /\ \A w \in UserVirt : vmm_get_page_entry(x.tables, d, w) = vmm_get_page_entry(s.tables, d, w)
    BY <1>1, <2>1, Places DEF SameWalks
  <2>3. PrivateTables(x.tables, d) = P
    BY <2>2 DEF PrivateTables
  <2>4. MappedFrames(x.tables, d) = {code}
    <3>3. Entry(code, TRUE).present = TRUE /\ Entry(code, TRUE).frame = code
      BY DEF Entry
    <3>4. vmm_get_page_entry(x.tables, d, c1) = Entry(code, TRUE)
          /\ \A w \in UserVirt : w # c1 => vmm_get_page_entry(x.tables, d, w) = NoEntry
      BY <2>2
    <3>1. \A w \in UserVirt : vmm_get_page_entry(x.tables, d, w).present <=> w = c1
      BY <3>3, <3>4, EmptyRows
    <3>2. vmm_get_page_entry(x.tables, d, c1).frame = code
      BY <3>3, <3>4
    <3> QED BY <3>1, <3>2 DEF MappedFrames
  <2> DEFINE y == pmm_free_page(x, code)
  <2>5. r = pmm_free_page(y, d) /\ y = pmm_free_page(x, code)
    BY <1>4
  <2> HIDE DEF P, y
  <2>6. GivenBack(r, x, E \ {d}, X, L \cup PrivateTables(x.tables, d), root, n)
    BY <1>1, <2>1, <2>4, <2>5, CodedDropped
  <2>7. Site(r, D, X, L \cup P, root, n) /\ r.tables = x.tables /\ r.tlb = s.tlb /\ r.ok = FALSE
    BY <1>1, <1>4, <2>1, <2>3, <2>6 DEF GivenBack
  <2>8. Alike(r.tables, s.tables, D)
    BY <1>1, <2>1, <2>7 DEF Alike, SameWalks
  <2> QED BY <1>4, <2>7, <2>8 DEF DemoMade, P
<1>5. CASE x.ok = TRUE
  <2>1. r = x
    BY <1>5
  <2>2. Mapped(x, s, d, c2, Entry(First(FreeOf(s)), TRUE), E, X \ {<<d, c2>>}, L, root, n)
    BY <1>3, <1>5 DEF MappedNew
  <2>3. X \ {<<d, c2>>} = X
    OBVIOUS
  <2>4. Site(x, E, X, L, root, n) /\ AlikeBut(x.tables, s.tables, E, d, c2) /\ x.tlb = s.tlb
    BY <2>2, <2>3 DEF Mapped, Flushed
  <2>5. Alike(x.tables, s.tables, D)
    BY <1>1, <2>4 DEF AlikeBut, Alike
  <2> QED BY <1>5, <2>1, <2>4, <2>5 DEF DemoMade, E
<1>6. x.ok = TRUE \/ x.ok = FALSE
  BY <1>3 DEF MappedNew
<1> QED BY <1>4, <1>5, <1>6

\* A demonstration made in two steps.
LEMMA DemoCompose ==
  ASSUME NEW r, NEW x, NEW s, NEW d, NEW D, NEW X, NEW M, NEW root, NEW n,
         DemoMade(r, x, d, D, X, M, root, n), Alike(x.tables, s.tables, D), x.tlb = s.tlb
  PROVE  DemoMade(r, s, d, D, X, M, root, n)
<1>1. Alike(r.tables, s.tables, D)
  BY DEF DemoMade, Alike
<1> QED BY <1>1 DEF DemoMade

\* How uservm ends after the first page was tried, and after the second.
CodeEnd(coded, x, code, d) ==
  IF ~coded.ok THEN pmm_free_page(coded, d)
  ELSE IF ~x.ok THEN pmm_free_page(pmm_free_page(x, code), d) ELSE x
CodeLost(coded, x, L, d) ==
  IF coded.ok /\ ~x.ok THEN L \cup PrivateTables(coded.tables, d) ELSE L

\* The first page of uservm.
LEMMA DemoCode ==
  ASSUME Machine, NEW s, NEW D, NEW X, NEW L, NEW root, NEW n, NEW d,
         Site(s, D \cup {d}, X, L, root, n), d \in Pages \ {0}, d \notin D, d # root,
         d # current_page_directory_phys, \A v : <<d, v>> \notin X,
         NEW c1 \in UserVirt, NEW c2 \in UserVirt, c1 # c2,
         \A i \in UserIdx : s.tables[d][i] = NoEntry,
         \A w \in UserVirt : vmm_get_page_entry(s.tables, d, w) = NoEntry,
         NEW coded, coded = alloc_and_map_page(s, d, c1, TRUE),
         NEW x, x = alloc_and_map_page(coded, d, c2, TRUE), NEW r,
         r = CodeEnd(coded, x, First(FreeOf(s)), d), NEW M, M = CodeLost(coded, x, L, d)
  PROVE  DemoMade(r, s, d, D, X, M, root, n)
<1> DEFINE E == D \cup {d}
           code == First(FreeOf(s))
<1>1. d \in E /\ E \ {d} = D /\ \A c \in D : c \in E /\ c # d
  OBVIOUS
<1>2. Site(s, E, X, L, root, n)
  OBVIOUS
<1> HIDE DEF E
<1>3. MappedNew(coded, s, d, c1, TRUE, E, X, L, root, n)
  <2>1. ~vmm_get_page_entry(s.tables, d, c1).present \/ <<d, c1>> \in X
    BY EmptyRows
  <2> QED BY <1>1, <1>2, <2>1, SiteMapsNew
<1>4. CASE coded.ok = FALSE
  <2>1. r = pmm_free_page(coded, d) /\ M = L
    BY <1>4 DEF CodeEnd, CodeLost
  <2>2. Site(coded, E, X, L, root, n) /\ SameWalks(coded.tables, s.tables, E) /\ coded.tlb = s.tlb
    BY <1>3, <1>4 DEF MappedNew
  <2>3. coded.tables[d] = s.tables[d]
        /\ \A w \in UserVirt : vmm_get_page_entry(coded.tables, d, w) = NoEntry
    BY <1>1, <2>2, Places DEF SameWalks
  <2>4. PrivateTables(coded.tables, d) = {} /\ MappedFrames(coded.tables, d) = {}
    <3>1. \A i \in Indexes : ~(~IsShared(i) /\ coded.tables[d][i].present)
      BY <2>3, EmptyRows DEF UserIdx
    <3> QED BY <2>3, <3>1, EmptyRows DEF PrivateTables, MappedFrames
  <2>5. GivenBack(r, coded, E \ {d}, X, L, root, n)
    BY <1>1, <2>1, <2>2, <2>4, BareDropped
  <2>6. Site(r, D, X, L, root, n) /\ r.tables = coded.tables /\ r.tlb = s.tlb /\ r.ok = FALSE
    BY <1>1, <1>4, <2>2, <2>5 DEF GivenBack
  <2>7. Alike(r.tables, s.tables, D)
    BY <1>1, <2>2, <2>6 DEF Alike, SameWalks
  <2> QED BY <1>4, <2>1, <2>6, <2>7 DEF DemoMade
<1>5. CASE coded.ok = TRUE
  <2>1. r = IF ~x.ok THEN pmm_free_page(pmm_free_page(x, code), d) ELSE x
    BY <1>5 DEF CodeEnd
  <2>2. Mapped(coded, s, d, c1, Entry(code, TRUE), E, X \ {<<d, c1>>}, L, root, n)
    BY <1>3, <1>5 DEF MappedNew
  <2>3. X \ {<<d, c1>>} = X
    OBVIOUS
  <2> HIDE DEF code
  <2>4. /\ Site(coded, E, X, L, root, n) /\ vmm_get_page_entry(coded.tables, d, c1) = Entry(code, TRUE)
        /\ AlikeBut(coded.tables, s.tables, E, d, c1) /\ coded.tlb = s.tlb
    BY <2>2, <2>3 DEF Mapped, Flushed
  <2>5. \A w \in UserVirt : w # c1 => vmm_get_page_entry(coded.tables, d, w) = NoEntry
    BY <1>1, <2>4, Places DEF AlikeBut
  <2>6. Alike(coded.tables, s.tables, D)
    BY <1>1, <2>4 DEF AlikeBut, Alike
  <2>9. M = IF ~x.ok THEN L \cup PrivateTables(coded.tables, d) ELSE L
    BY <1>5 DEF CodeLost
  <2>7. DemoMade(r, coded, d, D, X, M, root, n)
    <3>1. Site(coded, D \cup {d}, X, L, root, n)
      BY <2>4 DEF E
    <3> QED BY <2>1, <2>4, <2>5, <2>9, <3>1, DemoStack
  <2>8. DemoMade(r, s, d, D, X, M, root, n)
    BY <2>4, <2>6, <2>7, DemoCompose
  <2> QED BY <2>8
<1>6. coded.ok = TRUE \/ coded.ok = FALSE
  BY <1>3 DEF MappedNew
<1> QED BY <1>4, <1>5, <1>6

DemoEnd(created, coded, x, d) ==
  IF ~created.ok THEN created
  ELSE IF ~coded.ok THEN pmm_free_page(coded, d)
  ELSE IF ~x.ok THEN pmm_free_page(pmm_free_page(x, First(FreeOf(created))), d)
  ELSE x
DemoLost(created, coded, x, L, d) ==
  IF created.ok /\ coded.ok /\ ~x.ok THEN L \cup PrivateTables(coded.tables, d) ELSE L

\* vmm_create_user_demo_space, in each of its four ends.
LEMMA DemoSpace ==
  ASSUME Machine, NEW s, NEW D, NEW X, NEW L, NEW n, Site(s, D, X, L, KernelDir, n), s.ok = TRUE,
         current_page_directory_phys \in D, \A c, v : <<c, v>> \in X => c = KernelDir,
         NEW created, NEW coded, NEW x, NEW r, created = vmm_create_address_space(s),
         coded = alloc_and_map_page(created, First(FreeOf(s)), VMM_USER_CODE_BASE, TRUE),
         x = alloc_and_map_page(coded, First(FreeOf(s)), STACK_PAGE, TRUE),
         r = DemoEnd(created, coded, x, First(FreeOf(s))),
         NEW M, M = DemoLost(created, coded, x, L, First(FreeOf(s)))
  PROVE  DemoMade(r, s, First(FreeOf(s)), D, X, M, KernelDir, n)
<1> DEFINE d == First(FreeOf(s))
           c1 == VMM_USER_CODE_BASE
           c2 == STACK_PAGE
<1>1. c1 \in UserVirt /\ c2 \in UserVirt /\ c1 # c2
  BY AddressSpacesAssumption, Places DEF UserVirt, Base
<1>2. KernelDir \in D /\ D \subseteq s.held /\ s.held \subseteq Pages
  BY SiteFacts
<1>3. Created(created, s, D, X, L, KernelDir, n)
  BY SiteCreates
<1>4. CASE FreeOf(s) = {}
  <2>1. created.ok = FALSE /\ Updated(created, s, s.tables, s.tlb, FALSE)
    BY <1>3, <1>4 DEF Created
  <2>2. r = created /\ M = L
    BY <2>1 DEF DemoEnd, DemoLost
  <2>3. Site(created, D, X, L, KernelDir, n)
    BY <2>1, SiteUpdated DEF Updated
  <2> QED BY <2>1, <2>2, <2>3 DEF DemoMade, Updated, Alike
<1>5. CASE FreeOf(s) # {}
  <2>1. /\ created.ok = TRUE /\ d \in Pages \ {0} /\ d \notin s.held
        /\ Site(created, D \cup {d}, X, L, KernelDir, n)
        /\ \A i \in UserIdx : created.tables[d][i] = NoEntry
        /\ \A w \in UserVirt : vmm_get_page_entry(created.tables, d, w) = NoEntry
        /\ Alike(created.tables, s.tables, D) /\ created.tlb = s.tlb
    BY <1>3, <1>5 DEF Created
  <2> HIDE DEF d
  <2>2. d \notin D /\ d # KernelDir /\ (\A v : <<d, v>> \notin X) /\ d # current_page_directory_phys
    BY <1>2, <2>1
  <2>3. /\ coded = alloc_and_map_page(created, d, c1, TRUE)
        /\ x = alloc_and_map_page(coded, d, c2, TRUE)
        /\ r = CodeEnd(coded, x, First(FreeOf(created)), d) /\ M = CodeLost(coded, x, L, d)
    BY <2>1 DEF d, CodeEnd, CodeLost, DemoEnd, DemoLost
  <2> HIDE DEF c1, c2
  <2>4. DemoMade(r, created, d, D, X, M, KernelDir, n)
    BY <1>1, <2>1, <2>2, <2>3, DemoCode
  <2>5. DemoMade(r, s, d, D, X, M, KernelDir, n)
    BY <2>1, <2>3, <2>4, DemoCompose
  <2> QED BY <2>5 DEF d
<1> QED BY <1>4, <1>5

\* The translations of r are translations of s with the same entries.
Kept(r, s, d) ==
  /\ r.tlb \subseteq s.tlb
  /\ \A b \in r.tlb : vmm_get_page_entry(r.tables, d, b[1]) = vmm_get_page_entry(s.tables, d, b[1])

\* Keeping twice.
LEMMA KeptTwice ==
  ASSUME NEW r, NEW x, NEW s, NEW d, Kept(r, x, d), Kept(x, s, d)
  PROVE  Kept(r, s, d)
BY DEF Kept

\* The end of ring3: both pages of the kernel's directory are mapped, or, with
\* r.ok FALSE, the second is not and the first does not count.
Ring3Made(r, s, c1, c2, D, L, root, n) ==
  /\ \A c \in D, w \in AllVirt : ~(c = root /\ w \in {c1, c2}) =>
       vmm_get_page_entry(r.tables, c, w) = vmm_get_page_entry(s.tables, c, w)
  /\ Kept(r, s, root)
  /\ \/ r.ok = TRUE /\ Site(r, D, {}, L, root, n)
     \/ /\ r.ok = FALSE /\ Site(r, D, {<<root, c1>>}, L, root, n)
        /\ vmm_get_page_entry(r.tables, root, c2) = vmm_get_page_entry(s.tables, root, c2)

\* The mapping of a page that is given back no longer counts.
LEMMA HiddenFreed ==
  ASSUME Machine, NEW s, NEW D, NEW L, NEW root, NEW n, Site(s, D, {}, L, root, n),
         NEW v \in UserVirt, vmm_get_page_entry(s.tables, root, v).present,
         NEW code, vmm_get_page_entry(s.tables, root, v).frame = code,
         NEW r, r = pmm_free_page(s, code)
  PROVE  GivenBack(r, s, D, {<<root, v>>}, L, root, n)
<1> DEFINE X == {<<root, v>>}
           K == L \cup {code}
<1>1. PICK own : Owned(own, s.tables, s.held, D, {}, L, root)
  BY DEF Site, Laid
<1>2. root \in D /\ L \subseteq Pages
  BY <1>1 DEF Owned, RolesExact
<1>3. code \in Pages /\ own[code] = PageRole(root, v)
  BY <1>1, <1>2 DEF Owned, Referenced
<1>4. code \notin L
  BY <1>1, <1>3, RolesDiffer DEF Owned, RolesExact
<1>5. Laid(s.tables, s.held, D, {} \cup {<<root, v>>},
           L \cup {vmm_get_page_entry(s.tables, root, v).frame}, root)
  BY <1>1, <1>2, RoleHidden
<1>6. {} \cup {<<root, v>>} = X
  OBVIOUS
<1>7. Laid(s.tables, s.held, D, X, K, root)
  BY <1>5, <1>6
<1>8. code \in K /\ L = K \ {code}
  BY <1>4
<1> HIDE DEF K, X
<1>9. Site(s, D, X, K, root, n)
  BY <1>7 DEF Site
<1>10. GivenBack(r, s, D, X, L, root, n)
  BY <1>8, <1>9, SpareFreed
<1> QED BY <1>10 DEF X

\* The second page of ring3.
LEMMA Ring3Stack ==
  ASSUME Machine, NEW s, NEW D, NEW L, NEW root, NEW n, Site(s, D, {}, L, root, n),
         root = current_page_directory_phys, \A b \in s.tlb : b[1] \in UserVirt,
         NEW c1 \in UserVirt, NEW c2 \in UserVirt, c1 # c2, NEW code,
         vmm_get_page_entry(s.tables, root, c1) = Entry(code, TRUE),
         ~vmm_get_page_entry(s.tables, root, c2).present,
         NEW x, x = alloc_and_map_page(s, root, c2, TRUE),
         NEW r, r = IF ~x.ok THEN pmm_free_page(x, code) ELSE x
  PROVE  Ring3Made(r, s, c1, c2, D, L, root, n)
<1>1. root \in D /\ c1 \in AllVirt /\ c2 \in AllVirt /\ \A b \in s.tlb : b[1] \in AllVirt
  <2>1. root \in D
    BY SiteFacts
  <2>2. UserVirt \subseteq AllVirt
    BY Places
  <2> QED BY <2>1, <2>2
<1>2. MappedNew(x, s, root, c2, TRUE, D, {}, L, root, n)
  BY <1>1, SiteMapsNew
<1>3. CASE x.ok = FALSE
  <2>1. Site(x, D, {}, L, root, n) /\ SameWalks(x.tables, s.tables, D) /\ x.tlb = s.tlb
    BY <1>2, <1>3 DEF MappedNew
  <2>2. r = pmm_free_page(x, code)
    BY <1>3
  <2>3. vmm_get_page_entry(x.tables, root, c1) = Entry(code, TRUE)
    BY <1>1, <2>1 DEF SameWalks
  <2>4. vmm_get_page_entry(x.tables, root, c1).present /\ vmm_get_page_entry(x.tables, root, c1).frame = code
    <3>1. Entry(code, TRUE).present = TRUE /\ Entry(code, TRUE).frame = code
      BY DEF Entry
    <3> QED BY <2>3, <3>1
  <2>5. GivenBack(r, x, D, {<<root, c1>>}, L, root, n)
    BY <2>1, <2>2, <2>4, HiddenFreed
  <2>6. r.tables = x.tables /\ r.tlb = s.tlb /\ r.ok = FALSE /\ Site(r, D, {<<root, c1>>}, L, root, n)
    BY <1>3, <2>1, <2>5 DEF GivenBack
  <2>7. \A c \in D, w \in AllVirt : vmm_get_page_entry(r.tables, c, w) = vmm_get_page_entry(s.tables, c, w)
    BY <2>1, <2>6 DEF SameWalks
  <2>8. Kept(r, s, root)
    BY <1>1, <2>6, <2>7 DEF Kept
  <2> QED BY <1>1, <2>6, <2>7, <2>8 DEF Ring3Made
<1>4. CASE x.ok = TRUE
  <2>1. Mapped(x, s, root, c2, Entry(First(FreeOf(s)), TRUE), D, {} \ {<<root, c2>>}, L, root, n)
    BY <1>2, <1>4 DEF MappedNew
  <2>2. {} \ {<<root, c2>>} = {}
    OBVIOUS
  <2>3. /\ r = x /\ Site(x, D, {}, L, root, n) /\ AlikeBut(x.tables, s.tables, D, root, c2)
        /\ x.tlb = {b \in s.tlb : b[1] # c2}
    BY <1>4, <2>1, <2>2 DEF Mapped, Flushed
  <2>4. Kept(r, s, root)
    BY <1>1, <2>3 DEF Kept, AlikeBut
  <2> QED BY <1>4, <2>3, <2>4 DEF Ring3Made, AlikeBut
<1>5. x.ok = TRUE \/ x.ok = FALSE
  BY <1>2 DEF MappedNew
<1> QED BY <1>3, <1>4, <1>5

Ring3End(coded, x, code) ==
  IF ~coded.ok THEN coded ELSE IF ~x.ok THEN pmm_free_page(x, code) ELSE x

\* vmm_create_current_user_demo_space, in each of its three ends.
LEMMA Ring3 ==
  ASSUME Machine, NEW s, NEW D, NEW L, NEW root, NEW n, NEW c1 \in UserVirt, NEW c2 \in UserVirt, c1 # c2,
         Site(s, D, {<<root, c1>>}, L, root, n),
         root = current_page_directory_phys, \A b \in s.tlb : b[1] \in UserVirt,
         ~vmm_get_page_entry(s.tables, root, c2).present,
         NEW coded, coded = alloc_and_map_page(s, root, c1, TRUE),
         NEW x, x = alloc_and_map_page(coded, root, c2, TRUE), NEW r,
         r = Ring3End(coded, x, First(FreeOf(s)))
  PROVE  Ring3Made(r, s, c1, c2, D, L, root, n)
<1> DEFINE X == {<<root, c1>>}
           code == First(FreeOf(s))
<1>1. root \in D /\ c1 \in AllVirt /\ c2 \in AllVirt /\ \A b \in s.tlb : b[1] \in AllVirt
  <2>1. root \in D
    BY SiteFacts
  <2>2. UserVirt \subseteq AllVirt
    BY Places
  <2> QED BY <2>1, <2>2
<1>2. <<root, c1>> \in X /\ X \ {<<root, c1>>} = {}
  OBVIOUS
<1>3. Site(s, D, X, L, root, n)
  OBVIOUS
<1> HIDE DEF X
<1>4. MappedNew(coded, s, root, c1, TRUE, D, X, L, root, n)
  BY <1>1, <1>2, <1>3, SiteMapsNew
<1>5. CASE coded.ok = FALSE
  <2>1. /\ r = coded /\ Site(r, D, X, L, root, n) /\ SameWalks(r.tables, s.tables, D) /\ r.tlb = s.tlb
    BY <1>4, <1>5 DEF MappedNew, Ring3End
  <2>2. Kept(r, s, root)
    BY <1>1, <2>1 DEF Kept, SameWalks
  <2> QED BY <1>1, <1>5, <2>1, <2>2 DEF Ring3Made, SameWalks, X
<1>6. CASE coded.ok = TRUE
  <2>1. Mapped(coded, s, root, c1, Entry(code, TRUE), D, {}, L, root, n)
    BY <1>2, <1>4, <1>6 DEF MappedNew
  <2>2. r = IF ~x.ok THEN pmm_free_page(x, code) ELSE x
    BY <1>6 DEF Ring3End
  <2> HIDE DEF code
  <2>3. /\ Site(coded, D, {}, L, root, n) /\ AlikeBut(coded.tables, s.tables, D, root, c1)
        /\ vmm_get_page_entry(coded.tables, root, c1) = Entry(code, TRUE)
        /\ coded.tlb = {b \in s.tlb : b[1] # c1}
    BY <2>1 DEF Mapped, Flushed
  <2>4. vmm_get_page_entry(coded.tables, root, c2) = vmm_get_page_entry(s.tables, root, c2)
    BY <1>1, <2>3 DEF AlikeBut
  <2>5. Ring3Made(r, coded, c1, c2, D, L, root, n)
    BY <2>2, <2>3, <2>4, Ring3Stack
  <2>6. Kept(coded, s, root)
    BY <1>1, <2>3 DEF Kept, AlikeBut
  <2>7. Kept(r, s, root)
    <3>1. Kept(r, coded, root)
      BY <2>5 DEF Ring3Made
    <3> QED BY <2>6, <3>1, KeptTwice
  <2>8. \A c \in D, w \in AllVirt : ~(c = root /\ w \in {c1, c2}) =>
          vmm_get_page_entry(r.tables, c, w) = vmm_get_page_entry(s.tables, c, w)
    BY <2>3, <2>5 DEF Ring3Made, AlikeBut
  <2> QED BY <2>4, <2>5, <2>7, <2>8 DEF Ring3Made
<1>7. coded.ok = TRUE \/ coded.ok = FALSE
  BY <1>4 DEF MappedNew
<1> QED BY <1>5, <1>6, <1>7

-----------------------------------------------------------------------------
(* The invariant of the whole memory.                                      *)

At(d, v) == vmm_get_page_entry(tables, d, v)
ProcessDirs == {KernelDir} \cup spaces

\* Until ring3 is complete its code page does not count.
Excepted == IF ring3_demo_ready THEN {} ELSE {<<KernelDir, VMM_USER_CODE_BASE>>}

\* The roles of all pages in use.
MemSite == Site(State, Directories, Excepted, lost, KernelDir, pmm_total_pages)

\* The directories are different pages, one of them is loaded.
SpacesApart ==
  /\ KernelDir # 0 /\ KernelDir \notin spaces /\ 0 \notin spaces
  /\ demo_user_space \notin spaces \cup {KernelDir} /\ Loaded \in ProcessDirs

\* The pager knows exactly the pages mapped at its addresses.
PagerPages ==
  /\ pager_frames \subseteq ProcessDirs \X PAGER_VIRT \X Pages
  /\ \A d \in ProcessDirs, v \in PAGER_VIRT, f \in Pages :
       <<d, v, f>> \in pager_frames <=> At(d, v).present /\ At(d, v).frame = f

\* An allocated slot is mapped, and a process has no pages but those of the
\* pager and of its slots.
SlotPages ==
  /\ slots \in [MEMDEMO_VIRT -> Nat \X Nat]
  /\ \A v \in MEMDEMO_VIRT : slots[v] # NoSlot =>
       /\ slots[v][1] \in spaces
       /\ At(slots[v][1], v).present /\ At(slots[v][1], v).frame = slots[v][2]
  /\ \A d \in spaces, v \in UserVirt : At(d, v).present =>
       v \in PAGER_VIRT \/ (v \in MEMDEMO_VIRT /\ slots[v][1] = d)
  /\ active_pages = Cardinality({v \in MEMDEMO_VIRT : slots[v] # NoSlot})

\* Until ring3 is complete its stack is not mapped.
StackFree == ~ring3_demo_ready => ~At(KernelDir, STACK_PAGE).present

\* The CPU caches translations of user pages.
Cached == TlbCoherent /\ \A b \in tlb : b[1] \in UserVirt

ReadyInv == MemSite /\ SpacesApart /\ PagerPages /\ SlotPages /\ StackFree /\ Cached

\* Nobody uses the memory before vmm_init has ended.
Idle ==
  /\ tlb = {} /\ spaces = {} /\ pager_frames = {} /\ slots = [v \in MEMDEMO_VIRT |-> NoSlot]
  /\ active_pages = 0 /\ demo_user_space = 0 /\ ring3_demo_ready = FALSE /\ lost = {}

MemInv ==
  /\ PmmInv /\ tables \in Tables /\ vmm_ready \in {"no", "yes", "failed"}
  /\ (phase # "ready" => vmm_ready = "no")
  /\ (vmm_ready = "no" => held = {} /\ tables = [p \in Pages |-> Cleared])
  /\ (vmm_ready = "yes" => ReadyInv)
  /\ (vmm_ready # "yes" => Idle)

\* The reference definitions depend on the machine only.
LEMMA Unmoved ==
  ASSUME UNCHANGED <<pmm_total_memory_bytes, regions>>
  PROVE  /\ Pages' = Pages /\ pmm_total_pages' = pmm_total_pages
         /\ EntrySet' = EntrySet /\ Tables' = Tables /\ MemStates' = MemStates
         /\ (Machine' <=> Machine) /\ \A p : Usable(p)' <=> Usable(p)
<1>1. Pages' = Pages /\ \A p : Usable(p)' <=> Usable(p)
  BY UsableSame
<1>2. pmm_total_pages' = pmm_total_pages
  BY DEF pmm_total_pages
<1>3. EntrySet' = EntrySet
  BY <1>1 DEF EntrySet
<1>4. Tables' = Tables
  BY <1>1, <1>3 DEF Tables, Rows
<1>5. MemStates' = MemStates
  BY <1>1, <1>4 DEF MemStates
<1>6. Machine' <=> Machine
  BY DEF Machine, RegionsTyped
<1> QED BY <1>1, <1>2, <1>3, <1>4, <1>5, <1>6

\* A good state is still good after it was assigned.
LEMMA GoodNext ==
  ASSUME UNCHANGED <<pmm_total_memory_bytes, regions>>, NEW r, Good(r), VmmBecomes(r)
  PROVE  Good(State)'
<1> DEFINE q == State'
<1>1. Pages' = Pages /\ MemStates' = MemStates /\ \A p : Usable(p)' <=> Usable(p)
  BY Unmoved
<1>2. q = [bitmap |-> r.bitmap, free_pages |-> r.free_pages, held |-> r.held,
           tables |-> r.tables, tlb |-> r.tlb, ok |-> TRUE]
  BY DEF State, VmmBecomes, Becomes
<1>3. q \in MemStates
  BY <1>2 DEF Good, MemStates
<1> HIDE DEF q
<1>4. /\ q \in MemStates
      /\ q.free_pages = Cardinality(Pages \ q.bitmap) /\ q.held \subseteq q.bitmap
      /\ \A p \in Pages : (p \notin q.bitmap \/ p \in q.held) <=> Usable(p)
  BY <1>2, <1>3 DEF Good
<1> QED BY <1>1, <1>4 DEF Good, q

\* The roles of the pages depend on the machine only.
LEMMA LaidNext ==
  ASSUME Pages' = Pages, NEW t, NEW h, NEW D, NEW X, NEW L, NEW root, Laid(t, h, D, X, L, root)
  PROVE  Laid(t, h, D, X, L, root)'
BY DEF Laid, Owned, RolesExact, Backed, Referenced

\* The site an action has reached is the site of the next state.
LEMMA SiteNext ==
  ASSUME UNCHANGED <<pmm_total_memory_bytes, regions>>, NEW r, NEW D, NEW X, NEW L, NEW root,
         Site(r, D, X, L, root, pmm_total_pages), VmmBecomes(r),
         D = Directories', X = Excepted', L = lost', root = KernelDir'
  PROVE  MemSite'
<1>1. Good(State)'
  BY GoodNext DEF Site
<1>2. Pages' = Pages /\ pmm_total_pages' = pmm_total_pages
  BY Unmoved
<1>3. State'.tables = r.tables /\ State'.held = r.held
  BY DEF State, VmmBecomes, Becomes
<1>4. Laid(r.tables, r.held, D, X, L, root) /\ KernelMap(r.tables, root, pmm_total_pages)
  BY DEF Site
<1>5. Laid(State.tables, State.held, Directories, Excepted, lost, KernelDir)'
  BY <1>2, <1>3, <1>4, LaidNext
<1>6. KernelMap(State.tables, KernelDir, pmm_total_pages)'
  BY <1>2, <1>3, <1>4
<1> QED BY <1>1, <1>5, <1>6 DEF MemSite, Site

\* A good state is what the allocator's invariant says once pmm_init is done.
LEMMA GoodExact ==
  Machine /\ phase = "ready" =>
    /\ Good(State) => PmmInv /\ tables \in Tables
    /\ PmmInv /\ tables \in Tables /\ tlb = {} => Good(State)
<1> SUFFICES ASSUME Machine, phase = "ready"
             PROVE  /\ Good(State) => PmmInv /\ tables \in Tables
                    /\ PmmInv /\ tables \in Tables /\ tlb = {} => Good(State)
  OBVIOUS
<1>1. ASSUME Good(State) PROVE PmmInv /\ tables \in Tables
  <2>1. /\ pmm_bitmap \in SUBSET Pages /\ pmm_free_pages \in Nat /\ held \in SUBSET Pages
        /\ tables \in Tables
    BY <1>1 DEF Good, MemStates, State
  <2>2. /\ pmm_free_pages = Cardinality(Pages \ pmm_bitmap) /\ held \subseteq pmm_bitmap
        /\ \A p \in Pages : (p \notin pmm_bitmap \/ p \in held) <=> Usable(p)
    BY <1>1 DEF Good, State
  <2>3. PmmTypeOK
    BY <2>1 DEF PmmTypeOK, Machine, Pages
  <2>4. FreeCountExact /\ ExactlyUsable
    BY <2>2 DEF FreeCountExact, ExactlyUsable, Pages
  <2> QED BY <2>1, <2>3, <2>4 DEF PmmInv, AllocatorExact, Machine
<1>2. ASSUME PmmInv, tables \in Tables, tlb = {} PROVE Good(State)
  <2>1. State \in MemStates
    BY <1>2 DEF MemStates, State, PmmInv, AllocatorExact, PmmTypeOK, Pages
  <2>2. /\ pmm_free_pages = Cardinality(Pages \ pmm_bitmap) /\ held \subseteq pmm_bitmap
        /\ \A p \in Pages : (p \notin pmm_bitmap \/ p \in held) <=> Usable(p)
    BY <1>2 DEF PmmInv, AllocatorExact, FreeCountExact, ExactlyUsable, Pages
  <2> QED BY <2>1, <2>2 DEF Good, State
<1> QED BY <1>1, <1>2

-----------------------------------------------------------------------------
(* The steps of the users of the memory.                                   *)

\* Where the users of the memory map pages.
LEMMA UserPlaces ==
  /\ PAGER_VIRT \subseteq UserVirt /\ MEMDEMO_VIRT \subseteq UserVirt
  /\ VMM_USER_CODE_BASE \in UserVirt /\ STACK_PAGE \in UserVirt /\ VMM_USER_CODE_BASE # STACK_PAGE
  /\ PAGER_VIRT \cap MEMDEMO_VIRT = {}
  /\ VMM_USER_CODE_BASE \notin PAGER_VIRT /\ STACK_PAGE \notin PAGER_VIRT
  /\ UserVirt \subseteq AllVirt /\ UserVirt \subseteq Nat
  /\ IsFiniteSet(MEMDEMO_VIRT) /\ IsFiniteSet(PAGER_VIRT)
<1>1. /\ PAGER_VIRT \subseteq UserVirt /\ MEMDEMO_VIRT \subseteq UserVirt
      /\ VMM_USER_CODE_BASE \in UserVirt /\ STACK_PAGE \in UserVirt
      /\ VMM_USER_CODE_BASE # STACK_PAGE /\ PAGER_VIRT \cap MEMDEMO_VIRT = {}
      /\ VMM_USER_CODE_BASE \notin PAGER_VIRT /\ STACK_PAGE \notin PAGER_VIRT
  BY AddressSpacesAssumption DEF UserVirt, Base
<1>2. UserVirt \subseteq AllVirt /\ UserVirt \subseteq Nat /\ IsFiniteSet(UserVirt)
  BY Places
<1> QED BY <1>1, <1>2, FS_Subset

\* The site of a state, and its directories.
LEMMA ReadySite ==
  ASSUME ReadyInv
  PROVE  /\ Site(State, Directories, Excepted, lost, KernelDir, pmm_total_pages)
         /\ Good(State) /\ tables \in Tables
         /\ ProcessDirs \subseteq Directories /\ Directories \subseteq held /\ held \subseteq Pages
         /\ KernelDir \in Directories /\ Loaded \in Directories /\ spaces \subseteq Directories
         /\ State.tables = tables /\ State.tlb = tlb /\ State.ok = TRUE /\ State.held = held
<1>1. Site(State, Directories, Excepted, lost, KernelDir, pmm_total_pages)
  BY DEF ReadyInv, MemSite
<1>2. State.tables = tables /\ State.tlb = tlb /\ State.ok = TRUE /\ State.held = held
  BY DEF State
<1>3. Good(State) /\ State.tables \in Tables /\ State.held \subseteq Pages /\ Directories \subseteq State.held
  BY <1>1, SiteFacts
<1>4. ProcessDirs \subseteq Directories /\ KernelDir \in Directories /\ spaces \subseteq Directories
  BY DEF ProcessDirs, Directories
<1>5. Loaded \in Directories
  BY <1>4 DEF ReadyInv, SpacesApart
<1> QED BY <1>1, <1>2, <1>3, <1>4, <1>5

\* Only the code page of ring3 is excepted.
LEMMA ExceptedFacts ==
  /\ \A c, v : <<c, v>> \in Excepted => c = KernelDir /\ v = VMM_USER_CODE_BASE
  /\ ring3_demo_ready = TRUE => Excepted = {}
  /\ ring3_demo_ready = FALSE => Excepted = {<<KernelDir, VMM_USER_CODE_BASE>>}
BY DEF Excepted

\* The entries of the directories.
LEMMA EntriesTyped ==
  ASSUME ReadyInv, NEW d \in Directories, NEW v \in UserVirt
  PROVE  At(d, v) \in EntrySet /\ At(d, v).present \in BOOLEAN
         /\ (At(d, v).present => At(d, v).frame \in Pages)
<1>1. tables \in Tables /\ d \in Pages /\ v \in AllVirt
  BY ReadySite, UserPlaces
<1>2. At(d, v) \in EntrySet
  BY <1>1, WalkFacts DEF At
<1> QED BY <1>2, EntryFacts

\* The users' part of the invariant, when no mapping changes.
LEMMA MappingsKept ==
  ASSUME ReadyInv, Pages' = Pages, KernelDir' = KernelDir,
         UNCHANGED <<spaces, pager_frames, slots, active_pages, ring3_demo_ready>>,
         \A d \in Directories, v \in UserVirt :
           At(d, v)'.present = At(d, v).present /\ At(d, v)'.frame = At(d, v).frame
  PROVE  PagerPages' /\ SlotPages' /\ StackFree'
<1>1. ProcessDirs' = ProcessDirs /\ ProcessDirs \subseteq Directories /\ spaces \subseteq Directories
      /\ KernelDir \in Directories
  BY ReadySite DEF ProcessDirs
<1>2. PagerPages'
  <2>1. /\ pager_frames \subseteq ProcessDirs \X PAGER_VIRT \X Pages
        /\ \A d \in ProcessDirs, v \in PAGER_VIRT, f \in Pages :
             <<d, v, f>> \in pager_frames <=> At(d, v)'.present /\ At(d, v)'.frame = f
    BY <1>1, UserPlaces DEF ReadyInv, PagerPages
  <2> QED BY <1>1, <2>1 DEF PagerPages
<1>3. SlotPages'
  <2>1. /\ slots \in [MEMDEMO_VIRT -> Nat \X Nat]
        /\ \A v \in MEMDEMO_VIRT : slots[v] # NoSlot =>
             /\ slots[v][1] \in spaces
             /\ At(slots[v][1], v).present /\ At(slots[v][1], v).frame = slots[v][2]
        /\ \A d \in spaces, v \in UserVirt : At(d, v).present =>
             v \in PAGER_VIRT \/ (v \in MEMDEMO_VIRT /\ slots[v][1] = d)
        /\ active_pages = Cardinality({v \in MEMDEMO_VIRT : slots[v] # NoSlot})
    BY DEF ReadyInv, SlotPages
  <2>2. \A v \in MEMDEMO_VIRT : v \in UserVirt
    BY UserPlaces
  <2> DEFINE A(d, v) == vmm_get_page_entry(tables', d, v)
  <2>3. \A d \in Directories, v \in UserVirt :
          A(d, v).present = At(d, v).present /\ A(d, v).frame = At(d, v).frame
    BY DEF At
  <2> HIDE DEF A
  <2>4. /\ \A v \in MEMDEMO_VIRT : slots[v] # NoSlot =>
             /\ slots[v][1] \in spaces
             /\ A(slots[v][1], v).present /\ A(slots[v][1], v).frame = slots[v][2]
        /\ \A d \in spaces, v \in UserVirt : A(d, v).present =>
             v \in PAGER_VIRT \/ (v \in MEMDEMO_VIRT /\ slots[v][1] = d)
    BY <1>1, <2>1, <2>2, <2>3
  <2> QED BY <2>1, <2>4 DEF SlotPages, At, A
<1>4. StackFree'
  <2>1. STACK_PAGE \in UserVirt
    BY UserPlaces
  <2>2. ~ring3_demo_ready => ~At(KernelDir, STACK_PAGE).present
    BY DEF ReadyInv, StackFree
  <2>3. At(KernelDir, STACK_PAGE)'.present = At(KernelDir, STACK_PAGE).present
    BY <1>1, <2>1 DEF At
  <2> QED BY <2>2, <2>3 DEF StackFree
<1> QED BY <1>2, <1>3, <1>4

\* The translations that are kept are still right.
LEMMA CachedNext ==
  ASSUME Cached, Loaded' = Loaded, tlb' \subseteq tlb,
         \A b \in tlb' : vmm_get_page_entry(tables', Loaded, b[1]) = At(Loaded, b[1])
  PROVE  Cached'
<1>1. \A b \in tlb : /\ At(Loaded, b[1]).present /\ At(Loaded, b[1]).accessed
                     /\ At(Loaded, b[1]).frame = b[2] /\ b[1] \in UserVirt
  BY DEF Cached, TlbCoherent, At, Loaded
<1> DEFINE A(v) == vmm_get_page_entry(tables', Loaded, v)
<1>2. \A b \in tlb' : A(b[1]).present /\ A(b[1]).accessed /\ A(b[1]).frame = b[2] /\ b[1] \in UserVirt
  BY <1>1
<1> QED BY <1>2 DEF Cached, TlbCoherent, Loaded

\* A call that leaves the mappings and the users alone.
LEMMA QuietStep ==
  ASSUME ReadyInv, NEW r, Site(r, Directories, Excepted, lost, KernelDir, pmm_total_pages),
         VmmBecomes(r), Settled,
         UNCHANGED <<spaces, pager_frames, slots, active_pages, demo_user_space, ring3_demo_ready, lost>>,
         \A d \in Directories, v \in UserVirt :
           /\ vmm_get_page_entry(r.tables, d, v).present = At(d, v).present
           /\ vmm_get_page_entry(r.tables, d, v).frame = At(d, v).frame,
         Cached'
  PROVE  ReadyInv'
<1>1. UNCHANGED <<pmm_total_memory_bytes, regions>> /\ KernelDir' = KernelDir /\ Loaded' = Loaded
  BY DEF Settled, KernelDir, Loaded
<1>2. Directories' = Directories /\ Excepted' = Excepted /\ lost' = lost
  BY <1>1 DEF Directories, Excepted
<1>3. MemSite'
  BY <1>1, <1>2, SiteNext
<1>4. tables' = r.tables
  BY DEF VmmBecomes
<1>5. Pages' = Pages
  BY <1>1, Unmoved
<1>6. \A d \in Directories, v \in UserVirt :
        At(d, v)'.present = At(d, v).present /\ At(d, v)'.frame = At(d, v).frame
  BY <1>4 DEF At
<1>7. PagerPages' /\ SlotPages' /\ StackFree'
  BY <1>1, <1>5, <1>6, MappingsKept
<1>8. SpacesApart'
  BY <1>1 DEF ReadyInv, SpacesApart, ProcessDirs
<1> QED BY <1>3, <1>7, <1>8 DEF ReadyInv

\* Loading a directory.
LEMMA SwitchStep ==
  ASSUME ReadyInv, NEW d \in ProcessDirs, vmm_switch_page_directory(d), UNCHANGED callers
  PROVE  ReadyInv'
<1>1. /\ UNCHANGED <<pmm_total_memory_bytes, pmm_bitmap, pmm_free_pages, phase, regions, held>>
      /\ UNCHANGED <<tables, kernel_page_directory_phys, vmm_ready>>
      /\ tlb' = {} /\ current_page_directory_phys' = d
  BY DEF vmm_switch_page_directory, pmm_vars
<1>2. UNCHANGED <<spaces, pager_frames, slots, active_pages, demo_user_space, ring3_demo_ready, lost>>
  BY DEF callers
<1>3. KernelDir' = KernelDir /\ Loaded' = d /\ ProcessDirs' = ProcessDirs
  BY <1>1, <1>2 DEF KernelDir, Loaded, ProcessDirs
<1>4. Directories' = Directories /\ Excepted' = Excepted
  BY <1>2, <1>3 DEF Directories, Excepted
<1> DEFINE r == [bitmap |-> pmm_bitmap, free_pages |-> pmm_free_pages, held |-> held,
                 tables |-> tables, tlb |-> {}, ok |-> TRUE]
<1>5. Good(r) /\ r.tables = State.tables /\ r.held = State.held /\ VmmBecomes(r)
  <2>1. Good(State)
    BY ReadySite
  <2>2. r = [bitmap |-> pmm_bitmap, free_pages |-> pmm_free_pages, held |-> held,
             tables |-> tables, tlb |-> {}, ok |-> TRUE]
    OBVIOUS
  <2>3. r \in MemStates
    BY <2>1, <2>2 DEF Good, MemStates, State
  <2> HIDE DEF r
  <2>4. Good(r)
    BY <2>1, <2>2, <2>3 DEF Good, State
  <2> QED BY <1>1, <2>2, <2>4 DEF State, VmmBecomes, Becomes
<1> HIDE DEF r
<1>6. Site(r, Directories, Excepted, lost, KernelDir, pmm_total_pages)
  BY <1>5, ReadySite, SiteUpdated
<1>7. MemSite'
  BY <1>1, <1>2, <1>3, <1>4, <1>5, <1>6, SiteNext
<1>8. Pages' = Pages
  BY <1>1, Unmoved
<1>9. \A c \in Directories, v \in UserVirt :
        At(c, v)'.present = At(c, v).present /\ At(c, v)'.frame = At(c, v).frame
  BY <1>1 DEF At
<1>10. PagerPages' /\ SlotPages' /\ StackFree'
  BY <1>2, <1>3, <1>8, <1>9, MappingsKept
<1>11. SpacesApart'
  BY <1>2, <1>3 DEF ReadyInv, SpacesApart
<1>12. Cached'
  BY <1>1 DEF Cached, TlbCoherent
<1> QED BY <1>7, <1>10, <1>11, <1>12 DEF ReadyInv

\* The pager clears the A bit of a resident page.
LEMMA ClearAccessedStep ==
  ASSUME ReadyInv, NEW e \in pager_frames, ClearAccessed(e)
  PROVE  ReadyInv'
<1> DEFINE d == e[1]
           v == e[2]
           g == At(d, v)
           h == [g EXCEPT !.accessed = FALSE]
           s == SetEntry(State, d, v, h)
           r == vmm_clear_page_accessed_in_directory(State, d, v)
<1>1. VmmBecomes(r) /\ Settled /\ UNCHANGED callers
  BY DEF ClearAccessed
<1>2. d \in ProcessDirs /\ v \in PAGER_VIRT /\ e[3] \in Pages /\ e = <<d, v, e[3]>>
  BY DEF ReadyInv, PagerPages
<1>3. g.present
  BY <1>2 DEF ReadyInv, PagerPages
<1>4. d \in Directories /\ v \in UserVirt
  BY <1>2, ReadySite, UserPlaces
<1>5. State.tables = tables /\ State.tlb = tlb
      /\ Site(State, Directories, Excepted, lost, KernelDir, pmm_total_pages)
  BY ReadySite
<1>6. r = invalidate_page(s, d, v)
  BY <1>3, <1>5 DEF vmm_clear_page_accessed_in_directory, At
<1>7. g \in EntrySet
  BY <1>4, EntriesTyped
<1>8. h \in EntrySet /\ h.present = g.present /\ h.frame = g.frame
  BY <1>3, <1>7 DEF EntrySet
<1>9. g = vmm_get_page_entry(State.tables, d, v)
  BY <1>5 DEF At
<1> HIDE DEF d, v, g, h, r, s
<1>10. Mapped(r, State, d, v, h, Directories, Excepted, lost, KernelDir, pmm_total_pages)
  BY <1>3, <1>4, <1>5, <1>6, <1>8, <1>9, SiteTouches DEF s
<1>11. /\ Site(r, Directories, Excepted, lost, KernelDir, pmm_total_pages)
       /\ vmm_get_page_entry(r.tables, d, v) = h
       /\ AlikeBut(r.tables, tables, Directories, d, v) /\ r.tlb = Flushed(tlb, d, v)
  BY <1>5, <1>10 DEF Mapped
<1>12. ASSUME NEW c \in Directories, NEW w \in UserVirt
       PROVE  /\ vmm_get_page_entry(r.tables, c, w).present = At(c, w).present
              /\ vmm_get_page_entry(r.tables, c, w).frame = At(c, w).frame
  <2>1. w \in AllVirt
    BY UserPlaces
  <2>2. CASE c = d /\ w = v
    BY <1>8, <1>11, <2>2 DEF g
  <2>3. CASE ~(c = d /\ w = v)
    BY <1>11, <2>1, <2>3 DEF AlikeBut, At
  <2> QED BY <2>2, <2>3
<1>13. Cached'
  <2>1. tlb' = r.tlb /\ tables' = r.tables /\ Loaded' = Loaded
    BY <1>1 DEF VmmBecomes, Settled, Loaded
  <2>2. tlb' \subseteq tlb /\ \A b \in tlb' : ~(Loaded = d /\ b[1] = v)
    BY <1>11, <2>1 DEF Flushed, Loaded
  <2>3. \A b \in tlb' : b[1] \in AllVirt
    BY <2>2, UserPlaces DEF ReadyInv, Cached
  <2>4. Loaded \in Directories
    BY ReadySite
  <2>5. \A b \in tlb' : vmm_get_page_entry(tables', Loaded, b[1]) = At(Loaded, b[1])
    BY <1>11, <2>1, <2>2, <2>3, <2>4 DEF AlikeBut, At
  <2> QED BY <2>1, <2>2, <2>5, CachedNext DEF ReadyInv
<1>14. UNCHANGED <<spaces, pager_frames, slots, active_pages, demo_user_space, ring3_demo_ready, lost>>
  BY <1>1 DEF callers
<1> QED BY <1>1, <1>11, <1>12, <1>13, <1>14, QuietStep

\* The CPU walks the tables.
LEMMA AccessStep ==
  ASSUME ReadyInv, NEW v \in PAGER_VIRT \cup MEMDEMO_VIRT, Access(v), UNCHANGED callers
  PROVE  ReadyInv'
<1> DEFINE d == Loaded
           g == At(d, v)
           h == [g EXCEPT !.accessed = TRUE]
           s == SetEntry(State, d, v, h)
           b2 == tlb \cup {<<v, g.frame>>}
           r == [bitmap |-> s.bitmap, free_pages |-> s.free_pages, held |-> s.held,
                 tables |-> s.tables, tlb |-> b2, ok |-> s.ok]
<1>1. /\ g.present /\ tlb' = tlb \cup {<<v, g.frame>>} /\ tables' = s.tables
      /\ UNCHANGED <<pmm_total_memory_bytes, pmm_bitmap, pmm_free_pages, phase, regions, held>>
      /\ UNCHANGED <<current_page_directory_phys, kernel_page_directory_phys, vmm_ready>>
  BY DEF Access, At, Loaded, pmm_vars
<1>2. d \in Directories /\ v \in UserVirt
  BY ReadySite, UserPlaces
<1>3. /\ State.tables = tables /\ State.tlb = tlb
      /\ Site(State, Directories, Excepted, lost, KernelDir, pmm_total_pages)
  BY ReadySite
<1>4. g \in EntrySet
  BY <1>2, EntriesTyped
<1>5. h \in EntrySet /\ h.present = g.present /\ h.frame = g.frame /\ h.accessed = TRUE
  BY <1>1, <1>4 DEF EntrySet
<1>6. g = vmm_get_page_entry(State.tables, d, v)
  BY <1>3 DEF At
<1> HIDE DEF d, g, h
<1>7. /\ Site(s, Directories, Excepted, lost, KernelDir, pmm_total_pages)
      /\ s.held = State.held /\ s.bitmap = State.bitmap /\ s.tlb = State.tlb
      /\ vmm_get_page_entry(s.tables, d, v) = h
      /\ AlikeBut(s.tables, State.tables, Directories, d, v)
  <2>1. g.present
    BY <1>1
  <2> HIDE DEF s
  <2>2. Rewritten(SetEntry(State, d, v, h), State, d, v, h, Directories, Excepted, lost,
                  KernelDir, pmm_total_pages)
    BY <1>2, <1>3, <1>5, <1>6, <2>1, SiteTouches
  <2>3. Rewritten(s, State, d, v, h, Directories, Excepted, lost, KernelDir, pmm_total_pages)
    BY <2>2 DEF s
  <2> QED BY <2>3 DEF Rewritten
<1>8. Good(s) /\ Good(State)
  BY <1>3, <1>7, SiteFacts
<1> HIDE DEF s
<1>9. Good(r) /\ r.tables = s.tables /\ r.held = s.held /\ VmmBecomes(r)
  <2>1. s \in MemStates /\ s.free_pages = State.free_pages
    BY <1>7, <1>8 DEF Good
  <2>2. g.frame \in Pages /\ v \in Nat
    BY <1>1, <1>2, <1>4, EntryFacts, UserPlaces
  <2>3. tlb \subseteq Nat \X Pages
    BY <1>3, <1>8 DEF Good, MemStates
  <2>4. r = [bitmap |-> s.bitmap, free_pages |-> s.free_pages, held |-> s.held,
             tables |-> s.tables, tlb |-> b2, ok |-> s.ok]
    OBVIOUS
  <2>9. b2 \in SUBSET (Nat \X Pages)
    BY <2>2, <2>3
  <2>10. tlb' = b2
    BY <1>1
  <2> HIDE DEF b2
  <2>5. r \in MemStates
    BY <2>1, <2>9 DEF MemStates
  <2> HIDE DEF r
  <2>6. Good(r)
    BY <1>8, <2>4, <2>5 DEF Good
  <2>7. VmmBecomes(r)
    BY <1>1, <1>7, <2>1, <2>4, <2>10 DEF VmmBecomes, Becomes, State
  <2> QED BY <2>4, <2>6, <2>7
<1> HIDE DEF r
<1>10. Site(r, Directories, Excepted, lost, KernelDir, pmm_total_pages)
  BY <1>7, <1>9, SiteUpdated
<1>11. ASSUME NEW c \in Directories, NEW w \in UserVirt
       PROVE  /\ vmm_get_page_entry(r.tables, c, w).present = At(c, w).present
              /\ vmm_get_page_entry(r.tables, c, w).frame = At(c, w).frame
  <2>1. w \in AllVirt
    BY UserPlaces
  <2>2. CASE c = d /\ w = v
    BY <1>5, <1>7, <1>9, <2>2 DEF g
  <2>3. CASE ~(c = d /\ w = v)
    BY <1>3, <1>7, <1>9, <2>1, <2>3 DEF AlikeBut, At
  <2> QED BY <2>2, <2>3
<1>12. Cached'
  <2>1. tables' = s.tables /\ Loaded' = d
    BY <1>1 DEF Loaded, d
  <2> DEFINE A(w) == vmm_get_page_entry(tables', d, w)
  <2>2. \A b \in tlb : /\ At(d, b[1]).present /\ At(d, b[1]).accessed
                       /\ At(d, b[1]).frame = b[2] /\ b[1] \in UserVirt
    BY DEF ReadyInv, Cached, TlbCoherent, At, Loaded, d
  <2>3. A(v) = h
    BY <1>7, <2>1
  <2>4. \A w \in UserVirt : w # v => A(w) = At(d, w)
    BY <1>2, <1>3, <1>7, <2>1, UserPlaces DEF AlikeBut, At
  <2> HIDE DEF A
  <2>5. ASSUME NEW b \in tlb' PROVE A(b[1]).present /\ A(b[1]).accessed /\ A(b[1]).frame = b[2] /\ b[1] \in UserVirt
    <3>1. CASE b[1] = v
      <4>1. b = <<v, g.frame>>
        BY <1>1, <3>1 DEF Access
      <4> QED BY <1>1, <1>2, <1>5, <2>3, <4>1
    <3>2. CASE b[1] # v
      <4>1. b \in tlb
        BY <1>1, <3>2
      <4> QED BY <2>2, <2>4, <3>2, <4>1
    <3> QED BY <3>1, <3>2
  <2> QED BY <2>1, <2>5 DEF Cached, TlbCoherent, Loaded, A
<1>13. UNCHANGED <<spaces, pager_frames, slots, active_pages, demo_user_space, ring3_demo_ready, lost>>
  BY DEF callers
<1>14. Settled
  BY <1>1 DEF Settled
<1> QED BY <1>9, <1>10, <1>11, <1>12, <1>13, <1>14, QuietStep

-----------------------------------------------------------------------------
(* What the users know, over tables t, directories P and S.                *)

PagerOver(t, P, F, N) ==
  /\ F \subseteq P \X PAGER_VIRT \X N
  /\ \A d \in P, v \in PAGER_VIRT, f \in N :
       <<d, v, f>> \in F <=> vmm_get_page_entry(t, d, v).present /\ vmm_get_page_entry(t, d, v).frame = f
SlotsOver(t, S, sl) ==
  /\ sl \in [MEMDEMO_VIRT -> Nat \X Nat]
  /\ \A v \in MEMDEMO_VIRT : sl[v] # NoSlot =>
       /\ sl[v][1] \in S
       /\ vmm_get_page_entry(t, sl[v][1], v).present /\ vmm_get_page_entry(t, sl[v][1], v).frame = sl[v][2]
  /\ \A d \in S, v \in UserVirt : vmm_get_page_entry(t, d, v).present =>
       v \in PAGER_VIRT \/ (v \in MEMDEMO_VIRT /\ sl[v][1] = d)
SlotsCounted(n, sl) == n = Cardinality({v \in MEMDEMO_VIRT : sl[v] # NoSlot})

\* The mappings of t2 are those of t without G.
Removal(t2, t, G, D) ==
  \A c \in D, w \in UserVirt : vmm_get_page_entry(t2, c, w) =
    IF <<c, w>> \in G THEN NoEntry ELSE vmm_get_page_entry(t, c, w)

\* The pager forgets the pages of G.
LEMMA PagerRemoved ==
  ASSUME NEW t, NEW t2, NEW G, NEW D, NEW P \in SUBSET D, NEW F, NEW N, PagerOver(t, P, F, N),
         Removal(t2, t, G, D), NEW F2, F2 = {e \in F : <<e[1], e[2]>> \notin G}
  PROVE  PagerOver(t2, P, F2, N)
<1>1. F2 \subseteq P \X PAGER_VIRT \X N
  BY DEF PagerOver
<1>2. ASSUME NEW d \in P, NEW v \in PAGER_VIRT, NEW f \in N
      PROVE  <<d, v, f>> \in F2 <=> vmm_get_page_entry(t2, d, v).present /\ vmm_get_page_entry(t2, d, v).frame = f
  <2> DEFINE g == vmm_get_page_entry(t, d, v)
             h == vmm_get_page_entry(t2, d, v)
  <2>1. h = IF <<d, v>> \in G THEN NoEntry ELSE g
    BY UserPlaces DEF Removal
  <2>2. <<d, v, f>> \in F <=> g.present /\ g.frame = f
    BY DEF PagerOver
  <2>3. <<d, v, f>> \in F2 <=> <<d, v, f>> \in F /\ <<d, v>> \notin G
    OBVIOUS
  <2> HIDE DEF g, h
  <2>4. <<d, v, f>> \in F2 <=> h.present /\ h.frame = f
    BY <2>1, <2>2, <2>3, EmptyRows
  <2> QED BY <2>4 DEF h
<1> QED BY <1>1, <1>2 DEF PagerOver

\* The slots of G are empty.
LEMMA SlotsRemoved ==
  ASSUME NEW t, NEW t2, NEW G, NEW D, NEW S \in SUBSET D, NEW sl, SlotsOver(t, S, sl),
         Removal(t2, t, G, D), NEW sl2,
         sl2 = [v \in MEMDEMO_VIRT |-> IF <<sl[v][1], v>> \in G THEN NoSlot ELSE sl[v]]
  PROVE  /\ SlotsOver(t2, S, sl2)
         /\ {v \in MEMDEMO_VIRT : sl2[v] # NoSlot}
              = {v \in MEMDEMO_VIRT : sl[v] # NoSlot /\ <<sl[v][1], v>> \notin G}
<1>1. NoSlot \in Nat \X Nat
  BY DEF NoSlot
<1>2. sl2 \in [MEMDEMO_VIRT -> Nat \X Nat]
  BY <1>1 DEF SlotsOver
<1>3. ASSUME NEW v \in MEMDEMO_VIRT, sl2[v] # NoSlot
      PROVE  /\ sl2[v][1] \in S
             /\ vmm_get_page_entry(t2, sl2[v][1], v).present /\ vmm_get_page_entry(t2, sl2[v][1], v).frame = sl2[v][2]
  <2>1. sl2[v] = sl[v] /\ sl[v] # NoSlot /\ <<sl[v][1], v>> \notin G
    BY <1>3
  <2>2. /\ sl[v][1] \in S /\ vmm_get_page_entry(t, sl[v][1], v).present
        /\ vmm_get_page_entry(t, sl[v][1], v).frame = sl[v][2]
    BY <2>1 DEF SlotsOver
  <2>3. vmm_get_page_entry(t2, sl[v][1], v) = vmm_get_page_entry(t, sl[v][1], v)
    BY <2>1, <2>2, UserPlaces DEF Removal
  <2> QED BY <2>1, <2>2, <2>3
<1>4. ASSUME NEW d \in S, NEW v \in UserVirt, vmm_get_page_entry(t2, d, v).present
      PROVE  v \in PAGER_VIRT \/ (v \in MEMDEMO_VIRT /\ sl2[v][1] = d)
  <2>1. <<d, v>> \notin G /\ vmm_get_page_entry(t, d, v).present
    BY <1>4, EmptyRows DEF Removal
  <2>2. v \in PAGER_VIRT \/ (v \in MEMDEMO_VIRT /\ sl[v][1] = d)
    BY <2>1 DEF SlotsOver
  <2> QED BY <2>1, <2>2
<1>5. SlotsOver(t2, S, sl2)
  BY <1>2, <1>3, <1>4 DEF SlotsOver
<1> QED BY <1>5

\* The mappings the pager knows stay, and one may be added.
LEMMA PagerAdded ==
  ASSUME NEW t, NEW t2, NEW P, NEW F, NEW N, PagerOver(t, P, F, N),
         NEW d \in P, NEW v \in PAGER_VIRT, NEW f \in N, ~vmm_get_page_entry(t, d, v).present,
         vmm_get_page_entry(t2, d, v).present, vmm_get_page_entry(t2, d, v).frame = f,
         \A c \in P, w \in PAGER_VIRT : ~(c = d /\ w = v) =>
           vmm_get_page_entry(t2, c, w) = vmm_get_page_entry(t, c, w)
  PROVE  PagerOver(t2, P, F \cup {<<d, v, f>>}, N)
BY DEF PagerOver

\* Other mappings are no business of the pager.
LEMMA PagerSame ==
  ASSUME NEW t, NEW t2, NEW P, NEW F, NEW N, PagerOver(t, P, F, N),
         \A c \in P, w \in PAGER_VIRT : vmm_get_page_entry(t2, c, w) = vmm_get_page_entry(t, c, w)
  PROVE  PagerOver(t2, P, F, N)
BY DEF PagerOver

\* A directory comes or goes.
LEMMA PagerGrown ==
  ASSUME NEW t, NEW t2, NEW P, NEW F, NEW N, PagerOver(t, P, F, N), NEW q, q \notin P,
         \A w \in PAGER_VIRT : ~vmm_get_page_entry(t2, q, w).present,
         \A c \in P, w \in PAGER_VIRT : vmm_get_page_entry(t2, c, w) = vmm_get_page_entry(t, c, w)
  PROVE  PagerOver(t2, P \cup {q}, F, N)
BY DEF PagerOver

\* A directory without pages of the pager goes.
LEMMA PagerDropped ==
  ASSUME NEW t, NEW P, NEW F, NEW N, PagerOver(t, P, F, N), NEW d, \A e \in F : e[1] # d
  PROVE  PagerOver(t, P \ {d}, F, N)
BY DEF PagerOver

\* The same for the slots.
LEMMA SlotsSame ==
  ASSUME NEW t, NEW t2, NEW S, NEW sl, SlotsOver(t, S, sl),
         \A c \in S, w \in UserVirt : w \notin PAGER_VIRT =>
           vmm_get_page_entry(t2, c, w) = vmm_get_page_entry(t, c, w)
  PROVE  SlotsOver(t2, S, sl)
<1>1. MEMDEMO_VIRT \subseteq UserVirt /\ PAGER_VIRT \cap MEMDEMO_VIRT = {}
  BY UserPlaces
<1> QED BY <1>1 DEF SlotsOver

\* A new directory maps nothing.
LEMMA SlotsGrown ==
  ASSUME NEW t, NEW S, NEW sl, SlotsOver(t, S, sl), NEW q,
         \A w \in UserVirt : ~vmm_get_page_entry(t, q, w).present
  PROVE  SlotsOver(t, S \cup {q}, sl)
BY DEF SlotsOver

\* A directory without slots goes.
LEMMA SlotsDropped ==
  ASSUME NEW t, NEW S, NEW sl, SlotsOver(t, S, sl), NEW d,
         \A v \in MEMDEMO_VIRT : sl[v] # NoSlot => sl[v][1] # d
  PROVE  SlotsOver(t, S \ {d}, sl)
BY DEF SlotsOver

\* One more slot is mapped.
LEMMA SlotsAdded ==
  ASSUME NEW t, NEW t2, NEW S, NEW sl, SlotsOver(t, S, sl), NEW d \in S, NEW v \in MEMDEMO_VIRT,
         NEW f, d \in Nat, f \in Nat, sl[v] = NoSlot,
         vmm_get_page_entry(t2, d, v).present, vmm_get_page_entry(t2, d, v).frame = f,
         \A c \in S, w \in UserVirt : ~(c = d /\ w = v) =>
           vmm_get_page_entry(t2, c, w) = vmm_get_page_entry(t, c, w),
         0 \notin S
  PROVE  SlotsOver(t2, S, [sl EXCEPT ![v] = <<d, f>>])
<1> DEFINE sl2 == [sl EXCEPT ![v] = <<d, f>>]
<1>1. /\ sl2 \in [MEMDEMO_VIRT -> Nat \X Nat] /\ sl2[v] = <<d, f>> /\ sl2[v][1] = d /\ sl2[v][2] = f
      /\ \A w \in MEMDEMO_VIRT : w # v => sl2[w] = sl[w]
  BY DEF SlotsOver
<1>2. sl[v][1] \notin S
  BY DEF NoSlot
<1> HIDE DEF sl2
<1>3. MEMDEMO_VIRT \subseteq UserVirt
  BY UserPlaces
<1>4. ASSUME NEW w \in MEMDEMO_VIRT, sl2[w] # NoSlot
      PROVE  /\ sl2[w][1] \in S
             /\ vmm_get_page_entry(t2, sl2[w][1], w).present /\ vmm_get_page_entry(t2, sl2[w][1], w).frame = sl2[w][2]
  <2>1. CASE w = v
    BY <1>1, <2>1
  <2>2. CASE w # v
    BY <1>1, <1>3, <1>4, <2>2 DEF SlotsOver
  <2> QED BY <2>1, <2>2
<1>5. ASSUME NEW c \in S, NEW w \in UserVirt, vmm_get_page_entry(t2, c, w).present
      PROVE  w \in PAGER_VIRT \/ (w \in MEMDEMO_VIRT /\ sl2[w][1] = c)
  <2>1. CASE c = d /\ w = v
    BY <1>1, <2>1
  <2>2. CASE ~(c = d /\ w = v)
    BY <1>1, <1>2, <1>5, <2>2 DEF SlotsOver
  <2> QED BY <2>1, <2>2
<1>6. SlotsOver(t2, S, sl2)
  BY <1>1, <1>4, <1>5 DEF SlotsOver
<1> QED BY <1>6 DEF sl2

\* What the users know in a state.
LEMMA UsersKnow ==
  ASSUME ReadyInv
  PROVE  /\ PagerOver(tables, ProcessDirs, pager_frames, Pages) /\ SlotsOver(tables, spaces, slots)
         /\ SlotsCounted(active_pages, slots)
BY DEF ReadyInv, PagerPages, SlotPages, PagerOver, SlotsOver, SlotsCounted, At

\* The translations that are left are the tables' again.
LEMMA KeptCached ==
  ASSUME ReadyInv, NEW r, VmmBecomes(r), Settled, Kept(r, State, Loaded)
  PROVE  Cached'
<1>1. tables' = r.tables /\ tlb' = r.tlb /\ Loaded' = Loaded
  BY DEF VmmBecomes, Settled, Loaded
<1>2. tlb' \subseteq tlb /\ \A b \in tlb' : vmm_get_page_entry(tables', Loaded, b[1]) = At(Loaded, b[1])
  BY <1>1, ReadySite DEF Kept, At
<1> QED BY <1>1, <1>2, CachedNext DEF ReadyInv

\* The parts of the invariant after a step.
LEMMA ReadyNext ==
  ASSUME ReadyInv, NEW r, NEW D, NEW X, NEW L, Site(r, D, X, L, KernelDir, pmm_total_pages),
         VmmBecomes(r), Settled, D = Directories', X = Excepted', L = lost', SpacesApart',
         NEW P, P = ProcessDirs', PagerOver(r.tables, P, pager_frames', Pages),
         SlotsOver(r.tables, spaces', slots'), SlotsCounted(active_pages', slots'),
         ~ring3_demo_ready' => ~vmm_get_page_entry(r.tables, KernelDir, STACK_PAGE).present,
         Kept(r, State, Loaded)
  PROVE  ReadyInv'
<1>1. UNCHANGED <<pmm_total_memory_bytes, regions>> /\ KernelDir' = KernelDir /\ tables' = r.tables
  BY DEF Settled, KernelDir, VmmBecomes
<1>2. MemSite'
  BY <1>1, SiteNext
<1>3. Pages' = Pages
  BY <1>1, Unmoved
<1>4. PagerPages'
  BY <1>1, <1>3 DEF PagerPages, PagerOver, At
<1>5. SlotPages'
  BY <1>1 DEF SlotPages, SlotsOver, SlotsCounted, At
<1>6. StackFree'
  BY <1>1 DEF StackFree, At
<1>7. Cached'
  BY KeptCached
<1> QED BY <1>2, <1>4, <1>5, <1>6, <1>7 DEF ReadyInv

\* A process gets a directory, or there is no page for it.
LEMMA CreateStep ==
  ASSUME Machine, ReadyInv, CreateSpace
  PROVE  ReadyInv'
<1> DEFINE q == First(FreeOf(State))
           s == vmm_create_address_space(State)
<1>1. /\ VmmBecomes(s) /\ Settled /\ spaces' = (IF s.ok THEN spaces \cup {q} ELSE spaces)
      /\ UNCHANGED <<pager_frames, slots, active_pages, demo_user_space, ring3_demo_ready, lost>>
  BY DEF CreateSpace
<1>2. Created(s, State, Directories, Excepted, lost, KernelDir, pmm_total_pages)
  BY ReadySite, SiteCreates
<1>3. /\ State.tables = tables /\ State.tlb = tlb /\ State.ok = TRUE /\ State.held = held
      /\ Site(State, Directories, Excepted, lost, KernelDir, pmm_total_pages)
      /\ Directories \subseteq held /\ ProcessDirs \subseteq Directories /\ spaces \subseteq Directories
      /\ KernelDir \in Directories
  BY ReadySite
<1>4. /\ PagerOver(tables, ProcessDirs, pager_frames, Pages) /\ SlotsOver(tables, spaces, slots)
      /\ SlotsCounted(active_pages, slots)
  BY UsersKnow
<1>5. KernelDir' = KernelDir /\ Loaded' = Loaded /\ Excepted' = Excepted
  BY <1>1 DEF Settled, KernelDir, Loaded, Excepted
<1> HIDE DEF q, s
<1>6. CASE s.ok = FALSE /\ Updated(s, State, State.tables, State.tlb, FALSE)
  <2>1. Site(s, Directories, Excepted, lost, KernelDir, pmm_total_pages) /\ s.tables = tables /\ s.tlb = tlb
    BY <1>3, <1>6, SiteUpdated DEF Updated
  <2>2. UNCHANGED spaces
    BY <1>1, <1>6
  <2>3. Kept(s, State, Loaded)
    BY <1>3, <2>1 DEF Kept
  <2>4. Cached'
    BY <1>1, <2>3, KeptCached
  <2> QED BY <1>1, <2>1, <2>2, <2>4, QuietStep DEF At
<1>7. CASE /\ s.ok = TRUE /\ q \in Pages \ {0} /\ q \notin held
           /\ Site(s, Directories \cup {q}, Excepted, lost, KernelDir, pmm_total_pages)
           /\ \A w \in UserVirt : vmm_get_page_entry(s.tables, q, w) = NoEntry
           /\ Alike(s.tables, tables, Directories) /\ s.tlb = tlb
  <2>1. spaces' = spaces \cup {q} /\ q \notin Directories /\ q # 0
    BY <1>1, <1>3, <1>7
  <2>2. Directories' = Directories \cup {q} /\ ProcessDirs' = ProcessDirs \cup {q}
    BY <1>1, <1>5, <2>1 DEF Directories, ProcessDirs
  <2>3. SpacesApart'
    <3>1. demo_user_space # q /\ KernelDir # q
      BY <1>3, <2>1 DEF Directories
    <3> QED BY <1>1, <1>5, <2>1, <2>2, <3>1 DEF ReadyInv, SpacesApart
  <2>4. \A c \in Directories, w \in UserVirt : vmm_get_page_entry(s.tables, c, w) = At(c, w)
    BY <1>7, UserPlaces DEF Alike, At
  <2>5. \A w \in UserVirt : ~vmm_get_page_entry(s.tables, q, w).present
    BY <1>7, EmptyRows
  <2>6. PagerOver(s.tables, ProcessDirs \cup {q}, pager_frames, Pages)
    <3>1. \A c \in ProcessDirs, w \in PAGER_VIRT :
            vmm_get_page_entry(s.tables, c, w) = vmm_get_page_entry(tables, c, w)
      BY <1>3, <2>4, UserPlaces DEF At
    <3>2. q \notin ProcessDirs /\ \A w \in PAGER_VIRT : ~vmm_get_page_entry(s.tables, q, w).present
      BY <1>3, <2>1, <2>5, UserPlaces
    <3> QED BY <1>4, <3>1, <3>2, PagerGrown
  <2>7. SlotsOver(s.tables, spaces \cup {q}, slots)
    <3>1. SlotsOver(s.tables, spaces, slots)
      BY <1>3, <1>4, <2>4, SlotsSame DEF At
    <3> QED BY <2>5, <3>1, SlotsGrown
  <2>8. ~ring3_demo_ready => ~vmm_get_page_entry(s.tables, KernelDir, STACK_PAGE).present
    BY <1>3, <2>4, UserPlaces DEF ReadyInv, StackFree
  <2>9. Kept(s, State, Loaded)
    <3>1. Loaded \in Directories /\ \A b \in tlb : b[1] \in UserVirt
      BY ReadySite DEF ReadyInv, Cached
    <3> QED BY <1>3, <1>7, <2>4, <3>1 DEF Kept, At
  <2> QED BY <1>1, <1>4, <1>5, <1>7, <2>1, <2>2, <2>3, <2>6, <2>7, <2>8, <2>9, ReadyNext
<1> QED BY <1>2, <1>3, <1>6, <1>7 DEF Created, q

\* A page that was mapped has no old translation.
LEMMA MappedKept ==
  ASSUME ReadyInv, NEW r, NEW d \in Directories, NEW v \in UserVirt, NEW e, NEW X, NEW L,
         Mapped(r, State, d, v, e, Directories, X, L, KernelDir, pmm_total_pages)
  PROVE  /\ Kept(r, State, Loaded) /\ vmm_get_page_entry(r.tables, d, v) = e
         /\ \A c \in Directories, w \in UserVirt : ~(c = d /\ w = v) =>
              vmm_get_page_entry(r.tables, c, w) = At(c, w)
<1>1. /\ vmm_get_page_entry(r.tables, d, v) = e /\ AlikeBut(r.tables, State.tables, Directories, d, v)
      /\ r.tlb = Flushed(State.tlb, d, v)
  BY DEF Mapped
<1>2. State.tables = tables /\ State.tlb = tlb /\ Loaded \in Directories
  BY ReadySite
<1>3. \A b \in tlb : b[1] \in UserVirt
  BY DEF ReadyInv, Cached
<1>4. \A c \in Directories, w \in UserVirt : ~(c = d /\ w = v) =>
        vmm_get_page_entry(r.tables, c, w) = At(c, w)
  BY <1>1, <1>2, UserPlaces DEF AlikeBut, At
<1>5. r.tlb \subseteq tlb /\ \A b \in r.tlb : ~(Loaded = d /\ b[1] = v)
  BY <1>1, <1>2 DEF Flushed, Loaded
<1>6. Kept(r, State, Loaded)
  BY <1>2, <1>3, <1>4, <1>5 DEF Kept, At
<1> QED BY <1>1, <1>4, <1>6

\* A page fault maps a page of the pager.
LEMMA PageInStep ==
  ASSUME Machine, ReadyInv, NEW v \in PAGER_VIRT, page_in(v)
  PROVE  ReadyInv'
<1> DEFINE f == First(FreeOf(State))
           u == Loaded # KernelDir
           s == alloc_and_map_page(State, Loaded, v, u)
           F2 == pager_frames \cup {<<Loaded, v, f>>}
<1>1. /\ s.ok /\ ~At(Loaded, v).present /\ VmmBecomes(s) /\ Settled /\ pager_frames' = F2
      /\ UNCHANGED <<spaces, slots, active_pages, demo_user_space, ring3_demo_ready, lost>>
  BY DEF page_in, At
<1>2. u \in BOOLEAN /\ v \in UserVirt /\ v # VMM_USER_CODE_BASE /\ v # STACK_PAGE /\ v \notin MEMDEMO_VIRT
  BY UserPlaces
<1>3. /\ State.tables = tables /\ Loaded \in Directories /\ KernelDir \in Directories
      /\ Site(State, Directories, Excepted, lost, KernelDir, pmm_total_pages)
      /\ ProcessDirs \subseteq Directories /\ spaces \subseteq Directories
  BY ReadySite
<1> HIDE DEF u, s, f
<1>4. MappedNew(s, State, Loaded, v, u, Directories, Excepted, lost, KernelDir, pmm_total_pages)
  BY <1>1, <1>2, <1>3, SiteMapsNew DEF At, s
<1>5. <<Loaded, v>> \notin Excepted
  BY <1>2, ExceptedFacts
<1>6. f \in Pages /\ Mapped(s, State, Loaded, v, Entry(f, u), Directories, Excepted, lost, KernelDir, pmm_total_pages)
  <2>1. Excepted \ {<<Loaded, v>>} = Excepted
    BY <1>5
  <2> QED BY <1>1, <1>4, <2>1 DEF MappedNew, f
<1>7. Entry(f, u).present = TRUE /\ Entry(f, u).frame = f
  BY DEF Entry
<1>8. /\ Kept(s, State, Loaded) /\ vmm_get_page_entry(s.tables, Loaded, v) = Entry(f, u)
      /\ \A c \in Directories, w \in UserVirt : ~(c = Loaded /\ w = v) =>
           vmm_get_page_entry(s.tables, c, w) = At(c, w)
  BY <1>2, <1>3, <1>6, MappedKept
<1>9. /\ PagerOver(tables, ProcessDirs, pager_frames, Pages) /\ SlotsOver(tables, spaces, slots)
      /\ SlotsCounted(active_pages, slots)
  BY UsersKnow
<1>10. PagerOver(s.tables, ProcessDirs, F2, Pages)
  <2>1. Loaded \in ProcessDirs
    BY DEF ReadyInv, SpacesApart
  <2>2. \A c \in ProcessDirs, w \in PAGER_VIRT : ~(c = Loaded /\ w = v) =>
           vmm_get_page_entry(s.tables, c, w) = vmm_get_page_entry(tables, c, w)
    BY <1>3, <1>8, UserPlaces DEF At
  <2>3. /\ vmm_get_page_entry(s.tables, Loaded, v).present
        /\ vmm_get_page_entry(s.tables, Loaded, v).frame = f
        /\ ~vmm_get_page_entry(tables, Loaded, v).present
    BY <1>1, <1>7, <1>8 DEF At
  <2> QED BY <1>6, <1>9, <2>1, <2>2, <2>3, PagerAdded
<1>11. SlotsOver(s.tables, spaces, slots)
  <2>1. \A c \in spaces, w \in UserVirt : w \notin PAGER_VIRT =>
           vmm_get_page_entry(s.tables, c, w) = vmm_get_page_entry(tables, c, w)
    BY <1>3, <1>8 DEF At
  <2> QED BY <1>9, <2>1, SlotsSame
<1>12. ~ring3_demo_ready => ~vmm_get_page_entry(s.tables, KernelDir, STACK_PAGE).present
  BY <1>2, <1>3, <1>8, UserPlaces DEF ReadyInv, StackFree
<1>13. Directories' = Directories /\ Excepted' = Excepted /\ ProcessDirs' = ProcessDirs /\ SpacesApart'
  <2>1. KernelDir' = KernelDir /\ Loaded' = Loaded
    BY <1>1 DEF Settled, KernelDir, Loaded
  <2> QED BY <1>1, <2>1 DEF Directories, Excepted, ProcessDirs, ReadyInv, SpacesApart
<1>14. Site(s, Directories, Excepted, lost, KernelDir, pmm_total_pages)
  BY <1>6 DEF Mapped
<1> HIDE DEF F2
<1> QED BY <1>1, <1>8, <1>9, <1>10, <1>11, <1>12, <1>13, <1>14, ReadyNext

\* Nothing the users know changes when only the walks stay the same.
LEMMA WalksStep ==
  ASSUME ReadyInv, NEW r, Site(r, Directories, Excepted, lost, KernelDir, pmm_total_pages),
         SameWalks(r.tables, tables, Directories), r.tlb = tlb, VmmBecomes(r), Settled,
         UNCHANGED <<spaces, pager_frames, slots, active_pages, demo_user_space, ring3_demo_ready, lost>>
  PROVE  ReadyInv'
<1>1. \A c \in Directories, w \in UserVirt : vmm_get_page_entry(r.tables, c, w) = At(c, w)
  BY UserPlaces DEF SameWalks, At
<1>2. Kept(r, State, Loaded)
  <2>1. Loaded \in Directories /\ State.tables = tables /\ State.tlb = tlb
    BY ReadySite
  <2>2. \A b \in tlb : b[1] \in UserVirt
    BY DEF ReadyInv, Cached
  <2> QED BY <1>1, <2>1, <2>2 DEF Kept, At
<1>3. Cached'
  BY <1>2, KeptCached
<1> QED BY <1>1, <1>3, QuietStep

\* A process allocates a slot.
LEMMA MemdemoAllocStep ==
  ASSUME Machine, ReadyInv, NEW v \in MEMDEMO_VIRT, memdemo_alloc(v)
  PROVE  ReadyInv'
<1> DEFINE f == First(FreeOf(State))
           s == alloc_and_map_page(State, Loaded, v, TRUE)
           sl2 == [slots EXCEPT ![v] = <<Loaded, f>>]
<1>1. /\ VmmBecomes(s) /\ Settled /\ slots[v] = NoSlot /\ Loaded # KernelDir
      /\ UNCHANGED <<spaces, pager_frames, demo_user_space, ring3_demo_ready, lost>>
      /\ s.ok => slots' = sl2 /\ active_pages' = active_pages + 1
      /\ ~s.ok => UNCHANGED <<slots, active_pages>>
  BY DEF memdemo_alloc, MemdemoCall, MemdemoFrame
<1>2. v \in UserVirt /\ v \notin PAGER_VIRT
  BY UserPlaces
<1>3. /\ State.tables = tables /\ State.tlb = tlb /\ Loaded \in Directories /\ KernelDir \in Directories
      /\ Site(State, Directories, Excepted, lost, KernelDir, pmm_total_pages)
      /\ ProcessDirs \subseteq Directories /\ spaces \subseteq Directories
      /\ Directories \subseteq held /\ held \subseteq Pages
  BY ReadySite
<1>4. Loaded \in spaces /\ 0 \notin spaces
  BY <1>1 DEF ReadyInv, SpacesApart, ProcessDirs
<1>5. /\ PagerOver(tables, ProcessDirs, pager_frames, Pages) /\ SlotsOver(tables, spaces, slots)
      /\ SlotsCounted(active_pages, slots)
  BY UsersKnow
<1>6. ~At(Loaded, v).present
  <2>1. slots[v][1] = 0
    BY <1>1 DEF NoSlot
  <2> QED BY <1>2, <1>4, <1>5, <2>1 DEF SlotsOver, At
<1> HIDE DEF s, f
<1>7. MappedNew(s, State, Loaded, v, TRUE, Directories, Excepted, lost, KernelDir, pmm_total_pages)
  BY <1>2, <1>3, <1>6, SiteMapsNew DEF At, s
<1>8. CASE /\ s.ok = FALSE /\ Site(s, Directories, Excepted, lost, KernelDir, pmm_total_pages)
           /\ SameWalks(s.tables, State.tables, Directories) /\ s.tlb = State.tlb
  BY <1>1, <1>3, <1>8, WalksStep
<1>9. CASE /\ s.ok = TRUE /\ f \in Pages
           /\ Mapped(s, State, Loaded, v, Entry(f, TRUE), Directories, Excepted \ {<<Loaded, v>>}, lost,
                     KernelDir, pmm_total_pages)
  <2>1. Excepted \ {<<Loaded, v>>} = Excepted
    BY <1>1, ExceptedFacts
  <2> DEFINE e == Entry(f, TRUE)
  <2>2. Mapped(s, State, Loaded, v, e, Directories, Excepted, lost, KernelDir, pmm_total_pages)
    BY <1>9, <2>1
  <2>3. e.present = TRUE /\ e.frame = f
    BY DEF Entry
  <2> HIDE DEF e
  <2>4. /\ Kept(s, State, Loaded) /\ vmm_get_page_entry(s.tables, Loaded, v) = e
        /\ \A c \in Directories, w \in UserVirt : ~(c = Loaded /\ w = v) =>
             vmm_get_page_entry(s.tables, c, w) = At(c, w)
    BY <1>2, <1>3, <2>2, MappedKept
  <2>5. PagerOver(s.tables, ProcessDirs, pager_frames, Pages)
    <3>1. \A c \in ProcessDirs, w \in PAGER_VIRT :
            vmm_get_page_entry(s.tables, c, w) = vmm_get_page_entry(tables, c, w)
      BY <1>2, <1>3, <2>4, UserPlaces DEF At
    <3> QED BY <1>5, <3>1, PagerSame
  <2>6. Loaded \in Nat /\ f \in Nat
    BY <1>3, <1>9, PagesInside DEF Machine
  <2>7. SlotsOver(s.tables, spaces, sl2)
    <3>1. \A c \in spaces, w \in UserVirt : ~(c = Loaded /\ w = v) =>
             vmm_get_page_entry(s.tables, c, w) = vmm_get_page_entry(tables, c, w)
      BY <1>3, <2>4 DEF At
    <3>2. /\ vmm_get_page_entry(s.tables, Loaded, v).present
          /\ vmm_get_page_entry(s.tables, Loaded, v).frame = f
      BY <2>3, <2>4
    <3> QED BY <1>1, <1>4, <1>5, <2>6, <3>1, <3>2, SlotsAdded
  <2>8. SlotsCounted(active_pages + 1, sl2)
    <3> DEFINE S == {w \in MEMDEMO_VIRT : slots[w] # NoSlot}
    <3>1. IsFiniteSet(S) /\ v \notin S
      BY <1>1, UserPlaces, FS_Subset
    <3>2. {w \in MEMDEMO_VIRT : sl2[w] # NoSlot} = S \cup {v}
      <4>1. <<Loaded, f>> # NoSlot
        BY <1>4 DEF NoSlot
      <4> QED BY <1>5, <4>1 DEF SlotsOver
    <3>3. Cardinality(S \cup {v}) = Cardinality(S) + 1
      BY <3>1, FS_AddElement
    <3> QED BY <1>5, <3>2, <3>3 DEF SlotsCounted
  <2>9. ~ring3_demo_ready => ~vmm_get_page_entry(s.tables, KernelDir, STACK_PAGE).present
    BY <1>1, <1>3, <2>4, UserPlaces DEF ReadyInv, StackFree
  <2>10. Directories' = Directories /\ Excepted' = Excepted /\ ProcessDirs' = ProcessDirs /\ SpacesApart'
    <3>1. KernelDir' = KernelDir /\ Loaded' = Loaded
      BY <1>1 DEF Settled, KernelDir, Loaded
    <3> QED BY <1>1, <3>1 DEF Directories, Excepted, ProcessDirs, ReadyInv, SpacesApart
  <2>11. Site(s, Directories, Excepted, lost, KernelDir, pmm_total_pages)
    BY <2>2 DEF Mapped
  <2> HIDE DEF sl2
  <2>12. slots' = sl2 /\ active_pages' = active_pages + 1
    BY <1>1, <1>9
  <2> QED BY <1>1, <2>4, <2>5, <2>7, <2>8, <2>9, <2>10, <2>11, <2>12, ReadyNext
<1> QED BY <1>7, <1>8, <1>9 DEF MappedNew, f

PagerWithout(G) == {e \in pager_frames : <<e[1], e[2]>> \notin G}
SlotsWithout(G) == [v \in MEMDEMO_VIRT |-> IF <<slots[v][1], v>> \in G THEN NoSlot ELSE slots[v]]

\* What is known when the mappings in G are gone.
LEMMA RemovedKnown ==
  ASSUME ReadyInv, NEW r, NEW G,
         Removed(r, State, G, Directories, Excepted, lost, KernelDir, pmm_total_pages)
  PROVE  /\ PagerOver(r.tables, ProcessDirs, PagerWithout(G), Pages)
         /\ SlotsOver(r.tables, spaces, SlotsWithout(G))
         /\ {v \in MEMDEMO_VIRT : SlotsWithout(G)[v] # NoSlot}
              = {v \in MEMDEMO_VIRT : slots[v] # NoSlot /\ <<slots[v][1], v>> \notin G}
         /\ Kept(r, State, Loaded)
         /\ (~ring3_demo_ready => ~vmm_get_page_entry(r.tables, KernelDir, STACK_PAGE).present)
<1>1. /\ Removal(r.tables, State.tables, G, Directories)
      /\ r.tlb = {b \in State.tlb : <<Loaded, b[1]>> \notin G}
  BY DEF Removed, Removal, Loaded
<1>2. /\ State.tables = tables /\ State.tlb = tlb /\ Loaded \in Directories /\ KernelDir \in Directories
      /\ ProcessDirs \subseteq Directories /\ spaces \subseteq Directories
  BY ReadySite
<1>3. Removal(r.tables, tables, G, Directories)
  BY <1>1, <1>2
<1>4. PagerOver(tables, ProcessDirs, pager_frames, Pages) /\ SlotsOver(tables, spaces, slots)
  BY UsersKnow
<1>5. PagerOver(r.tables, ProcessDirs, PagerWithout(G), Pages)
  BY <1>2, <1>3, <1>4, PagerRemoved DEF PagerWithout
<1>6. /\ SlotsOver(r.tables, spaces, SlotsWithout(G))
      /\ {v \in MEMDEMO_VIRT : SlotsWithout(G)[v] # NoSlot}
              = {v \in MEMDEMO_VIRT : slots[v] # NoSlot /\ <<slots[v][1], v>> \notin G}
  <2> DEFINE sl2 == SlotsWithout(G)
  <2>1. sl2 = [v \in MEMDEMO_VIRT |-> IF <<slots[v][1], v>> \in G THEN NoSlot ELSE slots[v]]
    BY DEF SlotsWithout
  <2> HIDE DEF sl2
  <2>2. /\ SlotsOver(r.tables, spaces, sl2)
        /\ {v \in MEMDEMO_VIRT : sl2[v] # NoSlot}
              = {v \in MEMDEMO_VIRT : slots[v] # NoSlot /\ <<slots[v][1], v>> \notin G}
    BY <1>2, <1>3, <1>4, <2>1, SlotsRemoved
  <2> QED BY <2>2 DEF sl2
<1>7. Kept(r, State, Loaded)
  <2>1. \A b \in tlb : b[1] \in UserVirt
    BY DEF ReadyInv, Cached
  <2> QED BY <1>1, <1>2, <1>3, <2>1 DEF Kept, Removal
<1>8. ~ring3_demo_ready => ~vmm_get_page_entry(r.tables, KernelDir, STACK_PAGE).present
  BY <1>2, <1>3, UserPlaces, EmptyRows DEF ReadyInv, StackFree, Removal, At
<1> QED BY <1>5, <1>6, <1>7, <1>8

\* A call that unmaps and frees.
LEMMA RemovedStep ==
  ASSUME ReadyInv, NEW r, NEW G,
         Removed(r, State, G, Directories, Excepted, lost, KernelDir, pmm_total_pages),
         VmmBecomes(r), Settled, UNCHANGED <<spaces, demo_user_space, ring3_demo_ready, lost>>,
         pager_frames' = PagerWithout(G), slots' = SlotsWithout(G),
         active_pages' = Cardinality({v \in MEMDEMO_VIRT : slots[v] # NoSlot /\ <<slots[v][1], v>> \notin G})
  PROVE  ReadyInv'
<1>1. /\ PagerOver(r.tables, ProcessDirs, pager_frames', Pages)
      /\ SlotsOver(r.tables, spaces, slots') /\ SlotsCounted(active_pages', slots')
      /\ Kept(r, State, Loaded)
      /\ (~ring3_demo_ready => ~vmm_get_page_entry(r.tables, KernelDir, STACK_PAGE).present)
  BY RemovedKnown DEF SlotsCounted
<1>2. Directories' = Directories /\ Excepted' = Excepted /\ ProcessDirs' = ProcessDirs /\ SpacesApart'
  <2>1. KernelDir' = KernelDir /\ Loaded' = Loaded
    BY DEF Settled, KernelDir, Loaded
  <2> QED BY <2>1 DEF Directories, Excepted, ProcessDirs, ReadyInv, SpacesApart
<1>3. Site(r, Directories, Excepted, lost, KernelDir, pmm_total_pages)
  BY DEF Removed
<1> QED BY <1>1, <1>2, <1>3, ReadyNext

\* One mapping.
LEMMA MapsOne ==
  ASSUME NEW t, NEW d, NEW X, NEW v \in UserVirt, NEW f \in Pages, <<d, v>> \notin X,
         vmm_get_page_entry(t, d, v).present, vmm_get_page_entry(t, d, v).frame = f
  PROVE  MapsAll(t, d, {<<v, f>>}, X)
<1> DEFINE x == <<v, f>>
<1>1. x \in UserVirt \X Pages /\ x[1] = v /\ x[2] = f
  OBVIOUS
<1> HIDE DEF x
<1>2. IsFiniteSet({x})
  BY FS_Singleton
<1>3. MapsAll(t, d, {x}, X)
  BY <1>1, <1>2 DEF MapsAll
<1> QED BY <1>3 DEF x

\* The pager takes a page away.
LEMMA EvictStep ==
  ASSUME Machine, ReadyInv, NEW e \in pager_frames, evict_frame(e)
  PROVE  ReadyInv'
<1> DEFINE d == e[1]
           v == e[2]
           f == e[3]
           pages == {<<v, f>>}
           r == Release(State, d, pages)
           G == {<<d, v>>}
<1>1. /\ VmmBecomes(r) /\ Settled /\ pager_frames' = pager_frames \ {e}
      /\ UNCHANGED <<spaces, slots, active_pages, demo_user_space, ring3_demo_ready, lost>>
  BY DEF evict_frame
<1>2. PagerOver(tables, ProcessDirs, pager_frames, Pages) /\ SlotsOver(tables, spaces, slots)
      /\ SlotsCounted(active_pages, slots)
  BY UsersKnow
<1>3. d \in ProcessDirs /\ v \in PAGER_VIRT /\ f \in Pages /\ e = <<d, v, f>>
  BY <1>2 DEF PagerOver
<1>4. v \in UserVirt /\ v \notin MEMDEMO_VIRT /\ <<d, v>> \notin Excepted
  BY <1>3, UserPlaces, ExceptedFacts
<1>5. vmm_get_page_entry(tables, d, v).present /\ vmm_get_page_entry(tables, d, v).frame = f
  BY <1>2, <1>3 DEF PagerOver
<1>6. /\ State.tables = tables /\ d \in Directories
      /\ Site(State, Directories, Excepted, lost, KernelDir, pmm_total_pages)
  BY <1>3, ReadySite
<1> HIDE DEF d, v, f
<1>7. MapsAll(State.tables, d, pages, Excepted)
  BY <1>3, <1>4, <1>5, <1>6, MapsOne
<1> HIDE DEF pages, r, G
<1>8. Removed(r, State, {<<d, p[1]>> : p \in pages}, Directories, Excepted, lost, KernelDir, pmm_total_pages)
  BY <1>6, <1>7, ReleaseRemoves DEF r
<1>9. Removed(r, State, G, Directories, Excepted, lost, KernelDir, pmm_total_pages)
  <2>1. {<<d, p[1]>> : p \in pages} = G
    BY DEF pages, G
  <2> QED BY <1>8, <2>1
<1>10. pager_frames' = PagerWithout(G)
  <2>1. \A x \in pager_frames : <<x[1], x[2]>> = <<d, v>> => x = e
    <3> SUFFICES ASSUME NEW x \in pager_frames, x[1] = d, x[2] = v PROVE x = e
      OBVIOUS
    <3>1. x = <<d, v, x[3]>> /\ x[3] \in Pages
      BY <1>2 DEF PagerOver
    <3>2. vmm_get_page_entry(tables, d, v).frame = x[3]
      BY <1>2, <1>3, <3>1 DEF PagerOver
    <3> QED BY <1>3, <1>5, <3>1, <3>2
  <2>2. <<e[1], e[2]>> = <<d, v>>
    BY DEF d, v
  <2> QED BY <1>1, <2>1, <2>2 DEF PagerWithout, G
<1>11. \A w \in MEMDEMO_VIRT : <<slots[w][1], w>> \notin G
  BY <1>4 DEF G
<1>12. slots' = SlotsWithout(G)
  BY <1>1, <1>2, <1>11 DEF SlotsWithout, SlotsOver
<1>13. active_pages' = Cardinality({w \in MEMDEMO_VIRT : slots[w] # NoSlot /\ <<slots[w][1], w>> \notin G})
  <2>1. {w \in MEMDEMO_VIRT : slots[w] # NoSlot /\ <<slots[w][1], w>> \notin G}
          = {w \in MEMDEMO_VIRT : slots[w] # NoSlot}
    BY <1>11
  <2> QED BY <1>1, <1>2, <2>1 DEF SlotsCounted
<1> QED BY <1>1, <1>9, <1>10, <1>12, <1>13, RemovedStep

\* The slots that are set, by their mappings.
LEMMA SlotFacts ==
  ASSUME Machine, ReadyInv, NEW v \in MEMDEMO_VIRT, slots[v] # NoSlot
  PROVE  /\ slots[v][1] \in spaces /\ slots[v][1] \in Directories /\ slots[v][1] # KernelDir
         /\ slots[v][2] \in Pages /\ <<slots[v][1], v>> \notin Excepted /\ v \in UserVirt
         /\ At(slots[v][1], v).present /\ At(slots[v][1], v).frame = slots[v][2]
<1>1. slots[v][1] \in spaces /\ At(slots[v][1], v).present /\ At(slots[v][1], v).frame = slots[v][2]
  BY UsersKnow DEF SlotsOver, At
<1>2. slots[v][1] \in Directories /\ slots[v][1] # KernelDir
  BY <1>1, ReadySite DEF ReadyInv, SpacesApart
<1>3. v \in UserVirt
  BY UserPlaces
<1>4. slots[v][2] \in Pages
  BY <1>1, <1>2, <1>3, EntriesTyped
<1>5. <<slots[v][1], v>> \notin Excepted
  BY <1>2, ExceptedFacts
<1> QED BY <1>1, <1>2, <1>3, <1>4, <1>5

\* A slot is no page of the pager.
LEMMA SlotNotPager ==
  ASSUME ReadyInv, NEW G, \A g \in G : g[2] \in MEMDEMO_VIRT
  PROVE  PagerWithout(G) = pager_frames
<1>1. \A e \in pager_frames : e[2] \in PAGER_VIRT
  BY UsersKnow DEF PagerOver
<1>2. \A e \in pager_frames : <<e[1], e[2]>> \notin G
  BY <1>1, UserPlaces
<1> QED BY <1>2 DEF PagerWithout

\* A process frees a slot, its own or another's.
LEMMA MemdemoFreeStep ==
  ASSUME Machine, ReadyInv, NEW v \in MEMDEMO_VIRT, memdemo_free(v)
  PROVE  ReadyInv'
<1> DEFINE d == slots[v][1]
           f == slots[v][2]
           pages == {<<v, f>>}
           r == Release(State, d, pages)
           G == {<<d, v>>}
           S == {w \in MEMDEMO_VIRT : slots[w] # NoSlot}
<1>1. /\ VmmBecomes(r) /\ Settled /\ slots[v] # NoSlot /\ slots' = [slots EXCEPT ![v] = NoSlot]
      /\ active_pages' = Greater(0, active_pages - 1)
      /\ UNCHANGED <<spaces, pager_frames, demo_user_space, ring3_demo_ready, lost>>
  BY DEF memdemo_free, MemdemoFrame
<1>2. SlotsOver(tables, spaces, slots) /\ SlotsCounted(active_pages, slots)
  BY UsersKnow
<1>3. /\ d \in Directories /\ f \in Pages /\ <<d, v>> \notin Excepted /\ v \in UserVirt
      /\ At(d, v).present /\ At(d, v).frame = f
  BY <1>1, SlotFacts
<1>4. State.tables = tables /\ Site(State, Directories, Excepted, lost, KernelDir, pmm_total_pages)
  BY ReadySite
<1> HIDE DEF d, f
<1>5. MapsAll(State.tables, d, pages, Excepted)
  BY <1>3, <1>4, MapsOne DEF At
<1> HIDE DEF pages, r, G
<1>6. Removed(r, State, {<<d, p[1]>> : p \in pages}, Directories, Excepted, lost, KernelDir, pmm_total_pages)
  BY <1>3, <1>4, <1>5, ReleaseRemoves DEF r
<1>7. Removed(r, State, G, Directories, Excepted, lost, KernelDir, pmm_total_pages)
  <2>1. {<<d, p[1]>> : p \in pages} = G
    BY DEF pages, G
  <2> QED BY <1>6, <2>1
<1>8. pager_frames' = PagerWithout(G)
  <2>1. \A g \in G : g[2] \in MEMDEMO_VIRT
    BY DEF G
  <2> QED BY <1>1, <2>1, SlotNotPager
<1>9. \A w \in MEMDEMO_VIRT : <<slots[w][1], w>> \in G <=> w = v
  BY DEF G, d
<1>10. slots' = SlotsWithout(G)
  BY <1>1, <1>2, <1>9 DEF SlotsWithout, SlotsOver
<1>11. active_pages' = Cardinality({w \in MEMDEMO_VIRT : slots[w] # NoSlot /\ <<slots[w][1], w>> \notin G})
  <2>1. {w \in MEMDEMO_VIRT : slots[w] # NoSlot /\ <<slots[w][1], w>> \notin G} = S \ {v}
    BY <1>9
  <2>2. IsFiniteSet(S) /\ v \in S
    BY <1>1, UserPlaces, FS_Subset
  <2>3. Cardinality(S \ {v}) = Cardinality(S) - 1 /\ Cardinality(S) \in Nat /\ Cardinality(S \ {v}) \in Nat
    BY <2>2, FS_RemoveElement, FS_CardinalityType
  <2>4. active_pages = Cardinality(S)
    BY <1>2 DEF SlotsCounted
  <2>5. active_pages \in Nat /\ active_pages - 1 \in Nat
    BY <2>3, <2>4
  <2>6. Greater(0, active_pages - 1) = active_pages - 1
    BY <2>5 DEF Greater
  <2>7. active_pages' = Cardinality(S \ {v})
    BY <1>1, <2>3, <2>4, <2>6
  <2> QED BY <2>1, <2>7
<1> QED BY <1>1, <1>7, <1>8, <1>10, <1>11, RemovedStep

\* Every slot is freed.
LEMMA MemdemoResetStep ==
  ASSUME Machine, ReadyInv, memdemo_reset
  PROVE  ReadyInv'
<1> DEFINE G == SlotPairs(MEMDEMO_VIRT)
<1>1. /\ Settled /\ slots' = [v \in MEMDEMO_VIRT |-> NoSlot] /\ active_pages' = 0
      /\ UNCHANGED <<spaces, pager_frames, demo_user_space, ring3_demo_ready, lost>>
  BY DEF memdemo_reset, MemdemoFrame
<1>2. Site(State, Directories, Excepted, lost, KernelDir, pmm_total_pages)
  BY ReadySite
<1>3. SlotsSet(tables, Directories, Excepted)
  BY SlotFacts DEF SlotsSet, At
<1>4. PICK r : VmmBecomes(r) /\ Removed(r, State, G, Directories, Excepted, lost, KernelDir, pmm_total_pages)
  BY <1>2, <1>3, ResetRemoves
<1>5. \A g \in G : g[2] \in MEMDEMO_VIRT
  BY DEF SlotPairs
<1>6. \A v \in MEMDEMO_VIRT : slots[v] # NoSlot => <<slots[v][1], v>> \in G
  BY DEF SlotPairs
<1> HIDE DEF G
<1>7. pager_frames' = PagerWithout(G)
  BY <1>1, <1>5, SlotNotPager
<1>8. slots' = SlotsWithout(G)
  BY <1>1, <1>6 DEF SlotsWithout
<1>9. {w \in MEMDEMO_VIRT : slots[w] # NoSlot /\ <<slots[w][1], w>> \notin G} = {}
  BY <1>6
<1>10. active_pages' = Cardinality({w \in MEMDEMO_VIRT : slots[w] # NoSlot /\ <<slots[w][1], w>> \notin G})
  BY <1>1, <1>9, FS_EmptySet
<1> QED BY <1>1, <1>4, <1>7, <1>8, <1>10, RemovedStep

\* TOUCH only counts.
LEMMA MemdemoTouchStep ==
  ASSUME ReadyInv, NEW v \in MEMDEMO_VIRT, memdemo_touch(v)
  PROVE  ReadyInv'
<1>1. /\ VmmBecomes(State) /\ Settled
      /\ UNCHANGED <<spaces, pager_frames, slots, active_pages, demo_user_space, ring3_demo_ready, lost>>
  BY DEF memdemo_touch, MemdemoFrame
<1>2. /\ Site(State, Directories, Excepted, lost, KernelDir, pmm_total_pages)
      /\ State.tables = tables /\ State.tlb = tlb
  BY ReadySite
<1>3. SameWalks(State.tables, tables, Directories)
  BY <1>2 DEF SameWalks
<1> QED BY <1>1, <1>2, <1>3, WalksStep

\* The pages release_process unmaps in directory d.
PagesOf(d) ==
  {<<e[2], e[3]>> : e \in {f \in pager_frames : f[1] = d}} \cup {<<v, slots[v][2]>> : v \in SlotsOf(d)}
GoneWith(d) == {<<d, p[1]>> : p \in PagesOf(d)}

\* They are mapped, ...
LEMMA PagesOfMapped ==
  ASSUME Machine, ReadyInv, NEW d \in spaces
  PROVE  /\ MapsAll(tables, d, PagesOf(d), Excepted)
         /\ \A v \in SlotsOf(d) : slots[v] # NoSlot
         /\ d \in Directories /\ d # KernelDir /\ d # 0 /\ d # demo_user_space
<1>1. d # KernelDir /\ d # 0 /\ d # demo_user_space
  BY DEF ReadyInv, SpacesApart
<1>2. d \in Directories /\ d \in ProcessDirs /\ \A v : <<d, v>> \notin Excepted
  BY <1>1, ReadySite, ExceptedFacts DEF ProcessDirs
<1>3. \A v \in SlotsOf(d) : v \in MEMDEMO_VIRT /\ slots[v] # NoSlot /\ slots[v][1] = d
  BY <1>1 DEF SlotsOf, NoSlot
<1>4. ASSUME NEW p \in PagesOf(d)
      PROVE  /\ p \in UserVirt \X Pages
             /\ vmm_get_page_entry(tables, d, p[1]).present
             /\ vmm_get_page_entry(tables, d, p[1]).frame = p[2]
  <2>1. CASE p \in {<<e[2], e[3]>> : e \in {f \in pager_frames : f[1] = d}}
    <3>1. PICK e \in pager_frames : e[1] = d /\ p = <<e[2], e[3]>>
      BY <2>1
    <3>2. e = <<d, e[2], e[3]>> /\ e[2] \in PAGER_VIRT /\ e[3] \in Pages
      BY <3>1, UsersKnow DEF PagerOver
    <3>3. vmm_get_page_entry(tables, d, e[2]).present /\ vmm_get_page_entry(tables, d, e[2]).frame = e[3]
      BY <1>2, <3>1, <3>2, UsersKnow DEF PagerOver
    <3>4. e[2] \in UserVirt
      BY <3>2, UserPlaces
    <3> QED BY <3>1, <3>2, <3>3, <3>4
  <2>2. CASE p \in {<<v, slots[v][2]>> : v \in SlotsOf(d)}
    <3>1. PICK v \in SlotsOf(d) : p = <<v, slots[v][2]>>
      BY <2>2
    <3>2. v \in MEMDEMO_VIRT /\ slots[v] # NoSlot /\ slots[v][1] = d
      BY <1>3
    <3>3. /\ slots[v][2] \in Pages /\ v \in UserVirt
          /\ At(d, v).present /\ At(d, v).frame = slots[v][2]
      BY <3>2, SlotFacts
    <3> QED BY <3>1, <3>3 DEF At
  <2> QED BY <2>1, <2>2 DEF PagesOf
<1>5. IsFiniteSet(PagesOf(d))
  <2>1. IsFiniteSet(UserVirt) /\ IsFiniteSet(Pages)
    BY Places, PagesInside DEF Machine
  <2>2. IsFiniteSet(UserVirt \X Pages)
    BY <2>1, FS_Product
  <2>3. PagesOf(d) \subseteq UserVirt \X Pages
    BY <1>4
  <2> QED BY <2>2, <2>3, FS_Subset
<1>6. MapsAll(tables, d, PagesOf(d), Excepted)
  BY <1>2, <1>4, <1>5 DEF MapsAll
<1> QED BY <1>1, <1>2, <1>3, <1>6

\* ... and nothing else is mapped there.
LEMMA GoneExact ==
  ASSUME Machine, ReadyInv, NEW d \in spaces
  PROVE  /\ PagerWithout(GoneWith(d)) = {e \in pager_frames : e[1] # d}
         /\ \A v \in MEMDEMO_VIRT : <<slots[v][1], v>> \in GoneWith(d) <=> v \in SlotsOf(d)
         /\ \A v \in UserVirt : At(d, v).present => <<d, v>> \in GoneWith(d)
<1> DEFINE G == GoneWith(d)
<1>1. \A p \in PagesOf(d) : <<d, p[1]>> \in G
  BY DEF GoneWith
<1>2. \A c, w : <<c, w>> \in G => c = d /\ \E p \in PagesOf(d) : p[1] = w
  BY DEF GoneWith
<1>3. \A e \in pager_frames : e[1] = d => <<d, e[2]>> \in G
  <2> SUFFICES ASSUME NEW e \in pager_frames, e[1] = d PROVE <<d, e[2]>> \in G
    OBVIOUS
  <2>1. <<e[2], e[3]>> \in PagesOf(d)
    BY DEF PagesOf
  <2> QED BY <1>1, <2>1
<1>4. \A v \in SlotsOf(d) : <<d, v>> \in G
  <2> SUFFICES ASSUME NEW v \in SlotsOf(d) PROVE <<d, v>> \in G
    OBVIOUS
  <2>1. <<v, slots[v][2]>> \in PagesOf(d)
    BY DEF PagesOf
  <2> QED BY <1>1, <2>1
<1> HIDE DEF G
<1>5. PagerWithout(G) = {e \in pager_frames : e[1] # d}
  BY <1>2, <1>3 DEF PagerWithout
<1>6. \A v \in MEMDEMO_VIRT : <<slots[v][1], v>> \in G <=> v \in SlotsOf(d)
  BY <1>2, <1>4 DEF SlotsOf
<1>7. ASSUME NEW v \in UserVirt, At(d, v).present PROVE <<d, v>> \in G
  <2>1. v \in PAGER_VIRT \/ (v \in MEMDEMO_VIRT /\ slots[v][1] = d)
    BY <1>7, UsersKnow DEF SlotsOver, At
  <2>2. CASE v \in PAGER_VIRT
    <3>1. d \in ProcessDirs /\ d \in Directories
      BY ReadySite DEF ProcessDirs
    <3>2. At(d, v).frame \in Pages
      BY <1>7, <3>1, EntriesTyped
    <3>3. <<d, v, At(d, v).frame>> \in pager_frames
      BY <1>7, <2>2, <3>1, <3>2, UsersKnow DEF PagerOver, At
    <3> QED BY <1>3, <3>3
  <2>3. CASE v \in MEMDEMO_VIRT /\ slots[v][1] = d
    BY <1>4, <2>3 DEF SlotsOf
  <2> QED BY <2>1, <2>2, <2>3
<1> QED BY <1>5, <1>6, <1>7 DEF G

\* A process goes, with its slots, its pages and its tables.
LEMMA ReleaseStep ==
  ASSUME Machine, ReadyInv, NEW d \in spaces, release_process(d)
  PROVE  ReadyInv'
<1> DEFINE x == Release(State, d, PagesOf(d))
           s == vmm_destroy_address_space(x, d)
           G == GoneWith(d)
           F2 == {e \in pager_frames : e[1] # d}
           sl2 == [v \in MEMDEMO_VIRT |-> IF v \in SlotsOf(d) THEN NoSlot ELSE slots[v]]
<1>1. /\ VmmBecomes(s) /\ Settled /\ d # Loaded /\ spaces' = spaces \ {d} /\ pager_frames' = F2
      /\ slots' = sl2 /\ active_pages' = Greater(0, active_pages - Cardinality(SlotsOf(d)))
      /\ UNCHANGED <<demo_user_space, ring3_demo_ready, lost>>
  BY DEF release_process, PagesOf
<1>2. /\ MapsAll(tables, d, PagesOf(d), Excepted) /\ (\A v \in SlotsOf(d) : slots[v] # NoSlot)
      /\ d \in Directories /\ d # KernelDir /\ d # 0 /\ d # demo_user_space
  BY PagesOfMapped
<1>3. /\ State.tables = tables /\ State.tlb = tlb /\ Loaded \in Directories /\ KernelDir \in Directories
      /\ ProcessDirs \subseteq Directories /\ spaces \subseteq Directories
      /\ Site(State, Directories, Excepted, lost, KernelDir, pmm_total_pages)
  BY ReadySite
<1> HIDE DEF x, s, G
<1>4. Removed(x, State, G, Directories, Excepted, lost, KernelDir, pmm_total_pages)
  BY <1>2, <1>3, ReleaseRemoves DEF x, G, GoneWith
<1>5. /\ PagerWithout(G) = F2
      /\ \A v \in MEMDEMO_VIRT : <<slots[v][1], v>> \in G <=> v \in SlotsOf(d)
      /\ \A v \in UserVirt : At(d, v).present => <<d, v>> \in G
  BY GoneExact DEF G
<1>6. SlotsWithout(G) = sl2
  BY <1>5 DEF SlotsWithout
<1>7. /\ PagerOver(x.tables, ProcessDirs, F2, Pages) /\ SlotsOver(x.tables, spaces, sl2)
      /\ {v \in MEMDEMO_VIRT : sl2[v] # NoSlot}
              = {v \in MEMDEMO_VIRT : slots[v] # NoSlot /\ <<slots[v][1], v>> \notin G}
      /\ Kept(x, State, Loaded)
      /\ (~ring3_demo_ready => ~vmm_get_page_entry(x.tables, KernelDir, STACK_PAGE).present)
  <2> HIDE DEF F2, sl2
  <2> QED BY <1>4, <1>5, <1>6, RemovedKnown
<1>8. \A v \in UserVirt : ~vmm_get_page_entry(x.tables, d, v).present
  BY <1>2, <1>3, <1>4, <1>5, EmptyRows DEF Removed, At
<1>9. Site(x, Directories, Excepted, lost, KernelDir, pmm_total_pages)
      /\ \A v : <<d, v>> \notin Excepted
  BY <1>2, <1>4, ExceptedFacts DEF Removed
<1>10. Destroyed(s, x, d, Directories, Excepted, lost, KernelDir, pmm_total_pages)
  BY <1>2, <1>8, <1>9, SiteDestroys DEF s
<1>11. /\ Site(s, Directories \ {d}, Excepted, lost, KernelDir, pmm_total_pages) /\ s.tlb = x.tlb
       /\ \A c \in Directories, w \in UserVirt : c # d =>
            vmm_get_page_entry(s.tables, c, w) = vmm_get_page_entry(x.tables, c, w)
  BY <1>10, UserPlaces DEF Destroyed, Alike
<1>12. KernelDir' = KernelDir /\ Loaded' = Loaded
  BY <1>1 DEF Settled, KernelDir, Loaded
<1>13. Directories' = Directories \ {d} /\ ProcessDirs' = ProcessDirs \ {d} /\ Excepted' = Excepted
  BY <1>1, <1>2, <1>12 DEF Directories, ProcessDirs, Excepted
<1>14. SpacesApart'
  BY <1>1, <1>12, <1>13 DEF ReadyInv, SpacesApart
<1>15. PagerOver(s.tables, ProcessDirs \ {d}, F2, Pages)
  <2>1. \A e \in F2 : e[1] # d
    OBVIOUS
  <2>2. PagerOver(x.tables, ProcessDirs \ {d}, F2, Pages)
    BY <1>7, <2>1, PagerDropped
  <2>3. \A c \in ProcessDirs \ {d}, w \in PAGER_VIRT :
          vmm_get_page_entry(s.tables, c, w) = vmm_get_page_entry(x.tables, c, w)
    BY <1>3, <1>11, UserPlaces
  <2> QED BY <2>2, <2>3, PagerSame
<1>16. SlotsOver(s.tables, spaces \ {d}, sl2)
  <2>1. \A v \in MEMDEMO_VIRT : sl2[v] # NoSlot => sl2[v][1] # d
    BY DEF SlotsOf
  <2>2. SlotsOver(x.tables, spaces \ {d}, sl2)
    BY <1>7, <2>1, SlotsDropped
  <2>3. \A c \in spaces \ {d}, w \in UserVirt : w \notin PAGER_VIRT =>
          vmm_get_page_entry(s.tables, c, w) = vmm_get_page_entry(x.tables, c, w)
    BY <1>3, <1>11
  <2> QED BY <2>2, <2>3, SlotsSame
<1>17. SlotsCounted(active_pages', sl2)
  <2> DEFINE S == {v \in MEMDEMO_VIRT : slots[v] # NoSlot}
             T == SlotsOf(d)
  <2>1. {v \in MEMDEMO_VIRT : sl2[v] # NoSlot} = S \ T
    BY <1>5, <1>7
  <2>2. IsFiniteSet(S) /\ T \subseteq S /\ S \cap T = T
    BY <1>2, UserPlaces, FS_Subset DEF SlotsOf
  <2>3. active_pages = Cardinality(S)
    BY UsersKnow DEF SlotsCounted
  <2> HIDE DEF S, T, sl2
  <2>4. /\ IsFiniteSet(S \ T) /\ IsFiniteSet(T)
        /\ Cardinality(S \ T) = Cardinality(S) - Cardinality(T)
    BY <2>2, FS_Difference, FS_Subset
  <2>5. Cardinality(S \ T) \in Nat /\ Cardinality(S) \in Nat /\ Cardinality(T) \in Nat
    BY <2>2, <2>4, FS_CardinalityType
  <2>6. Greater(0, active_pages - Cardinality(T)) = active_pages - Cardinality(T)
    BY <2>3, <2>4, <2>5 DEF Greater
  <2>7. active_pages' = Cardinality(S \ T)
    BY <1>1, <2>3, <2>4, <2>6 DEF T
  <2> QED BY <2>1, <2>7 DEF SlotsCounted
<1>18. Kept(s, State, Loaded)
  <2>1. \A b \in x.tlb : b[1] \in UserVirt
    BY <1>3, <1>7 DEF Kept, ReadyInv, Cached
  <2>2. Kept(s, x, Loaded)
    BY <1>1, <1>3, <1>11, <2>1 DEF Kept
  <2> QED BY <1>7, <2>2, KeptTwice
<1>19. ~ring3_demo_ready => ~vmm_get_page_entry(s.tables, KernelDir, STACK_PAGE).present
  BY <1>2, <1>3, <1>7, <1>11, UserPlaces
<1> HIDE DEF F2, sl2
<1> QED BY <1>1, <1>11, <1>13, <1>14, <1>15, <1>16, <1>17, <1>18, <1>19, ReadyNext

\* uservm builds a directory with two pages, or frees what it allocated.
LEMMA DemoStep ==
  ASSUME Machine, ReadyInv, vmm_create_user_demo_space
  PROVE  ReadyInv'
<1> DEFINE d == First(FreeOf(State))
           created == vmm_create_address_space(State)
           coded == alloc_and_map_page(created, d, VMM_USER_CODE_BASE, TRUE)
           x == alloc_and_map_page(coded, d, STACK_PAGE, TRUE)
           s == IF ~created.ok THEN created
                ELSE IF ~coded.ok THEN pmm_free_page(coded, d)
                ELSE IF ~x.ok THEN pmm_free_page(pmm_free_page(x, First(FreeOf(created))), d)
                ELSE x
           M == IF created.ok /\ coded.ok /\ ~x.ok
                THEN lost \cup PrivateTables(coded.tables, d) ELSE lost
<1>1. /\ VmmBecomes(s) /\ Settled /\ Loaded = KernelDir /\ demo_user_space = 0
      /\ demo_user_space' = (IF s.ok THEN d ELSE 0) /\ lost' = M
      /\ UNCHANGED <<spaces, pager_frames, slots, active_pages, ring3_demo_ready>>
  BY DEF vmm_create_user_demo_space
<1>2. /\ State.tables = tables /\ State.tlb = tlb /\ State.ok = TRUE
      /\ Loaded \in Directories /\ KernelDir \in Directories
      /\ ProcessDirs \subseteq Directories /\ spaces \subseteq Directories
      /\ Site(State, Directories, Excepted, lost, KernelDir, pmm_total_pages)
  BY ReadySite
<1>3. current_page_directory_phys \in Directories /\ \A c, v : <<c, v>> \in Excepted => c = KernelDir
  BY <1>2, ExceptedFacts DEF Loaded
<1>4. DemoMade(s, State, d, Directories, Excepted, M, KernelDir, pmm_total_pages)
  <2>1. s = DemoEnd(created, coded, x, d) /\ M = DemoLost(created, coded, x, lost, d)
    BY DEF DemoEnd, DemoLost
  <2> HIDE DEF s, M
  <2> QED BY <1>2, <1>3, <2>1, DemoSpace
<1> HIDE DEF d, s, M
<1>5. /\ s.tlb = tlb /\ \A c \in Directories, w \in UserVirt :
           vmm_get_page_entry(s.tables, c, w) = vmm_get_page_entry(tables, c, w)
  BY <1>2, <1>4, UserPlaces DEF DemoMade, Alike
<1>6. /\ PagerOver(tables, ProcessDirs, pager_frames, Pages) /\ SlotsOver(tables, spaces, slots)
      /\ SlotsCounted(active_pages, slots)
  BY UsersKnow
<1>7. PagerOver(s.tables, ProcessDirs, pager_frames, Pages)
  <2>1. \A c \in ProcessDirs, w \in PAGER_VIRT :
           vmm_get_page_entry(s.tables, c, w) = vmm_get_page_entry(tables, c, w)
    BY <1>2, <1>5, UserPlaces
  <2> QED BY <1>6, <2>1, PagerSame
<1>8. SlotsOver(s.tables, spaces, slots)
  <2>1. \A c \in spaces, w \in UserVirt : w \notin PAGER_VIRT =>
           vmm_get_page_entry(s.tables, c, w) = vmm_get_page_entry(tables, c, w)
    BY <1>2, <1>5
  <2> QED BY <1>6, <2>1, SlotsSame
<1>9. ~ring3_demo_ready => ~vmm_get_page_entry(s.tables, KernelDir, STACK_PAGE).present
  BY <1>2, <1>5, UserPlaces DEF ReadyInv, StackFree, At
<1>10. Kept(s, State, Loaded)
  <2>1. \A b \in tlb : b[1] \in UserVirt
    BY DEF ReadyInv, Cached
  <2> QED BY <1>2, <1>5, <2>1 DEF Kept
<1>11. KernelDir' = KernelDir /\ Loaded' = Loaded
  BY <1>1 DEF Settled, KernelDir, Loaded
<1>12. ProcessDirs' = ProcessDirs /\ Excepted' = Excepted
  BY <1>1, <1>11 DEF ProcessDirs, Excepted
<1>13. CASE s.ok = FALSE /\ Site(s, Directories, Excepted, M, KernelDir, pmm_total_pages)
  <2>1. demo_user_space' = demo_user_space
    BY <1>1, <1>13
  <2>2. Directories' = Directories /\ SpacesApart'
    BY <1>1, <1>11, <1>12, <2>1 DEF Directories, ReadyInv, SpacesApart
  <2> QED BY <1>1, <1>6, <1>7, <1>8, <1>9, <1>10, <1>12, <1>13, <2>2, ReadyNext
<1>14. CASE /\ s.ok = TRUE /\ d # 0 /\ d \notin Directories
            /\ Site(s, Directories \cup {d}, Excepted, M, KernelDir, pmm_total_pages)
  <2>1. demo_user_space' = d
    BY <1>1, <1>14
  <2>2. Directories' = Directories \cup {d}
    BY <1>1, <1>11, <1>14, <2>1 DEF Directories
  <2>3. SpacesApart'
    BY <1>1, <1>2, <1>11, <1>12, <1>14, <2>1 DEF ReadyInv, SpacesApart
  <2> QED BY <1>1, <1>6, <1>7, <1>8, <1>9, <1>10, <1>12, <1>14, <2>2, <2>3, ReadyNext
<1> QED BY <1>4, <1>13, <1>14 DEF DemoMade

\* ring3 maps two pages in the kernel's directory, or the stack stays free.
LEMMA Ring3Step ==
  ASSUME Machine, ReadyInv, vmm_create_current_user_demo_space
  PROVE  ReadyInv'
<1> DEFINE c1 == VMM_USER_CODE_BASE
           c2 == STACK_PAGE
           coded == alloc_and_map_page(State, Loaded, c1, TRUE)
           x == alloc_and_map_page(coded, Loaded, c2, TRUE)
           s == Ring3End(coded, x, First(FreeOf(State)))
<1>1. /\ VmmBecomes(s) /\ Settled /\ Loaded = KernelDir /\ ~ring3_demo_ready
      /\ ring3_demo_ready' = s.ok
      /\ UNCHANGED <<spaces, pager_frames, slots, active_pages, demo_user_space, lost>>
  BY DEF vmm_create_current_user_demo_space, Ring3End
<1>2. /\ State.tables = tables /\ State.tlb = tlb /\ KernelDir \in Directories
      /\ ProcessDirs \subseteq Directories /\ spaces \subseteq Directories
      /\ Site(State, Directories, Excepted, lost, KernelDir, pmm_total_pages)
  BY ReadySite
<1>3. c1 \in UserVirt /\ c2 \in UserVirt /\ c1 # c2 /\ c1 \notin PAGER_VIRT /\ c2 \notin PAGER_VIRT
  BY UserPlaces
<1>4. Excepted = {<<KernelDir, c1>>}
  BY <1>1 DEF Excepted
<1>5. ~vmm_get_page_entry(State.tables, KernelDir, c2).present
  BY <1>1, <1>2 DEF ReadyInv, StackFree, At
<1>6. \A b \in State.tlb : b[1] \in UserVirt
  BY <1>2 DEF ReadyInv, Cached
<1>7. Site(State, Directories, {<<KernelDir, c1>>}, lost, KernelDir, pmm_total_pages)
  BY <1>2, <1>4
<1> HIDE DEF c1, c2, s
<1>8. Ring3Made(s, State, c1, c2, Directories, lost, KernelDir, pmm_total_pages)
  BY <1>1, <1>3, <1>5, <1>6, <1>7, Ring3 DEF s, Loaded
<1>9. /\ Kept(s, State, Loaded)
      /\ \A c \in Directories, w \in UserVirt : ~(c = KernelDir /\ w \in {c1, c2}) =>
           vmm_get_page_entry(s.tables, c, w) = vmm_get_page_entry(tables, c, w)
  BY <1>1, <1>2, <1>8, UserPlaces DEF Ring3Made
<1>10. /\ PagerOver(tables, ProcessDirs, pager_frames, Pages) /\ SlotsOver(tables, spaces, slots)
       /\ SlotsCounted(active_pages, slots)
  BY UsersKnow
<1>11. PagerOver(s.tables, ProcessDirs, pager_frames, Pages)
  <2>1. \A c \in ProcessDirs, w \in PAGER_VIRT :
           vmm_get_page_entry(s.tables, c, w) = vmm_get_page_entry(tables, c, w)
    BY <1>2, <1>3, <1>9, UserPlaces
  <2> QED BY <1>10, <2>1, PagerSame
<1>12. SlotsOver(s.tables, spaces, slots)
  <2>1. KernelDir \notin spaces
    BY DEF ReadyInv, SpacesApart
  <2>2. \A c \in spaces, w \in UserVirt : w \notin PAGER_VIRT =>
           vmm_get_page_entry(s.tables, c, w) = vmm_get_page_entry(tables, c, w)
    BY <1>2, <1>9, <2>1
  <2> QED BY <1>10, <2>2, SlotsSame
<1>13. KernelDir' = KernelDir /\ Loaded' = Loaded
  BY <1>1 DEF Settled, KernelDir, Loaded
<1>14. ProcessDirs' = ProcessDirs /\ Directories' = Directories /\ SpacesApart'
  BY <1>1, <1>13 DEF ProcessDirs, Directories, ReadyInv, SpacesApart
<1>15. CASE s.ok = TRUE /\ Site(s, Directories, {}, lost, KernelDir, pmm_total_pages)
  <2>1. Excepted' = {} /\ ring3_demo_ready'
    BY <1>1, <1>15 DEF Excepted
  <2>2. Site(s, Directories, Excepted', lost, KernelDir, pmm_total_pages)
    BY <1>15, <2>1
  <2> QED BY <1>1, <1>9, <1>10, <1>11, <1>12, <1>14, <2>1, <2>2, ReadyNext
<1>16. CASE /\ s.ok = FALSE /\ Site(s, Directories, {<<KernelDir, c1>>}, lost, KernelDir, pmm_total_pages)
            /\ vmm_get_page_entry(s.tables, KernelDir, c2) = vmm_get_page_entry(State.tables, KernelDir, c2)
  <2>1. Excepted' = {<<KernelDir, c1>>}
    BY <1>1, <1>13, <1>16 DEF Excepted, c1
  <2>2. Site(s, Directories, Excepted', lost, KernelDir, pmm_total_pages)
    BY <1>16, <2>1
  <2>3. ~vmm_get_page_entry(s.tables, KernelDir, STACK_PAGE).present
    BY <1>5, <1>16 DEF c2
  <2> QED BY <1>1, <1>9, <1>10, <1>11, <1>12, <1>14, <2>2, <2>3, ReadyNext
<1> QED BY <1>8, <1>15, <1>16 DEF Ring3Made

-----------------------------------------------------------------------------
(* The invariant of the specification.                                     *)

\* The users' part of MemInv gives the allocator's.
LEMMA ReadyMem ==
  Machine /\ phase = "ready" /\ vmm_ready = "yes" /\ ReadyInv => MemInv
<1> SUFFICES ASSUME Machine, phase = "ready", vmm_ready = "yes", ReadyInv PROVE MemInv
  OBVIOUS
<1>1. Good(State)
  BY ReadySite
<1>2. PmmInv /\ tables \in Tables
  BY <1>1, GoodExact
<1> QED BY <1>2 DEF MemInv

\* The machine of MemInv.
LEMMA MemMachine ==
  ASSUME MemInv
  PROVE  Machine
BY DEF MemInv, PmmInv, AllocatorExact, PmmTypeOK, Machine

\* Every call of the users keeps the machine.
LEMMA SettledMem ==
  ASSUME MemInv, vmm_ready = "yes", ReadyInv',
         UNCHANGED <<pmm_total_memory_bytes, regions, phase, vmm_ready>>
  PROVE  MemInv'
<1>1. phase = "ready" /\ Machine
  BY MemMachine DEF MemInv
<1>2. Machine'
  BY <1>1, Unmoved
<1>3. (Machine /\ phase = "ready" /\ vmm_ready = "yes" /\ ReadyInv)'
  BY <1>1, <1>2
<1>4. (Machine /\ phase = "ready" /\ vmm_ready = "yes" /\ ReadyInv => MemInv)'
  BY ReadyMem, PTL
<1> QED BY <1>3, <1>4

\* The calls that are made once the manager is ready.
Calls ==
  \/ CreateSpace
  \/ \E d \in spaces : process_run(d) \/ release_process(d)
  \/ RunReturns
  \/ \E v \in PAGER_VIRT : page_in(v)
  \/ \E e \in pager_frames : evict_frame(e) \/ ClearAccessed(e)
  \/ \E v \in PAGER_VIRT \cup MEMDEMO_VIRT : Access(v) /\ UNCHANGED callers
  \/ \E v \in MEMDEMO_VIRT : memdemo_alloc(v) \/ memdemo_touch(v) \/ memdemo_free(v)
  \/ memdemo_reset
  \/ vmm_create_user_demo_space
  \/ vmm_create_current_user_demo_space
MachineKept == UNCHANGED <<pmm_total_memory_bytes, regions, phase, vmm_ready>>

\* They start when it is, and leave the machine as it is.
LEMMA CallsReady ==
  ASSUME Calls
  PROVE  vmm_ready = "yes" /\ MachineKept
<1>1. CASE CreateSpace
  BY <1>1 DEF CreateSpace, Ready, Settled, MachineKept
<1>2. ASSUME NEW d, process_run(d) PROVE vmm_ready = "yes" /\ MachineKept
  BY <1>2 DEF process_run, vmm_switch_page_directory, pmm_vars, MachineKept
<1>3. ASSUME NEW d, release_process(d) PROVE vmm_ready = "yes" /\ MachineKept
  BY <1>3 DEF release_process, Ready, Settled, MachineKept
<1>4. CASE RunReturns
  BY <1>4 DEF RunReturns, vmm_switch_page_directory, pmm_vars, MachineKept
<1>5. ASSUME NEW v, page_in(v) PROVE vmm_ready = "yes" /\ MachineKept
  BY <1>5 DEF page_in, Ready, Settled, MachineKept
<1>6. ASSUME NEW e, evict_frame(e) \/ ClearAccessed(e) PROVE vmm_ready = "yes" /\ MachineKept
  BY <1>6 DEF evict_frame, ClearAccessed, Ready, Settled, MachineKept
<1>7. ASSUME NEW v, Access(v) PROVE vmm_ready = "yes" /\ MachineKept
  BY <1>7 DEF Access, pmm_vars, MachineKept
<1>8. ASSUME NEW v, memdemo_alloc(v) \/ memdemo_touch(v) \/ memdemo_free(v) PROVE vmm_ready = "yes" /\ MachineKept
  BY <1>8 DEF memdemo_alloc, memdemo_touch, memdemo_free, MemdemoCall, MemdemoFrame, Ready, Settled, MachineKept
<1>9. CASE memdemo_reset
  BY <1>9 DEF memdemo_reset, MemdemoFrame, Ready, Settled, MachineKept
<1>10. CASE vmm_create_user_demo_space
  BY <1>10 DEF vmm_create_user_demo_space, Ready, Settled, MachineKept
<1>11. CASE vmm_create_current_user_demo_space
  BY <1>11 DEF vmm_create_current_user_demo_space, Ready, Settled, MachineKept
<1> QED BY <1>1, <1>2, <1>3, <1>4, <1>5, <1>6, <1>7, <1>8, <1>9, <1>10, <1>11 DEF Calls

\* They keep the invariant.
LEMMA CallsStep ==
  ASSUME MemInv, Calls
  PROVE  MemInv'
<1>1. vmm_ready = "yes" /\ MachineKept
  BY CallsReady
<1>2. Machine /\ ReadyInv
  BY <1>1, MemMachine DEF MemInv
<1>3. ReadyInv'
  <2>1. CASE CreateSpace
    BY <1>2, <2>1, CreateStep
  <2>2. ASSUME NEW d \in spaces, process_run(d) PROVE ReadyInv'
    BY <1>2, <2>2, SwitchStep DEF process_run, ProcessDirs
  <2>3. ASSUME NEW d \in spaces, release_process(d) PROVE ReadyInv'
    BY <1>2, <2>3, ReleaseStep
  <2>4. CASE RunReturns
    BY <1>2, <2>4, SwitchStep DEF RunReturns, ProcessDirs
  <2>5. ASSUME NEW v \in PAGER_VIRT, page_in(v) PROVE ReadyInv'
    BY <1>2, <2>5, PageInStep
  <2>6. ASSUME NEW e \in pager_frames, evict_frame(e) PROVE ReadyInv'
    BY <1>2, <2>6, EvictStep
  <2>7. ASSUME NEW e \in pager_frames, ClearAccessed(e) PROVE ReadyInv'
    BY <1>2, <2>7, ClearAccessedStep
  <2>8. ASSUME NEW v \in PAGER_VIRT \cup MEMDEMO_VIRT, Access(v), UNCHANGED callers PROVE ReadyInv'
    BY <1>2, <2>8, AccessStep
  <2>9. ASSUME NEW v \in MEMDEMO_VIRT, memdemo_alloc(v) PROVE ReadyInv'
    BY <1>2, <2>9, MemdemoAllocStep
  <2>10. ASSUME NEW v \in MEMDEMO_VIRT, memdemo_touch(v) PROVE ReadyInv'
    BY <1>2, <2>10, MemdemoTouchStep
  <2>11. ASSUME NEW v \in MEMDEMO_VIRT, memdemo_free(v) PROVE ReadyInv'
    BY <1>2, <2>11, MemdemoFreeStep
  <2>12. CASE memdemo_reset
    BY <1>2, <2>12, MemdemoResetStep
  <2>13. CASE vmm_create_user_demo_space
    BY <1>2, <2>13, DemoStep
  <2>14. CASE vmm_create_current_user_demo_space
    BY <1>2, <2>14, Ring3Step
  <2> QED BY <2>1, <2>2, <2>3, <2>4, <2>5, <2>6, <2>7, <2>8, <2>9, <2>10, <2>11, <2>12, <2>13, <2>14 DEF Calls
<1> QED BY <1>1, <1>3, SettledMem DEF MachineKept

\* The steps of pmm_init.
LEMMA BootStep ==
  ASSUME MemInv, PmmBoot, UNCHANGED <<vmm_vars, callers>>
  PROVE  MemInv'
<1>1. PmmInv' /\ held' = held /\ phase # "ready"
  BY MapEntryStep, NoMapStep, ReserveKernelStep DEF PmmBoot, MemInv
<1>2. vmm_ready = "no" /\ vmm_ready' = "no" /\ tables' = tables /\ tlb' = tlb
  BY <1>1 DEF MemInv, vmm_vars
<1>3. UNCHANGED pmm_total_memory_bytes
  BY DEF PmmBoot, MapEntry, NoMap, ReserveKernel
<1>4. Pages' = Pages /\ Tables' = Tables
  BY <1>3 DEF Pages, Tables, Rows, EntrySet
<1>5. held = {} /\ tables = [p \in Pages |-> Cleared] /\ tables \in Tables /\ Idle
  BY <1>2 DEF MemInv
<1>6. Idle'
  BY <1>2, <1>5 DEF Idle, callers
<1> QED BY <1>1, <1>2, <1>4, <1>5, <1>6 DEF MemInv

\* vmm_init succeeded: the kernel's directory is the only one.
LEMMA InitReady ==
  ASSUME Machine, Idle, UNCHANGED callers, UNCHANGED <<pmm_total_memory_bytes, regions>>,
         NEW s, Booted(s), s.ok = TRUE
  PROVE  ReadyInv'
<1> DEFINE root == KernelDir'
           X == {<<root, VMM_USER_CODE_BASE>>}
<1>1. /\ VmmBecomes(s) /\ s.tlb = {} /\ Loaded' = root
      /\ InitInv(s, root, X, pmm_total_pages)
  BY DEF Booted, Loaded, KernelDir
<1>2. /\ Site(s, {root}, X, {}, root, pmm_total_pages)
      /\ \A w \in UserVirt : vmm_get_page_entry(s.tables, root, w) = NoEntry
  BY <1>1 DEF InitInv
<1>3. /\ spaces' = {} /\ pager_frames' = {} /\ slots' = [v \in MEMDEMO_VIRT |-> NoSlot]
      /\ active_pages' = 0 /\ demo_user_space' = 0 /\ ring3_demo_ready' = FALSE /\ lost' = {}
  BY DEF Idle, callers
<1>4. Directories' = {root} /\ Excepted' = X /\ ProcessDirs' = {root}
  BY <1>3 DEF Directories, Excepted, ProcessDirs
<1>5. tables' = s.tables /\ tlb' = {}
  BY <1>1 DEF VmmBecomes
<1>6. \A w \in UserVirt : ~vmm_get_page_entry(tables', root, w).present
  BY <1>2, <1>5, EmptyRows
<1> HIDE DEF root, X
<1>7. root # 0
  <2>1. root \in s.held /\ Good(s) /\ root \in Pages
    BY <1>2, SiteFacts
  <2>2. Usable(root)
    BY <2>1 DEF Good
  <2> QED BY <2>1, <2>2, ZeroUnusable
<1>8. MemSite'
  <2>1. Site(s, Directories', Excepted', lost', root, pmm_total_pages)
    BY <1>2, <1>3, <1>4
  <2>2. root = KernelDir'
    BY DEF root
  <2> QED BY <1>1, <2>1, <2>2, SiteNext
<1>9. SpacesApart'
  BY <1>1, <1>3, <1>4, <1>7 DEF SpacesApart, root
<1>10. PagerPages'
  <2>1. \A w \in PAGER_VIRT : ~vmm_get_page_entry(tables', root, w).present
    BY <1>6, UserPlaces
  <2>2. \A d \in ProcessDirs', v \in PAGER_VIRT : ~vmm_get_page_entry(tables', d, v).present
    BY <1>4, <2>1
  <2> QED BY <1>3, <2>2 DEF PagerPages, At
<1>11. SlotPages'
  <2>1. slots' \in [MEMDEMO_VIRT -> Nat \X Nat] /\ \A v \in MEMDEMO_VIRT : slots'[v] = NoSlot
    BY <1>3 DEF NoSlot
  <2>2. {v \in MEMDEMO_VIRT : slots'[v] # NoSlot} = {}
    BY <2>1
  <2>3. active_pages' = Cardinality({v \in MEMDEMO_VIRT : slots'[v] # NoSlot})
    BY <1>3, <2>2, FS_EmptySet
  <2> QED BY <1>3, <2>1, <2>3 DEF SlotPages
<1>12. StackFree'
  <2>1. ~vmm_get_page_entry(tables', root, STACK_PAGE).present
    BY <1>6, UserPlaces
  <2> QED BY <2>1 DEF StackFree, At, root
<1>13. Cached'
  BY <1>5 DEF Cached, TlbCoherent
<1> QED BY <1>8, <1>9, <1>10, <1>11, <1>12, <1>13 DEF ReadyInv

\* The step of vmm_init.
LEMMA InitStep ==
  ASSUME MemInv, vmm_init, UNCHANGED callers
  PROVE  MemInv'
<1>1. /\ phase = "ready" /\ vmm_ready = "no" /\ UNCHANGED <<pmm_total_memory_bytes, regions>>
      /\ phase' = "ready"
  BY DEF vmm_init
<1>2. Machine /\ Machine'
  BY <1>1, MemMachine, Unmoved
<1>3. held = {} /\ tables = [p \in Pages |-> Cleared] /\ tables \in Tables /\ Idle /\ PmmInv /\ tlb = {}
  BY <1>1 DEF MemInv, Idle
<1>4. Good(State)
  BY <1>1, <1>2, <1>3, GoodExact
<1>5. PICK s : Booted(s)
  BY <1>2, <1>3, <1>4, InitRuns
<1>6. VmmBecomes(s) /\ vmm_ready' = (IF s.ok THEN "yes" ELSE "failed") /\ Good(s) /\ s.tlb = {}
  BY <1>5 DEF Booted
<1>7. s.ok \in BOOLEAN
  BY <1>6 DEF Good, MemStates
<1>8. CASE s.ok = TRUE
  <2>1. ReadyInv'
    BY <1>1, <1>2, <1>3, <1>5, <1>8, InitReady
  <2>2. (Machine /\ phase = "ready" /\ vmm_ready = "yes" /\ ReadyInv)'
    BY <1>1, <1>2, <1>6, <1>8, <2>1
  <2>3. (Machine /\ phase = "ready" /\ vmm_ready = "yes" /\ ReadyInv => MemInv)'
    BY ReadyMem, PTL
  <2> QED BY <2>2, <2>3
<1>9. CASE s.ok = FALSE
  <2>1. Good(State)'
    BY <1>1, <1>6, GoodNext
  <2>2. (Machine /\ phase = "ready" =>
           /\ Good(State) => PmmInv /\ tables \in Tables
           /\ PmmInv /\ tables \in Tables /\ tlb = {} => Good(State))'
    BY GoodExact, PTL
  <2>3. PmmInv' /\ (tables \in Tables)'
    BY <1>1, <1>2, <2>1, <2>2
  <2>4. tlb' = {}
    BY <1>6 DEF VmmBecomes
  <2>5. Idle'
    BY <1>3, <2>4 DEF Idle, callers
  <2>6. vmm_ready' = "failed"
    BY <1>6, <1>9
  <2> QED BY <1>1, <2>3, <2>5, <2>6 DEF MemInv
<1> QED BY <1>7, <1>8, <1>9

\* The initial states.
LEMMA MemStart ==
  SpacesInit => MemInv
<1> SUFFICES ASSUME SpacesInit PROVE MemInv
  OBVIOUS
<1>1. PmmInit
  BY DEF SpacesInit, VmmInit
<1>2. PmmInv /\ held = {} /\ phase = "map"
  BY <1>1, PmmStart
<1>3. tables = [p \in Pages |-> Cleared] /\ vmm_ready = "no" /\ tlb = {}
  BY DEF SpacesInit, VmmInit, Pages
<1>4. tables \in Tables
  BY <1>3, EmptyRows DEF Tables
<1>5. Idle
  BY <1>3 DEF Idle, SpacesInit
<1> QED BY <1>2, <1>3, <1>4, <1>5 DEF MemInv

\* Nothing happens.
LEMMA MemStutter ==
  ASSUME MemInv, UNCHANGED memory_vars
  PROVE  MemInv'
<1>1. UNCHANGED <<pmm_total_memory_bytes, pmm_bitmap, pmm_free_pages, phase, regions, held>>
  BY DEF memory_vars, pmm_vars
<1>2. UNCHANGED <<tables, tlb, current_page_directory_phys, kernel_page_directory_phys, vmm_ready>>
  BY DEF memory_vars, vmm_vars
<1>3. UNCHANGED callers
  BY DEF memory_vars
<1>4. Pages' = Pages /\ Tables' = Tables
  BY <1>1, Unmoved
<1>5. PmmInv'
  BY <1>1, <1>4, UsableSame DEF MemInv, PmmInv, AllocatorExact, PmmTypeOK, FreeCountExact, ExactlyUsable,
     RegionsTyped, FreedByMap, PagesIn
<1>6. vmm_ready = "yes" => ReadyInv'
  <2> SUFFICES ASSUME vmm_ready = "yes" PROVE ReadyInv'
    OBVIOUS
  <2>1. ReadyInv
    BY DEF MemInv
  <2>2. /\ Site(State, Directories, Excepted, lost, KernelDir, pmm_total_pages)
        /\ State.tables = tables /\ State.tlb = tlb
    BY <2>1, ReadySite
  <2>3. SameWalks(State.tables, tables, Directories)
    BY <2>2 DEF SameWalks
  <2>4. VmmBecomes(State) /\ Settled
    BY <1>1, <1>2 DEF VmmBecomes, Becomes, State, Settled
  <2>5. UNCHANGED <<spaces, pager_frames, slots, active_pages, demo_user_space, ring3_demo_ready, lost>>
    BY <1>3 DEF callers
  <2> QED BY <2>1, <2>2, <2>3, <2>4, <2>5, WalksStep
<1>7. Idle => Idle'
  BY <1>2, <1>3 DEF Idle, callers
<1> QED BY <1>1, <1>2, <1>4, <1>5, <1>6, <1>7 DEF MemInv

(***************************************************************************)
(* The memory keeps its invariant: the roles of all pages, what the pager  *)
(* and memdemo believe of the tables, and what the CPU has cached, through *)
(* every order of boot, faults, evictions, spawns, releases, system calls  *)
(* and demonstrations, and every failure for want of a page.               *)
(***************************************************************************)
THEOREM MemoryInvariant == SpacesSpec => []MemInv
<1>1. MemInv /\ [SpacesNext]_memory_vars => MemInv'
  <2> SUFFICES ASSUME MemInv, [SpacesNext]_memory_vars PROVE MemInv'
    OBVIOUS
  <2>1. CASE PmmBoot /\ UNCHANGED <<vmm_vars, callers>>
    BY <2>1, BootStep
  <2>2. CASE vmm_init /\ UNCHANGED callers
    BY <2>2, InitStep
  <2>3. CASE Calls
    BY <2>3, CallsStep
  <2>4. CASE UNCHANGED memory_vars
    BY <2>4, MemStutter
  <2> QED BY <2>1, <2>2, <2>3, <2>4 DEF SpacesNext, Calls, Halted
<1> QED BY MemStart, <1>1, PTL DEF SpacesSpec

-----------------------------------------------------------------------------
(* The properties of the run.                                              *)

\* A theorem for each: the count and the bitmap, from the memory map on, ...
THEOREM AllocatorIsExact == SpacesSpec => []AllocatorExact
<1>1. MemInv => AllocatorExact
  BY DEF MemInv, PmmInv
<1> QED BY <1>1, MemoryInvariant, PTL

\* ... the types of the tables, with the loaded directory a page in use, ...
THEOREM TablesTyped == SpacesSpec => []VmmTypeOK
<1>1. ASSUME MemInv PROVE VmmTypeOK
  <2>1. tables \in Tables /\ vmm_ready \in {"no", "yes", "failed"}
    BY <1>1 DEF MemInv
  <2>2. DOMAIN tables = Pages
    BY <2>1 DEF Tables
  <2>3. \A p \in Pages, i \in Indexes : tables[p][i] \in EntrySet
    BY <2>1 DEF Tables, Rows
  <2>4. \A p \in Pages, i \in Indexes :
          /\ tables[p][i].present => tables[p][i].frame \in Pages
          /\ ~tables[p][i].present => tables[p][i] = NoEntry
    BY <2>3, EntryFacts
  <2>5. vmm_ready = "yes" => {current_page_directory_phys, kernel_page_directory_phys} \subseteq held
    <3> SUFFICES ASSUME vmm_ready = "yes"
                 PROVE  {current_page_directory_phys, kernel_page_directory_phys} \subseteq held
      OBVIOUS
    <3>1. ReadyInv
      BY <1>1 DEF MemInv
    <3>2. Loaded \in held /\ KernelDir \in held
      BY <3>1, ReadySite
    <3> QED BY <3>2 DEF Loaded, KernelDir
  <2> QED BY <2>1, <2>2, <2>4, <2>5 DEF VmmTypeOK
<1> QED BY <1>1, MemoryInvariant, PTL

\* ... the translations the CPU has cached: none is stale, although vmm.c
\* invalidates single pages of the loaded directory only.
THEOREM TlbIsCoherent == SpacesSpec => []TlbCoherent
<1>1. MemInv => TlbCoherent
  BY DEF MemInv, ReadyInv, Cached, Idle, TlbCoherent
<1> QED BY <1>1, MemoryInvariant, PTL

\* The kernel's part of a directory is the same in all.
LEMMA SharedView ==
  ASSUME ReadyInv, NEW d \in Directories, NEW v \in KernelVirt
  PROVE  At(d, v) = At(KernelDir, v)
<1>1. Laid(tables, held, Directories, Excepted, lost, KernelDir)
  BY ReadySite DEF Site
<1>2. PICK own : Owned(own, tables, held, Directories, Excepted, lost, KernelDir)
  BY <1>1 DEF Laid
<1>3. page_directory_index(v) \in SharedIdx
  BY Places
<1>4. tables[d][page_directory_index(v)] = tables[KernelDir][page_directory_index(v)]
  BY <1>2, <1>3 DEF Owned, Referenced
<1> QED BY <1>4 DEF At, vmm_get_page_entry, HasTable

\* Every address space sees the kernel and all of the memory at its place in
\* the direct map, closed to ring 3, whichever directory is loaded.
THEOREM KernelIsShared == SpacesSpec => []KernelShared
<1>1. ASSUME MemInv PROVE KernelShared
  <2> SUFFICES ASSUME Ready, NEW d \in Directories, NEW v \in KernelVirt
               PROVE  /\ At(d, v).present <=> v - Base \in DOMAIN tables
                      /\ At(d, v).present => At(d, v).frame = v - Base /\ ~UserCan(tables, d, v)
    BY DEF KernelShared, At, KernelVirt, Base
  <2>1. ReadyInv /\ Machine
    BY <1>1, MemMachine DEF MemInv, Ready
  <2>2. At(d, v) = At(KernelDir, v)
    BY <2>1, SharedView
  <2>3. KernelMap(tables, KernelDir, pmm_total_pages) /\ tables \in Tables
    BY <2>1, ReadySite DEF Site
  <2>4. DOMAIN tables = Pages /\ Pages = 0 .. pmm_total_pages - 1 /\ pmm_total_pages \in Nat
    BY <2>1, <2>3, PagesInside DEF Tables, Machine
  <2>5. Base \in Nat /\ v \in Nat /\ v >= Base
    BY Places DEF KernelVirt
  <2>6. v - Base \in DOMAIN tables <=> v < Base + pmm_total_pages
    BY <2>4, <2>5
  <2>7. IF v < Base + pmm_total_pages
        THEN At(d, v).present /\ At(d, v).frame = v - Base /\ ~At(d, v).user
        ELSE ~At(d, v).present
    BY <2>2, <2>3 DEF KernelMap, At
  <2>8. ~At(d, v).user => ~UserCan(tables, d, v)
    BY DEF UserCan, At
  <2> QED BY <2>6, <2>7, <2>8
<1> QED BY <1>1, MemoryInvariant, PTL

\* A user page that counts, in terms of its entry.
LEMMA MappingMember ==
  ASSUME ReadyInv
  PROVE  /\ \A d \in Directories, v \in UserVirt :
              At(d, v).present /\ <<d, v>> \notin Excepted
                => <<d, v, At(d, v).frame>> \in UserMappings(d)
         /\ \A d \in Directories : \A m \in UserMappings(d) :
              /\ m = <<d, m[2], m[3]>> /\ m[2] \in UserVirt /\ m[3] \in Pages
              /\ At(d, m[2]).present /\ At(d, m[2]).frame = m[3] /\ <<d, m[2]>> \notin Excepted
<1>1. \A d, v : At(d, v).present => HasTable(tables, d, v)
  BY EmptyRows DEF At, vmm_get_page_entry
<1>2. \A d, v : <<d, v>> \in Excepted <=> d = KernelDir /\ v = VMM_USER_CODE_BASE /\ ~ring3_demo_ready
  BY DEF Excepted
<1>3. UserVirt = 0 .. phys_to_virt(0) - 1
  BY DEF UserVirt, Base
<1>4. \A d : UserMappings(d) = {<<d, v, At(d, v).frame>> :
          v \in {w \in UserVirt : HasTable(tables, d, w) /\ At(d, w).present /\ <<d, w>> \notin Excepted}}
  BY <1>2, <1>3 DEF UserMappings, At
<1>5. ASSUME NEW d \in Directories, NEW m \in UserMappings(d)
      PROVE  /\ m = <<d, m[2], m[3]>> /\ m[2] \in UserVirt /\ m[3] \in Pages
             /\ At(d, m[2]).present /\ At(d, m[2]).frame = m[3] /\ <<d, m[2]>> \notin Excepted
  <2>1. PICK v \in UserVirt : At(d, v).present /\ <<d, v>> \notin Excepted /\ m = <<d, v, At(d, v).frame>>
    BY <1>4
  <2>2. At(d, v).frame \in Pages
    BY <2>1, EntriesTyped
  <2> QED BY <2>1, <2>2
<1>6. ASSUME NEW d \in Directories, NEW v \in UserVirt, At(d, v).present, <<d, v>> \notin Excepted
      PROVE  <<d, v, At(d, v).frame>> \in UserMappings(d)
  BY <1>1, <1>4, <1>6
<1> QED BY <1>5, <1>6

\* The slot table of memdemo is true: what it will free is mapped where it says.
THEOREM SlotsAreMapped == SpacesSpec => []SlotsMapped
<1>1. ASSUME MemInv PROVE SlotsMapped
  <2>1. CASE vmm_ready = "yes"
    <3>1. ReadyInv /\ Machine
      BY <1>1, <2>1, MemMachine DEF MemInv
    <3>2. ASSUME NEW v \in MEMDEMO_VIRT, slots[v] # NoSlot
          PROVE  /\ slots[v][1] \in spaces
                 /\ <<slots[v][1], v, slots[v][2]>> \in UserMappings(slots[v][1])
      <4>1. /\ slots[v][1] \in spaces /\ slots[v][1] \in Directories
            /\ <<slots[v][1], v>> \notin Excepted /\ v \in UserVirt
            /\ At(slots[v][1], v).present /\ At(slots[v][1], v).frame = slots[v][2]
        BY <3>1, <3>2, SlotFacts
      <4>2. <<slots[v][1], v, At(slots[v][1], v).frame>> \in UserMappings(slots[v][1])
        BY <3>1, <4>1, MappingMember
      <4> QED BY <4>1, <4>2
    <3>3. active_pages = Cardinality({v \in MEMDEMO_VIRT : slots[v] # NoSlot})
      BY <3>1, UsersKnow DEF SlotsCounted
    <3> QED BY <3>2, <3>3 DEF SlotsMapped
  <2>2. CASE vmm_ready # "yes"
    <3>1. slots = [v \in MEMDEMO_VIRT |-> NoSlot] /\ active_pages = 0
      BY <1>1, <2>2 DEF MemInv, Idle
    <3>2. {v \in MEMDEMO_VIRT : slots[v] # NoSlot} = {}
      BY <3>1
    <3>3. active_pages = Cardinality({v \in MEMDEMO_VIRT : slots[v] # NoSlot})
      BY <3>1, <3>2, FS_EmptySet
    <3> QED BY <3>1, <3>3 DEF SlotsMapped
  <2> QED BY <2>1, <2>2
<1> QED BY <1>1, MemoryInvariant, PTL

Frames == {m[3] : m \in AllMappings}

\* The sets the properties speak of, by the roles of their pages.
LEMMA FramesRole ==
  ASSUME ReadyInv, NEW own, Owned(own, tables, held, Directories, Excepted, lost, KernelDir)
  PROVE  /\ \A m \in AllMappings : m[3] \in Pages /\ own[m[3]] = PageRole(m[1], m[2]) /\ m = <<m[1], m[2], m[3]>>
         /\ \A m \in AllMappings : m \in Directories \X UserVirt \X Pages
         /\ \A p \in Pages : \A d, v : own[p] = PageRole(d, v) => p \in Frames
<1>1. ASSUME NEW m \in AllMappings
      PROVE  /\ m[3] \in Pages /\ own[m[3]] = PageRole(m[1], m[2]) /\ m = <<m[1], m[2], m[3]>>
             /\ m \in Directories \X UserVirt \X Pages
  <2>1. PICK d \in Directories : m \in UserMappings(d)
    BY DEF AllMappings
  <2>2. /\ m = <<d, m[2], m[3]>> /\ m[2] \in UserVirt /\ m[3] \in Pages
        /\ At(d, m[2]).present /\ At(d, m[2]).frame = m[3] /\ <<d, m[2]>> \notin Excepted
    BY <2>1, MappingMember
  <2>3. own[m[3]] = PageRole(d, m[2])
    BY <2>2 DEF Owned, Referenced, At
  <2>4. m[1] = d
    BY <2>2
  <2> QED BY <2>2, <2>3, <2>4
<1>2. ASSUME NEW p \in Pages, NEW d, NEW v, own[p] = PageRole(d, v) PROVE p \in Frames
  <2>1. /\ d \in Directories /\ v \in UserVirt /\ <<d, v>> \notin Excepted
        /\ At(d, v).present /\ At(d, v).frame = p
    BY <1>2 DEF Owned, Backed, At
  <2>2. <<d, v, p>> \in UserMappings(d)
    BY <2>1, MappingMember
  <2>3. <<d, v, p>> \in AllMappings
    BY <2>1, <2>2 DEF AllMappings
  <2>4. <<d, v, p>>[3] = p
    OBVIOUS
  <2> QED BY <2>3, <2>4 DEF Frames
<1> QED BY <1>1, <1>2

\* The page tables.
LEMMA TablesRole ==
  ASSUME ReadyInv, NEW own, Owned(own, tables, held, Directories, Excepted, lost, KernelDir)
  PROVE  /\ \A d \in Directories : \A p \in PrivateTables(tables, d) :
              p \in Pages /\ \E i : own[p] = TableRole(d, i)
         /\ \A p \in Pages : \A d, i : own[p] = TableRole(d, i) => p \in AllTables
         /\ \A p \in KernelTables : p \in Pages /\ \E i : own[p] = KernelRole(i)
         /\ \A p \in Pages : \A i : own[p] = KernelRole(i) => p \in KernelTables
<1>1. \A d \in Directories, i \in UserIdx : tables[d][i].present =>
        tables[d][i].frame \in Pages /\ own[tables[d][i].frame] = TableRole(d, i)
  BY DEF Owned, Referenced
<1>2. \A i \in SharedIdx : tables[KernelDir][i].present =>
        tables[KernelDir][i].frame \in Pages /\ own[tables[KernelDir][i].frame] = KernelRole(i)
  BY DEF Owned, Referenced
<1>3. \A d \in Directories : \A p \in PrivateTables(tables, d) :
        \E i \in UserIdx : tables[d][i].present /\ p = tables[d][i].frame
  BY DEF PrivateTables, UserIdx
<1>4. \A p \in KernelTables : \E i \in SharedIdx : tables[KernelDir][i].present /\ p = tables[KernelDir][i].frame
  BY DEF KernelTables, SharedIdx
<1>5. ASSUME NEW p \in Pages, NEW d, NEW i, own[p] = TableRole(d, i) PROVE p \in AllTables
  <2>1. d \in Directories /\ i \in UserIdx /\ tables[d][i].present /\ tables[d][i].frame = p
    BY <1>5 DEF Owned, Backed
  <2>2. p \in PrivateTables(tables, d)
    BY <2>1 DEF PrivateTables, UserIdx
  <2> QED BY <2>1, <2>2 DEF AllTables
<1>6. ASSUME NEW p \in Pages, NEW i, own[p] = KernelRole(i) PROVE p \in KernelTables
  <2>1. i \in SharedIdx /\ tables[KernelDir][i].present /\ tables[KernelDir][i].frame = p
    BY <1>6 DEF Owned, Backed
  <2> QED BY <2>1 DEF KernelTables, SharedIdx
<1>7. \A d \in Directories : \A p \in PrivateTables(tables, d) : p \in Pages /\ \E i : own[p] = TableRole(d, i)
  BY <1>1, <1>3
<1>8. \A p \in KernelTables : p \in Pages /\ \E i : own[p] = KernelRole(i)
  BY <1>2, <1>4
<1> QED BY <1>5, <1>6, <1>7, <1>8

\* As many pages as mappings: no page is mapped twice.
LEMMA FramesCounted ==
  ASSUME Machine, ReadyInv, NEW own, Owned(own, tables, held, Directories, Excepted, lost, KernelDir)
  PROVE  Cardinality(Frames) = Cardinality(AllMappings)
<1> DEFINE S == AllMappings
           T == Frames
           f == [m \in S |-> m[3]]
<1>1. /\ \A m \in S : m[3] \in Pages /\ own[m[3]] = PageRole(m[1], m[2]) /\ m = <<m[1], m[2], m[3]>>
      /\ S \subseteq Directories \X UserVirt \X Pages
  BY FramesRole
<1>2. T = {m[3] : m \in S}
  BY DEF Frames
<1>3. IsFiniteSet(S)
  <2>1. IsFiniteSet(UserVirt) /\ IsFiniteSet(Pages)
    BY Places, PagesInside DEF Machine
  <2>2. Directories \subseteq Pages
    BY ReadySite
  <2>3. IsFiniteSet(Directories)
    BY <2>1, <2>2, FS_Subset
  <2>4. IsFiniteSet(UserVirt \X Pages)
    BY <2>1, FS_Product
  <2>5. IsFiniteSet(Directories \X (UserVirt \X Pages))
    BY <2>3, <2>4, FS_Product
  <2> DEFINE g == [m \in S |-> <<m[1], <<m[2], m[3]>>>>]
  <2>6. g \in Injection(S, Directories \X (UserVirt \X Pages))
    <3>1. g \in [S -> Directories \X (UserVirt \X Pages)]
      BY <1>1
    <3>2. ASSUME NEW a \in S, NEW b \in S, g[a] = g[b] PROVE a = b
      <4>1. <<a[1], <<a[2], a[3]>>>> = <<b[1], <<b[2], b[3]>>>>
        BY <3>2
      <4> QED BY <1>1, <4>1
    <3> QED BY <3>1, <3>2 DEF Injection, IsInjective
  <2> QED BY <2>5, <2>6, FS_Injection
<1> HIDE DEF S, T
<1>4. f \in Surjection(S, T)
  BY <1>2 DEF Surjection
<1>5. f \in Injection(S, T)
  <2>1. f \in [S -> T]
    BY <1>2
  <2>2. ASSUME NEW a \in S, NEW b \in S, f[a] = f[b] PROVE a = b
    <3>1. a[3] = b[3]
      BY <2>2
    <3>2. PageRole(a[1], a[2]) = PageRole(b[1], b[2])
      BY <1>1, <3>1
    <3>3. a[1] = b[1] /\ a[2] = b[2]
      BY <3>2, RolesDiffer
    <3> QED BY <1>1, <3>1, <3>3
  <2> QED BY <2>1, <2>2 DEF Injection, IsInjective
<1> HIDE DEF f
<1>6. Cardinality(T) = Cardinality(S)
  BY <1>3, <1>4, <1>5, FS_Surjection
<1> QED BY <1>6 DEF S, T

\* The roles of the pages, in a state.
LEMMA RolesExist ==
  ASSUME ReadyInv
  PROVE  \E own : Owned(own, tables, held, Directories, Excepted, lost, KernelDir)
BY ReadySite DEF Site, Laid

\* A page of one process is seen by no other, and is neither a table nor a
\* directory nor free, whatever is evicted, freed, reset or released.
THEOREM SpacesAreIsolated == SpacesSpec => []Isolated
<1>1. ASSUME MemInv PROVE Isolated
  <2> SUFFICES ASSUME Ready
               PROVE  /\ Frames \subseteq held \ (Directories \cup AllTables \cup KernelTables)
                      /\ Cardinality(Frames) = Cardinality(AllMappings)
                      /\ \A d, e \in Directories :
                           d # e => PrivateTables(tables, d) \cap PrivateTables(tables, e) = {}
    BY DEF Isolated, Frames
  <2>1. ReadyInv /\ Machine
    BY <1>1, MemMachine DEF MemInv, Ready
  <2>2. PICK own : Owned(own, tables, held, Directories, Excepted, lost, KernelDir)
    BY <2>1, RolesExist
  <2>3. ASSUME NEW p \in Frames
        PROVE  p \in held /\ p \notin Directories /\ p \notin AllTables /\ p \notin KernelTables
    <3>1. PICK m \in AllMappings : p = m[3]
      BY DEF Frames
    <3>2. p \in Pages /\ own[p] = PageRole(m[1], m[2])
      BY <2>1, <2>2, <3>1, FramesRole
    <3>3. p \in held /\ p \notin Directories
      BY <2>2, <3>2, RolesDiffer DEF Owned, RolesExact
    <3>4. p \notin AllTables
      <4> SUFFICES ASSUME NEW d \in Directories, p \in PrivateTables(tables, d) PROVE FALSE
        BY DEF AllTables
      <4>1. PICK i : own[p] = TableRole(d, i)
        BY <2>1, <2>2, TablesRole
      <4>2. TableRole(d, i) # PageRole(m[1], m[2])
        BY RolesDiffer
      <4> QED BY <3>2, <4>1, <4>2
    <3>5. p \notin KernelTables
      <4> SUFFICES ASSUME p \in KernelTables PROVE FALSE
        OBVIOUS
      <4>1. PICK i : own[p] = KernelRole(i)
        BY <2>1, <2>2, TablesRole
      <4>2. KernelRole(i) # PageRole(m[1], m[2])
        BY RolesDiffer
      <4> QED BY <3>2, <4>1, <4>2
    <3> QED BY <3>3, <3>4, <3>5
  <2>4. Cardinality(Frames) = Cardinality(AllMappings)
    BY <2>1, <2>2, FramesCounted
  <2>5. ASSUME NEW d \in Directories, NEW e \in Directories, d # e, NEW p,
               p \in PrivateTables(tables, d), p \in PrivateTables(tables, e)
        PROVE  FALSE
    <3>1. PICK i : own[p] = TableRole(d, i)
      BY <2>1, <2>2, <2>5, TablesRole
    <3>2. PICK j : own[p] = TableRole(e, j)
      BY <2>1, <2>2, <2>5, TablesRole
    <3> QED BY <2>5, <3>1, <3>2, RolesDiffer
  <2> QED BY <2>3, <2>4, <2>5
<1> QED BY <1>1, MemoryInvariant, PTL

\* No page is lost: what is in use is a directory, a table, the kernel's or a
\* mapped page, or was left behind by a uservm that failed.
THEOREM PagesAreAccounted == SpacesSpec => []PagesAccounted
<1>1. ASSUME MemInv PROVE PagesAccounted
  <2> SUFFICES ASSUME Ready
               PROVE  held = Directories \cup AllTables \cup KernelTables \cup lost \cup Frames
    BY DEF PagesAccounted, Frames
  <2>1. ReadyInv /\ Machine
    BY <1>1, MemMachine DEF MemInv, Ready
  <2>2. PICK own : Owned(own, tables, held, Directories, Excepted, lost, KernelDir)
    BY <2>1, RolesExist
  <2>3. /\ held \subseteq Pages /\ Directories \subseteq Pages /\ lost \subseteq Pages
        /\ \A p \in Pages :
             /\ p \in held <=> own[p] # NoRole
             /\ p \in Directories <=> own[p] = DirRole
             /\ p \in lost <=> own[p] = SpareRole
             /\ \/ own[p] \in {NoRole, DirRole, SpareRole}
                \/ \E d, i : own[p] = TableRole(d, i)
                \/ \E i : own[p] = KernelRole(i)
                \/ \E d, v : own[p] = PageRole(d, v)
    BY <2>1, <2>2, ReadySite DEF Owned, RolesExact
  <2>4. ASSUME NEW p \in Directories \cup AllTables \cup KernelTables \cup lost \cup Frames
        PROVE  p \in held
    <3>1. CASE p \in Directories \/ p \in lost
      BY <2>3, <3>1, RolesDiffer
    <3>2. CASE p \in AllTables
      <4>1. PICK d \in Directories : p \in PrivateTables(tables, d)
        BY <3>2 DEF AllTables
      <4>2. p \in Pages /\ \E i : own[p] = TableRole(d, i)
        BY <2>1, <2>2, <4>1, TablesRole
      <4> QED BY <2>3, <4>2, RolesDiffer
    <3>3. CASE p \in KernelTables
      <4>1. p \in Pages /\ \E i : own[p] = KernelRole(i)
        BY <2>1, <2>2, <3>3, TablesRole
      <4> QED BY <2>3, <4>1, RolesDiffer
    <3>4. CASE p \in Frames
      <4>1. PICK m \in AllMappings : p = m[3]
        BY <3>4 DEF Frames
      <4>2. p \in Pages /\ own[p] = PageRole(m[1], m[2])
        BY <2>1, <2>2, <4>1, FramesRole
      <4> QED BY <2>3, <4>2, RolesDiffer
    <3> QED BY <3>1, <3>2, <3>3, <3>4
  <2>5. ASSUME NEW p \in held
        PROVE  p \in Directories \cup AllTables \cup KernelTables \cup lost \cup Frames
    <3>1. p \in Pages /\ own[p] # NoRole
      BY <2>3
    <3>2. CASE own[p] \in {DirRole, SpareRole}
      BY <2>3, <3>1, <3>2
    <3>3. ASSUME NEW d, NEW i, own[p] = TableRole(d, i) PROVE p \in AllTables
      BY <2>1, <2>2, <3>1, <3>3, TablesRole
    <3>4. ASSUME NEW i, own[p] = KernelRole(i) PROVE p \in KernelTables
      BY <2>1, <2>2, <3>1, <3>4, TablesRole
    <3>5. ASSUME NEW d, NEW v, own[p] = PageRole(d, v) PROVE p \in Frames
      BY <2>1, <2>2, <3>1, <3>5, FramesRole
    <3> QED BY <2>3, <3>1, <3>2, <3>3, <3>4, <3>5
  <2> QED BY <2>4, <2>5
<1> QED BY <1>1, MemoryInvariant, PTL
=============================================================================
