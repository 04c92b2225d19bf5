---------------------------- MODULE PagerProofs ----------------------------
(***************************************************************************)
(* Proofs about Pager, for every number of entries and of frames and every *)
(* set of pages, physical pages and contents: the tables stay exact, the   *)
(* victim is a pinned page only when every frame is pinned and a page used *)
(* recently only when all are, and no store is ever lost.                  *)
(***************************************************************************)
EXTENDS Pager, Induction

\* The parameters that count something.
LEMMA Sizes ==
  /\ PAGER_FRAME_LIMIT \in Nat \ {0} /\ 2 * PAGER_FRAME_LIMIT \in Nat
  /\ PAGER_MAX_PAGES \in Nat \ {0} /\ Entries = 0 .. PAGER_MAX_PAGES - 1
  /\ MAX_TICK \in Nat
BY PagerAssumption DEF Entries

Slots == 0 .. PAGER_FRAME_LIMIT - 1

\* All frames are occupied: the state a victim is chosen in.
Full == TablesExact /\ Len(frame_pages) = PAGER_FRAME_LIMIT

\* The frame table, when it is full, holds every present page in one slot.
LEMMA FullTable ==
  ASSUME Full
  PROVE  /\ \A k \in 1 .. PAGER_FRAME_LIMIT : frame_pages[k] \in Entries
         /\ \A j, k \in 1 .. PAGER_FRAME_LIMIT : frame_pages[j] = frame_pages[k] => j = k
         /\ \A h \in Slots : h + 1 \in 1 .. PAGER_FRAME_LIMIT /\ frame_pages[h + 1] \in Entries
         /\ \A g, h \in Slots : frame_pages[g + 1] = frame_pages[h + 1] => g = h
         /\ \A i \in Entries : pager_pages[i].present => \E h \in Slots : frame_pages[h + 1] = i
         /\ \A h \in Slots : pager_pages[frame_pages[h + 1]].present
         /\ clock_hand \in Slots /\ accessed \in SUBSET Entries
<1>1. /\ frame_pages \in Seq(Entries) /\ Len(frame_pages) = PAGER_FRAME_LIMIT
      /\ DOMAIN frame_pages = 1 .. PAGER_FRAME_LIMIT
  BY DEF Full, TablesExact, PagerTypeOK
<1>2. \A k \in 1 .. PAGER_FRAME_LIMIT : frame_pages[k] \in Entries
  BY <1>1
<1>3. \A j, k \in 1 .. PAGER_FRAME_LIMIT : frame_pages[j] = frame_pages[k] => j = k
  BY <1>1 DEF Full, TablesExact, FramesExact
<1>4. \A h \in Slots : h + 1 \in 1 .. PAGER_FRAME_LIMIT
  BY Sizes DEF Slots
<1>5. \A h \in Slots : frame_pages[h + 1] \in Entries
  BY <1>2, <1>4
<1>6. \A g, h \in Slots : frame_pages[g + 1] = frame_pages[h + 1] => g = h
  <2> SUFFICES ASSUME NEW g \in Slots, NEW h \in Slots, frame_pages[g + 1] = frame_pages[h + 1]
               PROVE  g = h
    OBVIOUS
  <2>1. g + 1 = h + 1
    BY <1>3, <1>4
  <2> QED BY <2>1, Sizes DEF Slots
<1>7. \A i \in Entries : pager_pages[i].present => \E h \in Slots : frame_pages[h + 1] = i
  <2> SUFFICES ASSUME NEW i \in Entries, pager_pages[i].present
               PROVE  \E h \in Slots : frame_pages[h + 1] = i
    OBVIOUS
  <2>1. PICK k \in 1 .. PAGER_FRAME_LIMIT : frame_pages[k] = i
    BY <1>1 DEF Full, TablesExact, FramesExact
  <2>2. k - 1 \in Slots /\ (k - 1) + 1 = k
    BY Sizes DEF Slots
  <2> QED BY <2>1, <2>2
<1>8. \A h \in Slots : pager_pages[frame_pages[h + 1]].present
  BY <1>1, <1>4, <1>5 DEF Full, TablesExact, FramesExact
<1>9. clock_hand \in Slots /\ accessed \in SUBSET Entries
  BY DEF Full, TablesExact, PagerTypeOK, Slots
<1> QED BY <1>2, <1>3, <1>4, <1>5, <1>6, <1>7, <1>8, <1>9

-----------------------------------------------------------------------------
(* The clock.                                                              *)

ClockStates == [hand : Slots, accessed : SUBSET Entries]
ClockStart == [hand |-> clock_hand, accessed |-> accessed]

\* One pass of the loop of choose_clock_victim_frame.
ClockPass(s) ==
  LET i == frame_pages[s.hand + 1]
      next == (s.hand + 1) % PAGER_FRAME_LIMIT
  IN IF pager_pages[i].pinned
     THEN [s EXCEPT !.hand = next]
     ELSE IF i \in s.accessed
     THEN [hand |-> next, accessed |-> s.accessed \ {i}]
     ELSE s

NextSlot(h) == IF h + 1 = PAGER_FRAME_LIMIT THEN 0 ELSE h + 1

\* The hand goes to the next slot, and from the last one to slot 0.
LEMMA HandMoves == \A h \in Slots : (h + 1) % PAGER_FRAME_LIMIT = NextSlot(h) /\ NextSlot(h) \in Slots
<1> SUFFICES ASSUME NEW h \in Slots
             PROVE  (h + 1) % PAGER_FRAME_LIMIT = NextSlot(h) /\ NextSlot(h) \in Slots
  OBVIOUS
<1>1. PAGER_FRAME_LIMIT \in Nat \ {0} /\ h \in 0 .. PAGER_FRAME_LIMIT - 1
  BY Sizes DEF Slots
<1>2. (h + 1) % PAGER_FRAME_LIMIT = IF h + 1 = PAGER_FRAME_LIMIT THEN 0 ELSE h + 1
  BY <1>1, RingIndexes
<1>3. NextSlot(h) \in Slots
  BY <1>1 DEF NextSlot, Slots
<1> QED BY <1>2, <1>3 DEF NextSlot

\* A pass skips a pinned page, clears the A bit of an accessed one and stays
\* at any other.
LEMMA ClockPasses ==
  ASSUME Full, NEW s \in ClockStates
  PROVE  LET i == frame_pages[s.hand + 1] IN
         /\ s.hand \in Slots /\ s.accessed \in SUBSET Entries
         /\ ClockPass(s) \in ClockStates
         /\ pager_pages[i].pinned =>
              ClockPass(s) = [hand |-> NextSlot(s.hand), accessed |-> s.accessed]
         /\ ~pager_pages[i].pinned /\ i \in s.accessed =>
              ClockPass(s) = [hand |-> NextSlot(s.hand), accessed |-> s.accessed \ {i}]
         /\ (~pager_pages[i].pinned /\ i \notin s.accessed) => ClockPass(s) = s
<1> DEFINE i == frame_pages[s.hand + 1]
           n == (s.hand + 1) % PAGER_FRAME_LIMIT
<1>1. s.hand \in Slots /\ s.accessed \in SUBSET Entries
  BY DEF ClockStates
<1>2. n = NextSlot(s.hand) /\ NextSlot(s.hand) \in Slots
  BY <1>1, HandMoves
<1>3. ClockPass(s) = IF pager_pages[i].pinned
                     THEN [s EXCEPT !.hand = n]
                     ELSE IF i \in s.accessed
                     THEN [hand |-> n, accessed |-> s.accessed \ {i}] ELSE s
  BY DEF ClockPass
<1> HIDE DEF i, n
<1>4. [s EXCEPT !.hand = n] = [hand |-> n, accessed |-> s.accessed]
  BY DEF ClockStates
<1>5. \A t \in SUBSET Entries : [hand |-> n, accessed |-> t] \in ClockStates
  BY <1>2 DEF ClockStates
<1>6. s.accessed \ {i} \in SUBSET Entries
  BY <1>1
<1>7. ClockPass(s) \in ClockStates
  BY <1>1, <1>3, <1>4, <1>5, <1>6
<1> QED BY <1>1, <1>2, <1>3, <1>4, <1>7 DEF i

\* ClockScan iterates the pass.
LEMMA ClockScans ==
  ASSUME Full
  PROVE  /\ ClockScan[0] = ClockStart
         /\ \A n \in 1 .. 2 * PAGER_FRAME_LIMIT : ClockScan[n] = ClockPass(ClockScan[n - 1])
<1> DEFINE M == 2 * PAGER_FRAME_LIMIT
           D == [p \in (1 .. M) \X ClockStates |-> ClockPass(p[2])]
           Body(g) == [n \in 0 .. M |-> IF n = 0 THEN ClockStart ELSE ClockPass(g[n - 1])]
<1>1. M \in Nat
  BY Sizes
<1>2. ClockStart \in ClockStates
  BY FullTable DEF ClockStates, ClockStart
<1>3. \A s \in ClockStates : ClockPass(s) \in ClockStates
  BY ClockPasses
<1>4. IsLoopBody(D, M, ClockStates) /\ \A n \in 1 .. M, s \in ClockStates : D[<<n, s>>] = ClockPass(s)
  <2> HIDE DEF M
  <2> QED BY <1>3 DEF IsLoopBody
<1>5. ClockScan = CHOOSE g : g = Body(g)
  BY DEF ClockScan, ClockStart, ClockPass
<1> HIDE DEF D, M
<1>6. PICK g : IsLoopRun(g, ClockStart, D, M, ClockStates)
  BY <1>1, <1>2, <1>4, RecursionExists
<1>7. /\ g \in [0 .. M -> ClockStates] /\ g[0] = ClockStart
      /\ \A n \in 1 .. M : g[n] = D[<<n, g[n - 1]>>]
  BY <1>6 DEF IsLoopRun
<1>8. ASSUME NEW n \in 1 .. M PROVE g[n] = ClockPass(g[n - 1])
  <2>1. g[n - 1] \in ClockStates
    BY <1>1, <1>7
  <2> QED BY <1>4, <1>7, <2>1
<1>9. g = Body(g)
  <2>1. ASSUME NEW n \in 0 .. M
        PROVE  g[n] = IF n = 0 THEN ClockStart ELSE ClockPass(g[n - 1])
    <3>1. CASE n = 0
      BY <1>7, <3>1
    <3>2. CASE n # 0
      <4>1. n \in 1 .. M
        BY <1>1, <3>2
      <4> QED BY <1>8, <3>2, <4>1
    <3> QED BY <3>1, <3>2
  <2> QED BY <1>7, <2>1
<1>10. ClockScan = Body(ClockScan)
  <2> HIDE DEF Body
  <2> QED BY <1>5, <1>9
<1> HIDE DEF ClockScan
<1>11. ClockScan[0] = ClockStart
  BY <1>1, <1>10
<1>12. ASSUME NEW n \in 1 .. M PROVE ClockScan[n] = ClockPass(ClockScan[n - 1])
  <2>1. n \in 0 .. M /\ n # 0
    BY <1>1
  <2> QED BY <1>10, <2>1
<1> QED BY <1>11, <1>12 DEF M

\* How far the hand must go from where it stands to reach slot h.
Distance(h) == IF h < clock_hand THEN h + PAGER_FRAME_LIMIT - clock_hand ELSE h - clock_hand

\* Distance is a bijection on the slots, and one step of the hand adds one to it.
LEMMA Distances ==
  ASSUME clock_hand \in Slots
  PROVE  /\ \A h \in Slots : Distance(h) \in Slots
         /\ Distance(clock_hand) = 0
         /\ \A g, h \in Slots : Distance(g) = Distance(h) => g = h
         /\ \A h \in Slots :
              Distance(NextSlot(h)) = IF Distance(h) + 1 = PAGER_FRAME_LIMIT
                                      THEN 0 ELSE Distance(h) + 1
BY Sizes DEF Slots, Distance, NextSlot

Pinned(h) == pager_pages[frame_pages[h + 1]].pinned
Accessed(h) == frame_pages[h + 1] \in accessed

\* No frame holds an unpinned page that was not accessed when the choice began.
AllUsed == \A h \in Slots : Pinned(h) \/ Accessed(h)

\* The hand stopped for good: at an unpinned page that is not accessed any
\* more, and was when the choice began only if all were.
Stopped(s) ==
  /\ ~Pinned(s.hand) /\ frame_pages[s.hand + 1] \notin s.accessed
  /\ Accessed(s.hand) => AllUsed

\* n slots into the first turn: the slots passed are pinned or had their A bit
\* cleared, the others are as they were.
FirstTurn(s, n) ==
  /\ n < PAGER_FRAME_LIMIT /\ Distance(s.hand) = n
  /\ \A h \in Slots :
       /\ Distance(h) < n => \/ Pinned(h)
                             \/ Accessed(h) /\ frame_pages[h + 1] \notin s.accessed
       /\ Distance(h) >= n => (Accessed(h) <=> frame_pages[h + 1] \in s.accessed)

\* n slots into the second turn: no A bit is left that could stop the hand, and
\* the slots passed are pinned.
SecondTurn(s, n) ==
  /\ n < PAGER_FRAME_LIMIT => Distance(s.hand) = n
  /\ AllUsed
  /\ \A h \in Slots :
       /\ Pinned(h) \/ frame_pages[h + 1] \notin s.accessed
       /\ Distance(h) < n => Pinned(h)

\* What is true after n passes.
ClockInv(s, n) ==
  /\ s \in ClockStates /\ s.accessed \subseteq accessed
  /\ \/ Stopped(s)
     \/ FirstTurn(s, n)
     \/ n >= PAGER_FRAME_LIMIT /\ SecondTurn(s, n - PAGER_FRAME_LIMIT)

\* A pass keeps it.
LEMMA ClockInvStep ==
  ASSUME Full, NEW n \in 0 .. 2 * PAGER_FRAME_LIMIT - 1, NEW s, ClockInv(s, n)
  PROVE  ClockInv(ClockPass(s), n + 1)
<1> DEFINE i == frame_pages[s.hand + 1]
           t == ClockPass(s)
<1>1. /\ s \in ClockStates /\ s.accessed \subseteq accessed
      /\ s.hand \in Slots /\ NextSlot(s.hand) \in Slots
      /\ clock_hand \in Slots /\ PAGER_FRAME_LIMIT \in Nat \ {0}
  BY ClockPasses, HandMoves, FullTable, Sizes DEF ClockInv
<1>2. /\ t \in ClockStates
      /\ Pinned(s.hand) => t.hand = NextSlot(s.hand) /\ t.accessed = s.accessed
      /\ ~Pinned(s.hand) /\ i \in s.accessed =>
              t.hand = NextSlot(s.hand) /\ t.accessed = s.accessed \ {i}
      /\ (~Pinned(s.hand) /\ i \notin s.accessed) => t = s
  BY <1>1, ClockPasses DEF Pinned
<1> HIDE DEF t
<1>3. t.accessed \subseteq accessed
  BY <1>1, <1>2
<1>4. \A h \in Slots : frame_pages[h + 1] = i => h = s.hand
  BY <1>1, FullTable
<1>5. /\ \A h \in Slots : Distance(h) \in Slots
      /\ \A h \in Slots : Distance(h) = Distance(s.hand) => h = s.hand
      /\ Distance(NextSlot(s.hand)) = IF Distance(s.hand) + 1 = PAGER_FRAME_LIMIT
                                      THEN 0 ELSE Distance(s.hand) + 1
  BY <1>1, Distances
<1>6. CASE Stopped(s)
  <2>1. t = s
    BY <1>2, <1>6 DEF Stopped
  <2> QED BY <1>1, <1>3, <1>6, <2>1 DEF ClockInv, t
<1>7. CASE FirstTurn(s, n) /\ ~Pinned(s.hand) /\ i \notin s.accessed
  <2>1. ~Accessed(s.hand)
    BY <1>1, <1>7 DEF FirstTurn
  <2>2. Stopped(s) /\ t = s
    BY <1>2, <1>7, <2>1 DEF Stopped
  <2> QED BY <1>1, <1>3, <2>2 DEF ClockInv, t
<1>8. CASE FirstTurn(s, n) /\ (Pinned(s.hand) \/ i \in s.accessed)
  <2>1. t.hand = NextSlot(s.hand) /\ (\A h \in Slots \ {s.hand} :
             frame_pages[h + 1] \in t.accessed <=> frame_pages[h + 1] \in s.accessed)
    BY <1>2, <1>4, <1>8
  <2>2. Pinned(s.hand) \/ (Accessed(s.hand) /\ frame_pages[s.hand + 1] \notin t.accessed)
    BY <1>1, <1>2, <1>8 DEF Accessed
  <2>3. \A h \in Slots : Distance(h) < n + 1 =>
             Pinned(h) \/ (Accessed(h) /\ frame_pages[h + 1] \notin t.accessed)
    <3> SUFFICES ASSUME NEW h \in Slots, Distance(h) < n + 1
                 PROVE  Pinned(h) \/ (Accessed(h) /\ frame_pages[h + 1] \notin t.accessed)
      OBVIOUS
    <3>1. CASE h = s.hand
      BY <2>2, <3>1
    <3>2. CASE h # s.hand
      <4>1. Distance(h) < n
        BY <1>1, <1>5, <1>8, <3>2 DEF FirstTurn, Slots
      <4> QED BY <1>8, <2>1, <3>2, <4>1 DEF FirstTurn
    <3> QED BY <3>1, <3>2
  <2>4. CASE n + 1 < PAGER_FRAME_LIMIT
    <3>1. Distance(t.hand) = n + 1
      BY <1>1, <1>5, <1>8, <2>1, <2>4 DEF FirstTurn
    <3>2. ASSUME NEW h \in Slots, Distance(h) >= n + 1
          PROVE  Accessed(h) <=> frame_pages[h + 1] \in t.accessed
      <4>1. h # s.hand /\ Distance(h) >= n
        BY <1>1, <1>5, <1>8, <3>2 DEF FirstTurn, Slots
      <4> QED BY <1>8, <2>1, <4>1 DEF FirstTurn
    <3>3. FirstTurn(t, n + 1)
      BY <2>3, <2>4, <3>1, <3>2 DEF FirstTurn
    <3> QED BY <1>2, <1>3, <3>3 DEF ClockInv, t
  <2>5. CASE n + 1 = PAGER_FRAME_LIMIT
    <3>1. Distance(t.hand) = 0 /\ (n + 1) - PAGER_FRAME_LIMIT = 0
      BY <1>1, <1>5, <1>8, <2>1, <2>5 DEF FirstTurn
    <3>2. \A h \in Slots : Distance(h) < n + 1 /\ ~(Distance(h) < 0)
      BY <1>1, <1>5, <2>5 DEF Slots
    <3>3. AllUsed /\ \A h \in Slots : Pinned(h) \/ frame_pages[h + 1] \notin t.accessed
      BY <2>3, <3>2 DEF AllUsed
    <3>4. SecondTurn(t, 0)
      BY <3>1, <3>2, <3>3 DEF SecondTurn
    <3>5. n + 1 >= PAGER_FRAME_LIMIT /\ SecondTurn(t, (n + 1) - PAGER_FRAME_LIMIT)
      BY <1>1, <2>5, <3>1, <3>4
    <3>6. ClockInv(t, n + 1)
      BY <1>2, <1>3, <3>5, Zenon DEF ClockInv
    <3> QED BY <3>6 DEF t
  <2>6. n + 1 < PAGER_FRAME_LIMIT \/ n + 1 = PAGER_FRAME_LIMIT
    BY <1>1, <1>8 DEF FirstTurn
  <2> QED BY <2>4, <2>5, <2>6
<1>9. CASE n >= PAGER_FRAME_LIMIT /\ SecondTurn(s, n - PAGER_FRAME_LIMIT)
  <2>1. CASE ~Pinned(s.hand)
    <3>1. Stopped(s) /\ t = s
      BY <1>1, <1>2, <1>9, <2>1 DEF SecondTurn, Stopped
    <3> QED BY <1>1, <1>3, <3>1 DEF ClockInv, t
  <2>2. CASE Pinned(s.hand)
    <3> DEFINE m == n - PAGER_FRAME_LIMIT
    <3>1. /\ m \in Slots /\ (n + 1) - PAGER_FRAME_LIMIT = m + 1
          /\ m < PAGER_FRAME_LIMIT /\ m \in Nat /\ n + 1 >= PAGER_FRAME_LIMIT
      BY <1>1, <1>9 DEF Slots
    <3>2. SecondTurn(s, m)
      BY <1>9
    <3> HIDE DEF m
    <3>3. t.hand = NextSlot(s.hand) /\ t.accessed = s.accessed /\ Distance(s.hand) = m
      BY <1>2, <2>2, <3>1, <3>2 DEF SecondTurn
    <3>4. m + 1 < PAGER_FRAME_LIMIT => Distance(t.hand) = m + 1
      BY <1>1, <1>5, <3>1, <3>3
    <3>5. ASSUME NEW h \in Slots, Distance(h) < m + 1 PROVE Pinned(h)
      <4>1. h = s.hand \/ Distance(h) < m
        BY <1>1, <1>5, <3>1, <3>3, <3>5 DEF Slots
      <4> QED BY <2>2, <3>2, <4>1 DEF SecondTurn
    <3>6. SecondTurn(t, m + 1)
      BY <3>2, <3>3, <3>4, <3>5 DEF SecondTurn
    <3>7. n + 1 >= PAGER_FRAME_LIMIT /\ SecondTurn(t, (n + 1) - PAGER_FRAME_LIMIT)
      BY <3>1, <3>6
    <3>8. ClockInv(t, n + 1)
      BY <1>2, <1>3, <3>7, Zenon DEF ClockInv
    <3> QED BY <3>8 DEF t
  <2> QED BY <2>1, <2>2
<1> QED BY <1>6, <1>7, <1>8, <1>9 DEF ClockInv

\* After two turns the clock has a slot, whose page is pinned only if all are,
\* and was accessed only if all unpinned ones were.
LEMMA ClockChoice ==
  ASSUME Full
  PROVE  LET s == ClockScan[2 * PAGER_FRAME_LIMIT] IN
         /\ s.hand \in Slots /\ s.accessed \subseteq accessed
         /\ Pinned(s.hand) => \A h \in Slots : Pinned(h)
         /\ ~Pinned(s.hand) /\ Accessed(s.hand) => AllUsed
<1> DEFINE M == 2 * PAGER_FRAME_LIMIT
           T == {n \in 0 .. M : ClockInv(ClockScan[n], n)}
           s == ClockScan[M]
<1>1. M \in Nat /\ PAGER_FRAME_LIMIT \in Nat \ {0} /\ clock_hand \in Slots
  BY Sizes, FullTable
<1>2. /\ ClockScan[0] = ClockStart
      /\ \A n \in 1 .. M : ClockScan[n] = ClockPass(ClockScan[n - 1])
  BY ClockScans
<1> HIDE DEF ClockScan
<1>3. \A u : \A n \in 0 .. M - 1 : ClockInv(u, n) => ClockInv(ClockPass(u), n + 1)
  BY ClockInvStep
<1>4. 0 \in T
  <2>1. ClockStart \in ClockStates /\ ClockStart.hand = clock_hand /\ ClockStart.accessed = accessed
    BY FullTable DEF ClockStates, ClockStart
  <2>2. \A h \in Slots : ~(Distance(h) < 0)
    BY <1>1, Distances DEF Slots
  <2>3. FirstTurn(ClockStart, 0)
    BY <1>1, <2>1, <2>2, Distances DEF FirstTurn, Accessed
  <2>4. ClockInv(ClockScan[0], 0)
    BY <1>2, <2>1, <2>3 DEF ClockInv
  <2> QED BY <1>1, <2>4
<1> HIDE DEF M
<1>5. ASSUME NEW n \in 0 .. M - 1, n \in T PROVE n + 1 \in T
  <2>1. n + 1 \in 1 .. M /\ (n + 1) - 1 = n /\ n + 1 \in 0 .. M
    BY <1>1
  <2>2. ClockScan[n + 1] = ClockPass(ClockScan[n])
    BY <1>2, <2>1
  <2> QED BY <1>3, <1>5, <2>1, <2>2
<1>6. M \in T
  <2>1. 0 .. M \subseteq T
    <3> HIDE DEF T
    <3> QED BY <1>1, <1>4, <1>5, IntervalInduction
  <2> QED BY <1>1, <2>1
<1>7. ClockInv(s, M)
  BY <1>6
<1> HIDE DEF s
<1>8. s.hand \in Slots /\ s.accessed \subseteq accessed
  BY <1>7 DEF ClockInv, ClockStates
<1>9. CASE Stopped(s)
  BY <1>8, <1>9 DEF Stopped, s, M
<1>10. CASE SecondTurn(s, M - PAGER_FRAME_LIMIT)
  <2>1. \A h \in Slots : Distance(h) < M - PAGER_FRAME_LIMIT
    BY <1>1, Distances DEF M, Slots
  <2>2. \A h \in Slots : Pinned(h)
    BY <1>10, <2>1 DEF SecondTurn
  <2> QED BY <1>8, <2>2 DEF s, M
<1>11. ~FirstTurn(s, M)
  BY <1>1 DEF FirstTurn, M
<1> QED BY <1>7, <1>9, <1>10, <1>11 DEF ClockInv

-----------------------------------------------------------------------------
(* Sampling and LRU.                                                       *)

\* No page has been used after the last use.
Ticked == \A i \in Entries : pager_pages[i].last_used_tick <= usage_tick

UsageStates == [slot : Slots, accessed : SUBSET Entries, usage_tick : Nat,
                last_used : [Entries -> Nat]]

Sampled(u, i) == [slot |-> u.slot, accessed |-> u.accessed \ {i},
                  usage_tick |-> u.usage_tick + 1,
                  last_used |-> [u.last_used EXCEPT ![i] = u.usage_tick + 1]]

\* What sample_page_usage computes.
LEMMA Samples ==
  ASSUME NEW u \in UsageStates, NEW i \in Entries
  PROVE  /\ sample_page_usage(u, i) = IF i \in u.accessed THEN Sampled(u, i) ELSE u
         /\ Sampled(u, i) \in UsageStates
<1>1. /\ u.slot \in Slots /\ u.accessed \in SUBSET Entries /\ u.usage_tick \in Nat
      /\ u.last_used \in [Entries -> Nat]
  BY DEF UsageStates
<1> DEFINE a == u.accessed \ {i}
           t == u.usage_tick + 1
           l == [u.last_used EXCEPT ![i] = t]
<1>2. a \in SUBSET Entries /\ t \in Nat /\ l \in [Entries -> Nat]
  BY <1>1
<1>3. [u EXCEPT !.accessed = a, !.usage_tick = t, !.last_used = l]
        = [slot |-> u.slot, accessed |-> a, usage_tick |-> t, last_used |-> l]
  <2> HIDE DEF a, t, l
  <2> DEFINE v == [u EXCEPT !.accessed = a, !.usage_tick = t, !.last_used = l]
  <2>1. v \in UsageStates
    BY <1>2 DEF UsageStates
  <2>2. v.slot = u.slot /\ v.accessed = a /\ v.usage_tick = t /\ v.last_used = l
    BY DEF UsageStates
  <2> HIDE DEF v
  <2>3. v = [slot |-> v.slot, accessed |-> v.accessed, usage_tick |-> v.usage_tick,
             last_used |-> v.last_used]
    BY <2>1 DEF UsageStates
  <2>4. v = [slot |-> u.slot, accessed |-> a, usage_tick |-> t, last_used |-> l]
    BY <2>2, <2>3
  <2> QED BY <2>4 DEF v
<1>4. [u EXCEPT !.accessed = @ \ {i}, !.usage_tick = @ + 1, !.last_used[i] = u.usage_tick + 1]
        = [u EXCEPT !.accessed = a, !.usage_tick = t, !.last_used = l]
  BY <1>1 DEF UsageStates
<1>5. [slot |-> u.slot, accessed |-> a, usage_tick |-> t, last_used |-> l] \in UsageStates
  <2> HIDE DEF a, t, l
  <2> QED BY <1>1, <1>2 DEF UsageStates
<1>6. Sampled(u, i) = [slot |-> u.slot, accessed |-> a, usage_tick |-> t, last_used |-> l]
  BY DEF Sampled
<1>7. sample_page_usage(u, i) = IF i \in u.accessed THEN Sampled(u, i) ELSE u
  <2> HIDE DEF a, t, l
  <2> QED BY <1>3, <1>4, <1>6 DEF sample_page_usage
<1> QED BY <1>5, <1>6, <1>7

\* What sampling any frames keeps: a page that was not accessed keeps its
\* tick, one that was has its A bit still, or a tick later than all old ones.
UsageInv(u) ==
  /\ u \in UsageStates /\ u.accessed \subseteq accessed /\ usage_tick <= u.usage_tick
  /\ \A i \in Entries :
       /\ u.last_used[i] <= u.usage_tick
       /\ i \notin accessed => u.last_used[i] = pager_pages[i].last_used_tick
       /\ i \in accessed => i \in u.accessed \/ usage_tick < u.last_used[i]

\* A scan starts in a state that satisfies the loop invariant of the A bits.
LEMMA UsageStart == ASSUME TablesExact, Ticked PROVE UsageInv(Usage)
<1> DEFINE l == [i \in Entries |-> pager_pages[i].last_used_tick]
<1>1. pager_pages \in [Entries -> PagerPage] /\ usage_tick \in Nat /\ accessed \in SUBSET Entries
  BY DEF TablesExact, PagerTypeOK
<1>2. l \in [Entries -> Nat] /\ \A i \in Entries : l[i] = pager_pages[i].last_used_tick
  BY <1>1 DEF PagerPage
<1>3. 0 \in Slots
  BY Sizes DEF Slots
<1>4. Usage = [slot |-> 0, accessed |-> accessed, usage_tick |-> usage_tick, last_used |-> l]
  BY DEF Usage
<1> HIDE DEF l
<1>5. /\ Usage \in UsageStates /\ Usage.accessed = accessed /\ Usage.usage_tick = usage_tick
      /\ Usage.last_used = l
  BY <1>1, <1>2, <1>3, <1>4 DEF UsageStates
<1> QED BY <1>1, <1>2, <1>5 DEF UsageInv, Ticked

\* Sampling page i keeps it, takes i's A bit and changes no other tick.
LEMMA UsageStep ==
  ASSUME TablesExact, NEW u, UsageInv(u), NEW i \in Entries
  PROVE  LET w == sample_page_usage(u, i) IN
         /\ UsageInv(w) /\ w.slot = u.slot
         /\ w.accessed = u.accessed \ {i}
         /\ \A j \in Entries \ {i} : w.last_used[j] = u.last_used[j]
<1> DEFINE w == sample_page_usage(u, i)
<1>1. /\ u \in UsageStates /\ u.accessed \in SUBSET Entries /\ u.usage_tick \in Nat
      /\ u.last_used \in [Entries -> Nat] /\ u.slot \in Slots
      /\ usage_tick \in Nat
  BY DEF UsageInv, UsageStates, TablesExact, PagerTypeOK
<1>2. w = (IF i \in u.accessed THEN Sampled(u, i) ELSE u) /\ Sampled(u, i) \in UsageStates
  BY <1>1, Samples
<1> HIDE DEF w
<1>3. CASE i \in u.accessed
  <2>1. /\ w \in UsageStates /\ w.slot = u.slot /\ w.accessed = u.accessed \ {i}
        /\ w.usage_tick = u.usage_tick + 1
        /\ w.last_used = [u.last_used EXCEPT ![i] = u.usage_tick + 1]
    BY <1>2, <1>3 DEF Sampled
  <2>2. /\ w.last_used[i] = u.usage_tick + 1
        /\ \A j \in Entries \ {i} : w.last_used[j] = u.last_used[j]
    BY <1>1, <2>1
  <2>3. ASSUME NEW j \in Entries
        PROVE  /\ w.last_used[j] <= w.usage_tick
               /\ j \notin accessed => w.last_used[j] = pager_pages[j].last_used_tick
               /\ j \in accessed => j \in w.accessed \/ usage_tick < w.last_used[j]
    <3>1. CASE j = i
      BY <1>1, <1>3, <2>1, <2>2, <3>1 DEF UsageInv
    <3>2. CASE j # i
      <4>1. w.last_used[j] = u.last_used[j] /\ u.last_used[j] \in Nat
        BY <1>1, <2>2, <3>2
      <4>2. /\ u.last_used[j] <= u.usage_tick
            /\ j \notin accessed => u.last_used[j] = pager_pages[j].last_used_tick
            /\ j \in accessed => j \in u.accessed \/ usage_tick < u.last_used[j]
        BY DEF UsageInv
      <4>3. w.last_used[j] <= w.usage_tick
        BY <1>1, <2>1, <4>1, <4>2
      <4> QED BY <2>1, <3>2, <4>1, <4>2, <4>3
    <3> QED BY <3>1, <3>2
  <2>4. w.accessed \subseteq accessed /\ usage_tick <= w.usage_tick
    BY <1>1, <2>1 DEF UsageInv
  <2>5. UsageInv(w)
    BY <2>1, <2>3, <2>4 DEF UsageInv
  <2> QED BY <2>1, <2>2, <2>5 DEF w
<1>4. CASE i \notin u.accessed
  <2>1. w = u /\ u.accessed = u.accessed \ {i}
    BY <1>2, <1>4
  <2> QED BY <2>1 DEF w
<1> QED BY <1>3, <1>4

\* One pass of pager_sample_usage, and the whole loop: it keeps UsageInv.
SamplePass(u, k) == IF k > Len(frame_pages) THEN u ELSE sample_page_usage(u, frame_pages[k])

\* The whole loop of pager_sample_usage keeps UsageInv.
LEMMA SampleScans ==
  ASSUME TablesExact, Ticked
  PROVE  UsageInv(SampleScan[PAGER_FRAME_LIMIT])
<1> DEFINE M == PAGER_FRAME_LIMIT
           S == {u \in UsageStates : UsageInv(u)}
           D == [p \in (1 .. M) \X S |-> SamplePass(p[2], p[1])]
           Body(g) == [k \in 0 .. M |->
              IF k = 0 THEN Usage
              ELSE IF k > Len(frame_pages) THEN g[k - 1]
              ELSE sample_page_usage(g[k - 1], frame_pages[k])]
<1>1. M \in Nat
  BY Sizes
<1>2. Usage \in S
  BY UsageStart DEF UsageInv
<1>3. \A k \in 1 .. M, u \in S : SamplePass(u, k) \in S
  <2> SUFFICES ASSUME NEW k \in 1 .. M, NEW u \in S PROVE SamplePass(u, k) \in S
    OBVIOUS
  <2>1. CASE k > Len(frame_pages)
    BY <2>1 DEF SamplePass
  <2>2. CASE ~(k > Len(frame_pages))
    <3>1. frame_pages[k] \in Entries
      BY <2>2, Sizes DEF TablesExact, PagerTypeOK
    <3>2. UsageInv(sample_page_usage(u, frame_pages[k]))
      BY <3>1, UsageStep
    <3> QED BY <2>2, <3>2 DEF SamplePass, UsageInv
  <2> QED BY <2>1, <2>2
<1>4. IsLoopBody(D, M, S) /\ \A k \in 1 .. M, u \in S : D[<<k, u>>] = SamplePass(u, k)
  <2> HIDE DEF M, S
  <2> QED BY <1>3 DEF IsLoopBody
<1>5. SampleScan = CHOOSE g : g = Body(g)
  BY DEF SampleScan
<1> HIDE DEF D, M, S
<1>6. PICK g : IsLoopRun(g, Usage, D, M, S)
  BY <1>1, <1>2, <1>4, RecursionExists
<1>7. /\ g \in [0 .. M -> S] /\ g[0] = Usage
      /\ \A k \in 1 .. M : g[k] = D[<<k, g[k - 1]>>]
  BY <1>6 DEF IsLoopRun
<1>8. ASSUME NEW k \in 1 .. M PROVE g[k] = SamplePass(g[k - 1], k)
  <2>1. g[k - 1] \in S
    BY <1>1, <1>7
  <2> QED BY <1>4, <1>7, <2>1
<1>9. g = Body(g)
  <2>1. ASSUME NEW k \in 0 .. M
        PROVE  g[k] = IF k = 0 THEN Usage
                      ELSE IF k > Len(frame_pages) THEN g[k - 1]
                      ELSE sample_page_usage(g[k - 1], frame_pages[k])
    <3>1. CASE k = 0
      BY <1>7, <3>1
    <3>2. CASE k # 0
      <4>1. k \in 1 .. M
        BY <1>1, <3>2
      <4> QED BY <1>8, <3>2, <4>1 DEF SamplePass
    <3> QED BY <3>1, <3>2
  <2> QED BY <1>7, <2>1
<1>10. SampleScan = Body(SampleScan)
  <2> HIDE DEF Body
  <2> QED BY <1>5, <1>9
<1> HIDE DEF SampleScan
<1>11. SampleScan[0] = Usage
  BY <1>1, <1>10
<1>12. ASSUME NEW k \in 1 .. M PROVE SampleScan[k] = SamplePass(SampleScan[k - 1], k)
  <2>1. k \in 0 .. M /\ k # 0
    BY <1>1
  <2> QED BY <1>10, <2>1 DEF SamplePass
<1> DEFINE T == {k \in 0 .. M : SampleScan[k] \in S}
<1>13. 0 \in T
  BY <1>1, <1>2, <1>11
<1>14. ASSUME NEW k \in 0 .. M - 1, k \in T PROVE k + 1 \in T
  <2>1. k + 1 \in 1 .. M /\ (k + 1) - 1 = k /\ k + 1 \in 0 .. M
    BY <1>1
  <2>2. SampleScan[k + 1] = SamplePass(SampleScan[k], k + 1)
    BY <1>12, <2>1
  <2> QED BY <1>3, <1>14, <2>1, <2>2 DEF M, S
<1>15. 0 .. M \subseteq T
  <2> HIDE DEF T
  <2> QED BY <1>1, <1>13, <1>14, IntervalInduction
<1>16. SampleScan[M] \in S
  BY <1>1, <1>15
<1> QED BY <1>16 DEF M, S

LruStates == [usage : UsageStates, found : BOOLEAN]
LruStart == [usage |-> Usage, found |-> FALSE]

\* One pass of the loop of choose_lru_victim_frame.
LruPass(s, k) ==
  LET i == frame_pages[k]
      u == sample_page_usage(s.usage, i)
      best == u.last_used[frame_pages[u.slot + 1]]
  IN IF pager_pages[i].pinned
     THEN s
     ELSE IF ~s.found \/ u.last_used[i] < best
     THEN [usage |-> [u EXCEPT !.slot = k - 1], found |-> TRUE]
     ELSE [usage |-> u, found |-> TRUE]

\* What is true after k frames: the unpinned pages among them are sampled, and
\* the slot kept is that of the least tick among them, if there are any.
LruInv(s, k) ==
  /\ s \in LruStates /\ UsageInv(s.usage)
  /\ \A m \in 1 .. k : \/ pager_pages[frame_pages[m]].pinned
                       \/ frame_pages[m] \notin s.usage.accessed
  /\ ~s.found => \A m \in 1 .. k : pager_pages[frame_pages[m]].pinned
  /\ s.found =>
       /\ s.usage.slot + 1 \in 1 .. k
       /\ ~pager_pages[frame_pages[s.usage.slot + 1]].pinned
       /\ \A m \in 1 .. k :
            ~pager_pages[frame_pages[m]].pinned =>
               s.usage.last_used[frame_pages[s.usage.slot + 1]]
                 <= s.usage.last_used[frame_pages[m]]

\* A pass keeps it.
LEMMA LruInvStep ==
  ASSUME Full, NEW k \in 1 .. PAGER_FRAME_LIMIT, NEW s, LruInv(s, k - 1)
  PROVE  LruInv(LruPass(s, k), k)
<1> DEFINE i == frame_pages[k]
           u == sample_page_usage(s.usage, i)
           t == LruPass(s, k)
<1>1. /\ PAGER_FRAME_LIMIT \in Nat \ {0} /\ i \in Entries /\ TablesExact
      /\ \A m \in 1 .. k : m \in 1 .. PAGER_FRAME_LIMIT /\ frame_pages[m] \in Entries
      /\ \A m \in 1 .. k - 1 : m \in 1 .. k /\ m # k /\ frame_pages[m] # i
      /\ \A m \in 1 .. k : m # k => m \in 1 .. k - 1
  BY Sizes, FullTable DEF Full
<1>2. /\ s \in LruStates /\ s.usage \in UsageStates /\ s.found \in BOOLEAN /\ UsageInv(s.usage)
  BY DEF LruInv, LruStates
<1>3. CASE pager_pages[i].pinned
  <2>1. t = s
    BY <1>3 DEF LruPass
  <2>2. LruInv(s, k)
    BY <1>1, <1>3 DEF LruInv
  <2> QED BY <2>1, <2>2
<1>4. CASE ~pager_pages[i].pinned
  <2>1. /\ UsageInv(u) /\ u.slot = s.usage.slot /\ u.accessed = s.usage.accessed \ {i}
        /\ \A j \in Entries \ {i} : u.last_used[j] = s.usage.last_used[j]
    BY <1>1, <1>2, UsageStep
  <2>2. t = IF ~s.found \/ u.last_used[i] < u.last_used[frame_pages[u.slot + 1]]
            THEN [usage |-> [u EXCEPT !.slot = k - 1], found |-> TRUE]
            ELSE [usage |-> u, found |-> TRUE]
    BY <1>4 DEF LruPass
  <2> HIDE DEF u, t, i
  <2>3. /\ u \in UsageStates /\ u.last_used \in [Entries -> Nat]
    BY <2>1 DEF UsageInv, UsageStates
  <2>4. \A m \in 1 .. k : pager_pages[frame_pages[m]].pinned \/ frame_pages[m] \notin u.accessed
    BY <1>1, <2>1 DEF LruInv, i
  <2>5. CASE ~s.found \/ u.last_used[i] < u.last_used[frame_pages[u.slot + 1]]
    <3> DEFINE v == [u EXCEPT !.slot = k - 1]
    <3>1. k - 1 \in Slots /\ (k - 1) + 1 = k
      BY <1>1 DEF Slots
    <3>2. /\ v \in UsageStates /\ v.slot = k - 1 /\ v.accessed = u.accessed
          /\ v.usage_tick = u.usage_tick /\ v.last_used = u.last_used
      BY <2>3, <3>1 DEF UsageStates
    <3> HIDE DEF v
    <3>3. UsageInv(v)
      BY <2>1, <3>2 DEF UsageInv
    <3>4. t = [usage |-> v, found |-> TRUE]
      BY <2>2, <2>5 DEF v
    <3>5. t \in LruStates /\ t.usage = v /\ t.found = TRUE
      BY <3>2, <3>4 DEF LruStates
    <3>6. frame_pages[v.slot + 1] = i /\ v.slot + 1 \in 1 .. k
      BY <3>1, <3>2 DEF i
    <3>7. ASSUME NEW m \in 1 .. k, ~pager_pages[frame_pages[m]].pinned
          PROVE  u.last_used[i] <= u.last_used[frame_pages[m]]
      <4> DEFINE j == frame_pages[m]
                 b == frame_pages[u.slot + 1]
      <4>1. u.last_used[i] \in Nat /\ u.last_used[j] \in Nat
        BY <1>1, <2>3
      <4>2. CASE m = k
        BY <4>1, <4>2 DEF i
      <4>3. CASE m # k
        <5>1. m \in 1 .. k - 1
          BY <1>1, <4>3
        <5>2. /\ s.found /\ u.slot + 1 \in 1 .. k - 1
              /\ s.usage.last_used[b] <= s.usage.last_used[j]
          BY <2>1, <3>7, <5>1 DEF LruInv
        <5>3. j \in Entries \ {i} /\ b \in Entries \ {i}
          BY <1>1, <5>1, <5>2
        <5>4. u.last_used[b] <= u.last_used[j] /\ u.last_used[b] \in Nat
          BY <2>1, <2>3, <5>2, <5>3
        <5>5. u.last_used[i] < u.last_used[b]
          BY <2>5, <5>2
        <5> QED BY <4>1, <5>4, <5>5
      <4> QED BY <4>2, <4>3
    <3> QED BY <1>4, <2>4, <3>2, <3>3, <3>5, <3>6, <3>7 DEF LruInv, t
  <2>6. CASE ~(~s.found \/ u.last_used[i] < u.last_used[frame_pages[u.slot + 1]])
    <3> DEFINE b == frame_pages[u.slot + 1]
    <3>1. t = [usage |-> u, found |-> TRUE]
      BY <2>2, <2>6
    <3>2. t \in LruStates /\ t.usage = u /\ t.found = TRUE
      BY <2>3, <3>1 DEF LruStates
    <3>3. /\ s.found /\ u.slot + 1 \in 1 .. k - 1 /\ ~pager_pages[b].pinned
          /\ \A m \in 1 .. k - 1 : ~pager_pages[frame_pages[m]].pinned =>
               s.usage.last_used[b] <= s.usage.last_used[frame_pages[m]]
      BY <2>1, <2>6 DEF LruInv
    <3>4. b \in Entries \ {i} /\ u.slot + 1 \in 1 .. k
      BY <1>1, <3>3
    <3>5. u.last_used[b] \in Nat /\ u.last_used[i] \in Nat /\ u.last_used[b] <= u.last_used[i]
      BY <1>1, <2>3, <2>6, <3>4 DEF i
    <3>6. ASSUME NEW m \in 1 .. k, ~pager_pages[frame_pages[m]].pinned
          PROVE  u.last_used[b] <= u.last_used[frame_pages[m]]
      <4>1. CASE m = k
        BY <3>5, <4>1 DEF i
      <4>2. CASE m # k
        <5>1. m \in 1 .. k - 1 /\ frame_pages[m] \in Entries \ {i}
          BY <1>1, <4>2
        <5> QED BY <2>1, <3>3, <3>4, <3>6, <5>1
      <4> QED BY <4>1, <4>2
    <3> QED BY <2>1, <2>4, <3>2, <3>3, <3>4, <3>6 DEF LruInv, t
  <2> QED BY <2>5, <2>6
<1> QED BY <1>3, <1>4

\* LruScan iterates the pass, and keeps its invariant.
LEMMA LruScans ==
  ASSUME Full, Ticked
  PROVE  LruInv(LruScan[PAGER_FRAME_LIMIT], PAGER_FRAME_LIMIT)
<1> DEFINE M == PAGER_FRAME_LIMIT
           L == {s \in LruStates : UsageInv(s.usage)}
           D == [p \in (1 .. M) \X L |-> LruPass(p[2], p[1])]
           Body(g) == [k \in 0 .. M |-> IF k = 0 THEN LruStart ELSE LruPass(g[k - 1], k)]
<1>1. M \in Nat
  BY Sizes
<1>2. LruStart \in L /\ LruInv(LruStart, 0)
  <2>1. UsageInv(Usage) /\ Usage \in UsageStates
    BY UsageStart DEF UsageInv, Full
  <2>2. LruStart \in LruStates /\ LruStart.usage = Usage /\ LruStart.found = FALSE
    BY <2>1 DEF LruStates, LruStart
  <2> QED BY <2>1, <2>2 DEF LruInv
<1>3. \A k \in 1 .. M, s \in L : LruPass(s, k) \in L
  <2> SUFFICES ASSUME NEW k \in 1 .. M, NEW s \in L PROVE LruPass(s, k) \in L
    OBVIOUS
  <2> DEFINE u == sample_page_usage(s.usage, frame_pages[k])
             v == [u EXCEPT !.slot = k - 1]
  <2>1. frame_pages[k] \in Entries /\ k - 1 \in Slots
    BY Sizes, FullTable DEF Slots
  <2>2. UsageInv(u) /\ u \in UsageStates
    BY <2>1, UsageStep DEF Full, UsageInv
  <2>3. \/ LruPass(s, k) = s
        \/ LruPass(s, k) = [usage |-> v, found |-> TRUE]
        \/ LruPass(s, k) = [usage |-> u, found |-> TRUE]
    BY DEF LruPass
  <2> HIDE DEF u
  <2>4. /\ v \in UsageStates /\ v.accessed = u.accessed
        /\ v.usage_tick = u.usage_tick /\ v.last_used = u.last_used
    BY <2>1, <2>2 DEF UsageStates
  <2> HIDE DEF v
  <2>5. UsageInv(v)
    BY <2>2, <2>4 DEF UsageInv
  <2>6. ASSUME NEW x \in UsageStates, UsageInv(x) PROVE [usage |-> x, found |-> TRUE] \in L
    BY <2>6 DEF LruStates
  <2> HIDE DEF L
  <2> QED BY <2>2, <2>3, <2>4, <2>5, <2>6
<1>4. IsLoopBody(D, M, L) /\ \A k \in 1 .. M, s \in L : D[<<k, s>>] = LruPass(s, k)
  <2> HIDE DEF M, L
  <2> QED BY <1>3 DEF IsLoopBody
<1>5. LruScan = CHOOSE g : g = Body(g)
  BY DEF LruScan, LruStart, LruPass
<1> HIDE DEF D, M, L
<1>6. PICK g : IsLoopRun(g, LruStart, D, M, L)
  BY <1>1, <1>2, <1>4, RecursionExists
<1>7. /\ g \in [0 .. M -> L] /\ g[0] = LruStart
      /\ \A k \in 1 .. M : g[k] = D[<<k, g[k - 1]>>]
  BY <1>6 DEF IsLoopRun
<1>8. ASSUME NEW k \in 1 .. M PROVE g[k] = LruPass(g[k - 1], k)
  <2>1. g[k - 1] \in L
    BY <1>1, <1>7
  <2> QED BY <1>4, <1>7, <2>1
<1>9. g = Body(g)
  <2>1. ASSUME NEW k \in 0 .. M
        PROVE  g[k] = IF k = 0 THEN LruStart ELSE LruPass(g[k - 1], k)
    <3>1. CASE k = 0
      BY <1>7, <3>1
    <3>2. CASE k # 0
      <4>1. k \in 1 .. M
        BY <1>1, <3>2
      <4> QED BY <1>8, <3>2, <4>1
    <3> QED BY <3>1, <3>2
  <2> QED BY <1>7, <2>1
<1>10. LruScan = Body(LruScan)
  <2> HIDE DEF Body
  <2> QED BY <1>5, <1>9
<1> HIDE DEF LruScan
<1>11. LruScan[0] = LruStart
  BY <1>1, <1>10
<1>12. ASSUME NEW k \in 1 .. M PROVE LruScan[k] = LruPass(LruScan[k - 1], k)
  <2>1. k \in 0 .. M /\ k # 0
    BY <1>1
  <2> QED BY <1>10, <2>1
<1> DEFINE T == {k \in 0 .. M : LruInv(LruScan[k], k)}
<1>13. 0 \in T
  BY <1>1, <1>2, <1>11
<1>14. ASSUME NEW k \in 0 .. M - 1, k \in T PROVE k + 1 \in T
  <2> DEFINE n == k + 1
  <2>1. n \in 1 .. M /\ n - 1 = k /\ n \in 0 .. M
    BY <1>1
  <2> HIDE DEF n
  <2>2. LruScan[n] = LruPass(LruScan[k], n) /\ LruInv(LruScan[k], n - 1)
    BY <1>12, <1>14, <2>1
  <2>3. LruInv(LruPass(LruScan[k], n), n)
    BY <2>1, <2>2, LruInvStep DEF M
  <2> QED BY <2>1, <2>2, <2>3 DEF n
<1>15. 0 .. M \subseteq T
  <2> HIDE DEF T
  <2> QED BY <1>1, <1>13, <1>14, IntervalInduction
<1>16. LruInv(LruScan[M], M)
  BY <1>1, <1>15
<1> QED BY <1>16 DEF M

\* LRU's slot likewise: pinned only if all are; accessed only if all unpinned
\* ones were, since every sampled page is newer than those that were not used.
LEMMA LruChoice ==
  ASSUME Full, Ticked
  PROVE  LET u == choose_lru_victim_frame IN
         /\ UsageInv(u)
         /\ Pinned(u.slot) => \A h \in Slots : Pinned(h)
         /\ ~Pinned(u.slot) /\ Accessed(u.slot) => AllUsed
<1> DEFINE s == LruScan[PAGER_FRAME_LIMIT]
           u == s.usage
<1>1. LruInv(s, PAGER_FRAME_LIMIT)
  BY LruScans
<1> HIDE DEF s
<1>2. UsageInv(u) /\ s.found \in BOOLEAN
  BY <1>1 DEF LruInv, LruStates
<1>3. /\ u.slot \in Slots /\ usage_tick \in Nat /\ u.last_used \in [Entries -> Nat]
      /\ \A i \in Entries : pager_pages[i].last_used_tick \in Nat
  BY <1>2 DEF UsageInv, UsageStates, Full, TablesExact, PagerTypeOK, PagerPage
<1>4. \A h \in Slots : h + 1 \in 1 .. PAGER_FRAME_LIMIT /\ frame_pages[h + 1] \in Entries
  BY FullTable
<1>5. CASE ~s.found
  <2>1. \A h \in Slots : Pinned(h)
    BY <1>1, <1>4, <1>5 DEF LruInv, Pinned
  <2> QED BY <1>2, <1>3, <2>1 DEF choose_lru_victim_frame, s
<1>6. CASE s.found
  <2> DEFINE b == frame_pages[u.slot + 1]
  <2>1. /\ ~Pinned(u.slot) /\ b \notin u.accessed
        /\ \A h \in Slots : ~Pinned(h) => u.last_used[b] <= u.last_used[frame_pages[h + 1]]
    BY <1>1, <1>3, <1>4, <1>6 DEF LruInv, Pinned
  <2>2. ASSUME b \in accessed PROVE AllUsed
    <3> SUFFICES ASSUME NEW h \in Slots, ~Pinned(h), ~Accessed(h) PROVE FALSE
      BY DEF AllUsed
    <3> DEFINE j == frame_pages[h + 1]
    <3>1. j \in Entries /\ b \in Entries
      BY <1>3, <1>4
    <3>2. usage_tick < u.last_used[b]
      BY <1>2, <2>1, <2>2, <3>1 DEF UsageInv
    <3>3. u.last_used[j] = pager_pages[j].last_used_tick
      BY <1>2, <3>1 DEF UsageInv, Accessed
    <3>4. pager_pages[j].last_used_tick <= usage_tick /\ u.last_used[b] <= u.last_used[j]
      BY <2>1, <3>1 DEF Ticked
    <3>5. u.last_used[j] \in Nat /\ u.last_used[b] \in Nat
      BY <1>3, <3>1
    <3> HIDE DEF j, b, u
    <3> QED BY <1>3, <3>2, <3>3, <3>4, <3>5
  <2> QED BY <1>2, <2>1, <2>2 DEF Accessed, choose_lru_victim_frame, s
<1> QED BY <1>2, <1>5, <1>6

\* What is known of the choice of a victim, whichever the algorithm.
LEMMA Choice ==
  ASSUME Full, Ticked
  PROVE  LET c == choose_victim_frame IN
         /\ c.slot \in Slots /\ c.accessed \subseteq accessed
         /\ c.usage_tick \in Nat /\ usage_tick <= c.usage_tick
         /\ c.last_used \in [Entries -> Nat]
         /\ \A i \in Entries : c.last_used[i] <= c.usage_tick
         /\ Pinned(c.slot) => \A h \in Slots : Pinned(h)
         /\ ~Pinned(c.slot) /\ Accessed(c.slot) => AllUsed
<1>1. CASE current_algorithm = "lru"
  <2> DEFINE u == choose_lru_victim_frame
  <2>1. /\ UsageInv(u)
        /\ Pinned(u.slot) => \A h \in Slots : Pinned(h)
        /\ ~Pinned(u.slot) /\ Accessed(u.slot) => AllUsed
    BY LruChoice
  <2>2. choose_victim_frame = u
    BY <1>1 DEF choose_victim_frame
  <2> HIDE DEF u
  <2> QED BY <2>1, <2>2 DEF UsageInv, UsageStates
<1>2. CASE current_algorithm # "lru"
  <2> DEFINE s == ClockScan[2 * PAGER_FRAME_LIMIT]
             l == [i \in Entries |-> pager_pages[i].last_used_tick]
             c == [slot |-> s.hand, accessed |-> s.accessed, usage_tick |-> usage_tick,
                   last_used |-> l]
  <2>1. /\ s.hand \in Slots /\ s.accessed \subseteq accessed
        /\ Pinned(s.hand) => \A h \in Slots : Pinned(h)
        /\ ~Pinned(s.hand) /\ Accessed(s.hand) => AllUsed
    BY ClockChoice
  <2>2. choose_victim_frame = c
    BY <1>2 DEF choose_victim_frame, choose_clock_victim_frame
  <2> HIDE DEF s
  <2>3. usage_tick \in Nat /\ \A i \in Entries : pager_pages[i].last_used_tick \in Nat
    BY DEF Full, TablesExact, PagerTypeOK, PagerPage
  <2>4. l \in [Entries -> Nat] /\ \A i \in Entries : l[i] <= usage_tick
    BY <2>3 DEF Ticked
  <2>5. /\ c.slot = s.hand /\ c.accessed = s.accessed
        /\ c.usage_tick = usage_tick /\ c.last_used = l
    OBVIOUS
  <2> HIDE DEF l, c
  <2> QED BY <2>1, <2>2, <2>3, <2>4, <2>5
<1> QED BY <1>1, <1>2

-----------------------------------------------------------------------------
(* Page faults.                                                            *)

\* The inductive invariant.
PagerInv == TablesExact /\ Ticked

\* The table with entry i filled by page_in, and what that means.
Filled(P, i, f, t) ==
  [P EXCEPT ![i].phys_addr = f, ![i].present = TRUE, ![i].last_used_tick = t]

IsFilled(Q, P, i, f, t) ==
  /\ Q \in [Entries -> PagerPage]
  /\ \A j \in Entries \ {i} : Q[j] = P[j]
  /\ Q[i].used = P[i].used /\ Q[i].page = P[i].page /\ Q[i].pinned = P[i].pinned
  /\ Q[i].phys_addr = f /\ Q[i].present = TRUE /\ Q[i].last_used_tick = t

\* page_in changes the one entry it fills.
LEMMA FilledEntry ==
  ASSUME NEW P \in [Entries -> PagerPage], NEW i \in Entries, NEW f \in FRAMES, NEW t, t \in Nat
  PROVE  IsFilled(Filled(P, i, f, t), P, i, f, t)
<1> DEFINE r == [P[i] EXCEPT !.phys_addr = f, !.present = TRUE, !.last_used_tick = t]
           Q == Filled(P, i, f, t)
<1>1. P[i] \in PagerPage /\ TRUE \in BOOLEAN
  OBVIOUS
<1>2. Q = [P EXCEPT ![i] = r]
  BY DEF PagerPage, Filled
<1>3. /\ r.used = P[i].used /\ r.page = P[i].page /\ r.pinned = P[i].pinned
      /\ r.phys_addr = f /\ r.present = TRUE /\ r.last_used_tick = t
  BY <1>1 DEF PagerPage
<1>4. r \in PagerPage
  BY <1>1 DEF PagerPage
<1> HIDE DEF r, Q
<1>5. Q \in [Entries -> PagerPage] /\ Q[i] = r /\ \A j \in Entries \ {i} : Q[j] = P[j]
  BY <1>2, <1>4
<1>6. IsFilled(Q, P, i, f, t)
  BY <1>3, <1>5 DEF IsFilled
<1> QED BY <1>6 DEF Q

\* The table after evict_frame.
IsEvicted(Q, victim, last_used) ==
  /\ Q \in [Entries -> PagerPage]
  /\ \A j \in Entries :
       /\ Q[j].used = pager_pages[j].used /\ Q[j].page = pager_pages[j].page
       /\ Q[j].pinned = pager_pages[j].pinned /\ Q[j].last_used_tick = last_used[j]
       /\ j = victim => Q[j].present = FALSE
       /\ j # victim => /\ Q[j].present = pager_pages[j].present
                        /\ Q[j].phys_addr = pager_pages[j].phys_addr

\* evict_frame takes the frame from the victim and nothing from the others.
LEMMA EvictedEntries ==
  ASSUME NEW victim \in Entries, NEW last_used \in [Entries -> Nat],
         pager_pages \in [Entries -> PagerPage]
  PROVE  IsEvicted(evict_frame(victim, last_used), victim, last_used)
<1> DEFINE Q == evict_frame(victim, last_used)
           out(j) == [pager_pages[j] EXCEPT !.phys_addr = NoFrame, !.present = FALSE,
                                           !.last_used_tick = last_used[j]]
           in(j) == [pager_pages[j] EXCEPT !.last_used_tick = last_used[j]]
<1>1. Q = [j \in Entries |-> IF j = victim THEN out(j) ELSE in(j)]
  BY DEF evict_frame
<1>2. ASSUME NEW j \in Entries
      PROVE  /\ out(j) \in PagerPage /\ in(j) \in PagerPage
             /\ out(j).used = pager_pages[j].used /\ out(j).page = pager_pages[j].page
             /\ out(j).pinned = pager_pages[j].pinned /\ out(j).last_used_tick = last_used[j]
             /\ out(j).present = FALSE
             /\ in(j).used = pager_pages[j].used /\ in(j).page = pager_pages[j].page
             /\ in(j).pinned = pager_pages[j].pinned /\ in(j).last_used_tick = last_used[j]
             /\ in(j).present = pager_pages[j].present
             /\ in(j).phys_addr = pager_pages[j].phys_addr
  <2>1. pager_pages[j] \in PagerPage /\ last_used[j] \in Nat /\ FALSE \in BOOLEAN
    OBVIOUS
  <2> QED BY <2>1 DEF PagerPage
<1> HIDE DEF Q, out, in
<1>3. Q \in [Entries -> PagerPage] /\ \A j \in Entries : Q[j] = IF j = victim THEN out(j) ELSE in(j)
  BY <1>1, <1>2
<1>4. IsEvicted(Q, victim, last_used)
  BY <1>2, <1>3 DEF IsEvicted
<1> QED BY <1>4 DEF Q

\* Entry i comes into physical page f, the entries of V leave theirs.
Placed(i, f, V) ==
  /\ pager_pages' \in [Entries -> PagerPage]
  /\ \A j \in Entries :
       /\ pager_pages'[j].used = pager_pages[j].used
       /\ pager_pages'[j].page = pager_pages[j].page
       /\ pager_pages'[j].pinned = pager_pages[j].pinned
       /\ pager_pages'[j].last_used_tick <= usage_tick'
       /\ pager_pages'[j].present <=> (j = i \/ (pager_pages[j].present /\ j \notin V))
       /\ (j # i /\ j \notin V) => pager_pages'[j].phys_addr = pager_pages[j].phys_addr
       /\ pager_pages[j].present /\ pager_pages[j].phys_addr = f => j \in V
       /\ swap'[j] = IF j \in V THEN ram[pager_pages[j].phys_addr] ELSE swap[j]
  /\ pager_pages'[i].phys_addr = f /\ f \in FRAMES
  /\ ram' = [ram EXCEPT ![f] = swap[i]]
  /\ swap' \in [Entries -> VALUES]
  /\ usage_tick' \in Nat
  /\ clock_hand' \in Slots
  /\ accessed' \in SUBSET Entries

\* The frames are exact after it.
FramesAfter ==
  /\ frame_pages' \in Seq(Entries) /\ Len(frame_pages') <= PAGER_FRAME_LIMIT
  /\ \A j, k \in DOMAIN frame_pages' : frame_pages'[j] = frame_pages'[k] => j = k
  /\ \A j \in Entries :
       pager_pages'[j].present <=> \E k \in DOMAIN frame_pages' : frame_pages'[k] = j

\* The facts about the types that the steps below start from.
LEMMA Typed ==
  ASSUME PagerInv
  PROVE  /\ pager_pages \in [Entries -> PagerPage] /\ frame_pages \in Seq(Entries)
         /\ Len(frame_pages) <= PAGER_FRAME_LIMIT /\ Len(frame_pages) \in Nat
         /\ DOMAIN frame_pages = 1 .. Len(frame_pages)
         /\ \A k \in 1 .. Len(frame_pages) : frame_pages[k] \in Entries
         /\ usage_tick \in Nat /\ accessed \in SUBSET Entries /\ clock_hand \in Slots
         /\ swap \in [Entries -> VALUES] /\ ram \in [FRAMES -> VALUES]
         /\ PAGER_FRAME_LIMIT \in Nat \ {0}
         /\ \A i \in Entries : pager_pages[i].last_used_tick \in Nat
         /\ \A i \in Entries : pager_pages[i].last_used_tick <= usage_tick
BY Sizes DEF PagerInv, Ticked, TablesExact, PagerTypeOK, PagerPage, Slots

\* A fault served by a free frame.
LEMMA FreePlaced ==
  ASSUME PagerInv, NEW i \in Entries, ~pager_pages[i].present, PageInFree(i)
  PROVE  FramesAfter /\ \E f : Placed(i, f, {})
<1> USE Typed
<1>1. PICK f \in FRAMES \ InUse :
        /\ pager_pages' = [pager_pages EXCEPT ![i].phys_addr = f, ![i].present = TRUE,
                                              ![i].last_used_tick = usage_tick + 1]
        /\ ram' = [ram EXCEPT ![f] = swap[i]]
  BY DEF PageInFree
<1>2. /\ Len(frame_pages) < PAGER_FRAME_LIMIT
      /\ frame_pages' = Append(frame_pages, i)
      /\ clock_hand' = (Len(frame_pages) + 1) % PAGER_FRAME_LIMIT
      /\ usage_tick' = usage_tick + 1 /\ accessed' = accessed /\ swap' = swap
  BY DEF PageInFree
<1>3. IsFilled(pager_pages', pager_pages, i, f, usage_tick + 1)
  <2> DEFINE t == usage_tick + 1
  <2>1. t \in Nat /\ f \in FRAMES /\ pager_pages' = Filled(pager_pages, i, f, t)
    BY <1>1 DEF Filled
  <2> HIDE DEF t
  <2>2. IsFilled(pager_pages', pager_pages, i, f, t)
    BY <2>1, FilledEntry
  <2> QED BY <2>2 DEF t
<1>4. \A j \in Entries : pager_pages[j].present => pager_pages[j].phys_addr # f
  BY <1>1 DEF InUse
<1>5. clock_hand' \in Slots
  <2>1. Len(frame_pages) \in Slots
    BY <1>2 DEF Slots
  <2> QED BY <1>2, <2>1, HandMoves
<1>6. \A j \in Entries : pager_pages'[j].last_used_tick <= usage_tick'
  BY <1>2, <1>3 DEF IsFilled
<1>7. Placed(i, f, {})
  BY <1>1, <1>2, <1>3, <1>4, <1>5, <1>6 DEF Placed, IsFilled
<1>8. FramesAfter
  <2>1. /\ frame_pages' \in Seq(Entries) /\ Len(frame_pages') = Len(frame_pages) + 1
        /\ DOMAIN frame_pages' = 1 .. Len(frame_pages) + 1
        /\ \A k \in 1 .. Len(frame_pages) : frame_pages'[k] = frame_pages[k]
        /\ frame_pages'[Len(frame_pages) + 1] = i
    BY <1>2
  <2>2. \A k \in 1 .. Len(frame_pages) : frame_pages[k] # i
    BY DEF PagerInv, TablesExact, FramesExact
  <2>3. \A j, k \in 1 .. Len(frame_pages) : frame_pages[j] = frame_pages[k] => j = k
    BY DEF PagerInv, TablesExact, FramesExact
  <2>4. \A j \in Entries :
          pager_pages[j].present <=> \E k \in 1 .. Len(frame_pages) : frame_pages[k] = j
    BY DEF PagerInv, TablesExact, FramesExact
  <2>5. \A k \in 1 .. Len(frame_pages) + 1 :
          k \in 1 .. Len(frame_pages) \/ k = Len(frame_pages) + 1
    OBVIOUS
  <2>6. \A j, k \in DOMAIN frame_pages' : frame_pages'[j] = frame_pages'[k] => j = k
    BY <2>1, <2>2, <2>3, <2>5
  <2>7. ASSUME NEW j \in Entries
        PROVE  pager_pages'[j].present <=> \E k \in DOMAIN frame_pages' : frame_pages'[k] = j
    <3>1. CASE j = i
      BY <1>3, <2>1, <3>1 DEF IsFilled
    <3>2. CASE j # i
      <4>1. pager_pages'[j].present <=> pager_pages[j].present
        BY <1>3, <3>2 DEF IsFilled
      <4>2. (\E k \in 1 .. Len(frame_pages) : frame_pages[k] = j)
              <=> \E k \in DOMAIN frame_pages' : frame_pages'[k] = j
        <5>1. ASSUME NEW k \in 1 .. Len(frame_pages), frame_pages[k] = j
              PROVE  k \in DOMAIN frame_pages' /\ frame_pages'[k] = j
          BY <2>1, <5>1
        <5>2. ASSUME NEW k \in DOMAIN frame_pages', frame_pages'[k] = j
              PROVE  k \in 1 .. Len(frame_pages) /\ frame_pages[k] = j
          BY <2>1, <2>5, <3>2, <5>2
        <5> QED BY <5>1, <5>2
      <4> QED BY <2>4, <4>1, <4>2
    <3> QED BY <3>1, <3>2
  <2>8. Len(frame_pages') <= PAGER_FRAME_LIMIT
    BY <1>2, <2>1
  <2> QED BY <2>1, <2>6, <2>7, <2>8 DEF FramesAfter
<1> QED BY <1>7, <1>8

\* A fault served by evicting the page of the chosen slot.
LEMMA EvictPlaced ==
  ASSUME PagerInv, NEW i \in Entries, ~pager_pages[i].present, PageInEvict(i)
  PROVE  LET victim == frame_pages[choose_victim_frame.slot + 1] IN
         /\ FramesAfter /\ Full
         /\ victim \in Entries /\ pager_pages[victim].present
         /\ \E f : Placed(i, f, {victim})
<1> USE Typed
<1> DEFINE c == choose_victim_frame
           victim == frame_pages[c.slot + 1]
           evicted == evict_frame(victim, c.last_used)
<1>1. /\ Len(frame_pages) = PAGER_FRAME_LIMIT
      /\ swap' = swap_write_slot(victim)
      /\ frame_pages' = [frame_pages EXCEPT ![c.slot + 1] = i]
      /\ clock_hand' = (c.slot + 1) % PAGER_FRAME_LIMIT
      /\ usage_tick' = c.usage_tick + 1
      /\ accessed' = c.accessed \ {victim}
  BY DEF PageInEvict
<1>2. PICK f \in (FRAMES \ InUse) \cup {pager_pages[victim].phys_addr} :
        /\ pager_pages' = [evicted EXCEPT ![i].phys_addr = f, ![i].present = TRUE,
                                          ![i].last_used_tick = c.usage_tick + 1]
        /\ ram' = [ram EXCEPT ![f] = swap[i]]
  BY DEF PageInEvict
<1>3. Full /\ Ticked
  BY <1>1 DEF PagerInv, Full
<1>4. /\ c.slot \in Slots /\ c.accessed \subseteq accessed
      /\ c.usage_tick \in Nat /\ usage_tick <= c.usage_tick
      /\ c.last_used \in [Entries -> Nat]
      /\ \A j \in Entries : c.last_used[j] <= c.usage_tick
  BY <1>3, Choice
<1> HIDE DEF c
<1>5. c.slot + 1 \in 1 .. PAGER_FRAME_LIMIT /\ victim \in Entries /\ pager_pages[victim].present
  BY <1>3, <1>4, FullTable
<1>6. /\ victim # i /\ pager_pages[victim].phys_addr \in FRAMES
      /\ \A j \in Entries : pager_pages[j].present /\ j # victim
            => pager_pages[j].phys_addr # pager_pages[victim].phys_addr
  BY <1>5 DEF PagerInv, TablesExact, FramesExact
<1>7. f \in FRAMES /\ \A j \in Entries :
        pager_pages[j].present /\ pager_pages[j].phys_addr = f => j = victim
  BY <1>2, <1>6 DEF InUse
<1> HIDE DEF evicted
<1>8. IsEvicted(evicted, victim, c.last_used)
  <2> DEFINE l == c.last_used
  <2>1. l \in [Entries -> Nat] /\ evicted = evict_frame(victim, l)
    BY <1>4 DEF evicted
  <2> HIDE DEF l, victim
  <2>2. IsEvicted(evict_frame(victim, l), victim, l)
    BY <1>5, <2>1, EvictedEntries
  <2> QED BY <2>1, <2>2 DEF l
<1>9. IsFilled(pager_pages', evicted, i, f, c.usage_tick + 1)
  <2> DEFINE t == c.usage_tick + 1
  <2>1. t \in Nat /\ pager_pages' = Filled(evicted, i, f, t) /\ evicted \in [Entries -> PagerPage]
    BY <1>2, <1>4, <1>8 DEF Filled, IsEvicted
  <2> HIDE DEF t
  <2>2. IsFilled(pager_pages', evicted, i, f, t)
    BY <1>7, <2>1, FilledEntry
  <2> QED BY <2>2 DEF t
<1> HIDE DEF victim
<1>10. /\ swap' \in [Entries -> VALUES]
       /\ \A j \in Entries :
            swap'[j] = IF j = victim THEN ram[pager_pages[j].phys_addr] ELSE swap[j]
  <2>1. ram[pager_pages[victim].phys_addr] \in VALUES
    BY <1>6
  <2> QED BY <1>1, <1>5, <2>1 DEF swap_write_slot
<1>11. clock_hand' \in Slots /\ accessed' \in SUBSET Entries /\ usage_tick' \in Nat
  BY <1>1, <1>4, HandMoves
<1>12. ASSUME NEW j \in Entries
       PROVE /\ pager_pages'[j].used = pager_pages[j].used
             /\ pager_pages'[j].page = pager_pages[j].page
             /\ pager_pages'[j].pinned = pager_pages[j].pinned
             /\ pager_pages'[j].last_used_tick <= usage_tick'
             /\ pager_pages'[j].present <=> (j = i \/ (pager_pages[j].present /\ j # victim))
             /\ (j # i /\ j # victim) => pager_pages'[j].phys_addr = pager_pages[j].phys_addr
  <2>1. CASE j = i
    BY <1>1, <1>4, <1>8, <1>9, <2>1 DEF IsFilled, IsEvicted
  <2>2. CASE j # i
    <3>1. pager_pages'[j] = evicted[j]
      BY <1>9, <2>2 DEF IsFilled
    <3>2. c.last_used[j] \in Nat /\ c.last_used[j] <= c.usage_tick
      BY <1>4
    <3>3. pager_pages'[j].last_used_tick <= usage_tick'
      BY <1>1, <1>4, <1>8, <3>1, <3>2 DEF IsEvicted
    <3> QED BY <1>8, <2>2, <3>1, <3>3 DEF IsEvicted
  <2> QED BY <2>1, <2>2
<1>13. Placed(i, f, {victim})
  BY <1>2, <1>7, <1>9, <1>10, <1>11, <1>12 DEF Placed, IsFilled
<1>14. FramesAfter
  <2> DEFINE m == c.slot + 1
  <2>1. /\ m \in 1 .. Len(frame_pages) /\ frame_pages' = [frame_pages EXCEPT ![m] = i]
        /\ frame_pages[m] = victim
    BY <1>1, <1>5 DEF victim
  <2> HIDE DEF m
  <2>2. /\ frame_pages' \in Seq(Entries) /\ Len(frame_pages') = Len(frame_pages)
        /\ DOMAIN frame_pages' = 1 .. Len(frame_pages)
        /\ \A k \in 1 .. Len(frame_pages) : frame_pages'[k] = IF k = m THEN i ELSE frame_pages[k]
    BY <2>1
  <2>3. \A k \in 1 .. Len(frame_pages) : frame_pages[k] # i
    BY DEF PagerInv, TablesExact, FramesExact
  <2>4. \A j, k \in 1 .. Len(frame_pages) : frame_pages[j] = frame_pages[k] => j = k
    BY DEF PagerInv, TablesExact, FramesExact
  <2>5. \A j \in Entries :
          pager_pages[j].present <=> \E k \in 1 .. Len(frame_pages) : frame_pages[k] = j
    BY DEF PagerInv, TablesExact, FramesExact
  <2>6. \A j, k \in DOMAIN frame_pages' : frame_pages'[j] = frame_pages'[k] => j = k
    BY <2>2, <2>3, <2>4
  <2>7. ASSUME NEW j \in Entries
        PROVE  pager_pages'[j].present <=> \E k \in DOMAIN frame_pages' : frame_pages'[k] = j
    <3>1. CASE j = i
      BY <1>12, <2>1, <2>2, <3>1
    <3>2. CASE j = victim
      BY <1>6, <1>12, <2>1, <2>2, <2>4, <3>2
    <3>3. CASE j # i /\ j # victim
      <4>1. pager_pages'[j].present <=> pager_pages[j].present
        BY <1>12, <3>3
      <4>2. (\E k \in 1 .. Len(frame_pages) : frame_pages[k] = j)
              <=> \E k \in DOMAIN frame_pages' : frame_pages'[k] = j
        BY <2>1, <2>2, <3>3
      <4> QED BY <2>5, <4>1, <4>2
    <3> QED BY <3>1, <3>2, <3>3
  <2> QED BY <1>1, <2>2, <2>6, <2>7 DEF FramesAfter
<1> QED BY <1>3, <1>5, <1>13, <1>14 DEF victim, c

\* The frame table is exact after a fault is served.
LEMMA PlacedExact ==
  ASSUME PagerInv, NEW i \in Entries, pager_pages[i].used, NEW f, NEW V,
         Placed(i, f, V), FramesAfter,
         current_algorithm' = current_algorithm, stopped' = stopped
  PROVE  PagerInv'
<1> USE Typed
<1>1. ram' \in [FRAMES -> VALUES]
  BY DEF Placed
<1>2. current_algorithm' \in {"clock", "lru"} /\ stopped' \in BOOLEAN
  BY DEF PagerInv, TablesExact, PagerTypeOK
<1>3. PagerTypeOK'
  BY <1>1, <1>2 DEF PagerTypeOK, Placed, FramesAfter, Slots
<1>4. \A j \in Entries : pager_pages'[j].present => pager_pages'[j].phys_addr \in FRAMES
  BY DEF Placed, PagerInv, TablesExact, FramesExact
<1>5. \A j, k \in Entries :
        /\ pager_pages'[j].present /\ pager_pages'[k].present
        /\ pager_pages'[j].phys_addr = pager_pages'[k].phys_addr
        => j = k
  <2> SUFFICES ASSUME NEW j \in Entries, NEW k \in Entries,
                      pager_pages'[j].present, pager_pages'[k].present,
                      pager_pages'[j].phys_addr = pager_pages'[k].phys_addr
               PROVE  j = k
    OBVIOUS
  <2>1. \A m \in Entries : m # i /\ pager_pages'[m].present =>
          /\ pager_pages[m].present /\ m \notin V
          /\ pager_pages'[m].phys_addr = pager_pages[m].phys_addr
          /\ pager_pages[m].phys_addr # f
    BY DEF Placed
  <2>2. pager_pages'[i].phys_addr = f
    BY DEF Placed
  <2> QED BY <2>1, <2>2 DEF PagerInv, TablesExact, FramesExact
<1>6. \A j, k \in Entries :
        /\ pager_pages'[j].used /\ pager_pages'[k].used
        /\ pager_pages'[j].page = pager_pages'[k].page
        => j = k
  BY DEF Placed, PagerInv, TablesExact, FramesExact
<1>7. \A j \in Entries : pager_pages'[j].present => pager_pages'[j].used
  BY DEF Placed, PagerInv, TablesExact, FramesExact
<1>8. FramesExact'
  BY <1>4, <1>5, <1>6, <1>7 DEF FramesExact, FramesAfter
<1>9. Ticked'
  BY DEF Ticked, Placed
<1> QED BY <1>3, <1>8, <1>9 DEF PagerInv, TablesExact

-----------------------------------------------------------------------------
(* The other operations.                                                   *)

\* A step that moves no page in or out.
Unmoved ==
  /\ pager_pages' \in [Entries -> PagerPage]
  /\ \A j \in Entries :
       /\ pager_pages'[j].present <=> pager_pages[j].present
       /\ pager_pages[j].present =>
            pager_pages'[j].phys_addr = pager_pages[j].phys_addr /\ pager_pages'[j].used
       /\ pager_pages'[j].last_used_tick <= usage_tick'
  /\ \A j, k \in Entries :
       /\ pager_pages'[j].used /\ pager_pages'[k].used
       /\ pager_pages'[j].page = pager_pages'[k].page
       => j = k
  /\ frame_pages' = frame_pages /\ clock_hand' = clock_hand
  /\ usage_tick' \in Nat /\ accessed' \in SUBSET Entries
  /\ swap' \in [Entries -> VALUES] /\ ram' \in [FRAMES -> VALUES]
  /\ current_algorithm' \in {"clock", "lru"} /\ stopped' \in BOOLEAN

\* A step that moves no page between frames keeps the invariant.
LEMMA UnmovedExact == ASSUME PagerInv, Unmoved PROVE PagerInv'
<1> USE Typed
<1>1. PagerTypeOK'
  BY DEF PagerTypeOK, Unmoved, Slots
<1>2. FramesExact'
  <2>1. DOMAIN frame_pages' = DOMAIN frame_pages /\ \A k \in DOMAIN frame_pages : frame_pages'[k] = frame_pages[k]
    BY DEF Unmoved
  <2>2. /\ \A j, k \in DOMAIN frame_pages' : frame_pages'[j] = frame_pages'[k] => j = k
        /\ \A i \in Entries :
             pager_pages'[i].present <=> \E k \in DOMAIN frame_pages' : frame_pages'[k] = i
    BY <2>1 DEF Unmoved, PagerInv, TablesExact, FramesExact
  <2>3. /\ \A i \in Entries : pager_pages'[i].present => pager_pages'[i].phys_addr \in FRAMES
        /\ \A i, j \in Entries :
             /\ pager_pages'[i].present /\ pager_pages'[j].present
             /\ pager_pages'[i].phys_addr = pager_pages'[j].phys_addr
             => i = j
        /\ \A i \in Entries : pager_pages'[i].present => pager_pages'[i].used
    BY DEF Unmoved, PagerInv, TablesExact, FramesExact
  <2>4. \A i, j \in Entries :
          /\ pager_pages'[i].used /\ pager_pages'[j].used
          /\ pager_pages'[i].page = pager_pages'[j].page
          => i = j
    BY DEF Unmoved
  <2> QED BY <2>2, <2>3, <2>4 DEF FramesExact
<1>3. Ticked'
  BY DEF Unmoved, Ticked
<1> QED BY <1>1, <1>2, <1>3 DEF PagerInv, TablesExact

\* What an unchanged table keeps.
LEMMA SameTable ==
  ASSUME PagerInv, pager_pages' = pager_pages, frame_pages' = frame_pages,
         clock_hand' = clock_hand, usage_tick' = usage_tick,
         accessed' \in SUBSET Entries, swap' \in [Entries -> VALUES], ram' \in [FRAMES -> VALUES],
         current_algorithm' \in {"clock", "lru"}, stopped' \in BOOLEAN
  PROVE  Unmoved
BY Typed DEF Unmoved, PagerInv, TablesExact, FramesExact

\* What the lookups find.
LEMMA Lookups ==
  /\ \A p : \A i \in find_page_by_virt(p) :
       i \in Entries /\ pager_pages[i].used /\ pager_pages[i].page = p
  /\ \A p : find_page_by_virt(p) = {} =>
       \A i \in Entries : ~(pager_pages[i].used /\ pager_pages[i].page = p)
BY DEF find_page_by_virt

\* The entry pager_register_page_data fills.
NewPage(p) == [FreePage EXCEPT !.used = TRUE, !.page = p]

\* The two records a registration writes are well formed.
LEMMA NewEntries ==
  /\ FreePage \in PagerPage /\ ~FreePage.used /\ ~FreePage.present /\ FreePage.last_used_tick = 0
  /\ \A p \in PAGES : /\ NewPage(p) \in PagerPage
                      /\ NewPage(p).used /\ NewPage(p).page = p /\ ~NewPage(p).present
                      /\ NewPage(p).last_used_tick = 0
<1>1. /\ FreePage \in PagerPage /\ FreePage.used = FALSE /\ FreePage.present = FALSE
      /\ FreePage.last_used_tick = 0
  BY DEF FreePage, PagerPage
<1>2. ASSUME NEW p \in PAGES
      PROVE  /\ NewPage(p) \in PagerPage
             /\ NewPage(p).used = TRUE /\ NewPage(p).page = p /\ NewPage(p).present = FALSE
             /\ NewPage(p).last_used_tick = 0
  <2> DEFINE F == FreePage
  <2>1. F \in PagerPage /\ F.present = FALSE /\ F.last_used_tick = 0 /\ TRUE \in BOOLEAN
    BY <1>1
  <2>2. NewPage(p) = [F EXCEPT !.used = TRUE, !.page = p]
    BY DEF NewPage
  <2> HIDE DEF F
  <2> QED BY <2>1, <2>2 DEF PagerPage
<1> QED BY <1>1, <1>2

\* Registering changes entry i, which was free, for a page that had none.
Registered(i, p, v) ==
  /\ i \in Entries /\ ~pager_pages[i].used /\ find_page_by_virt(p) = {}
  /\ pager_pages' \in [Entries -> PagerPage]
  /\ \A j \in Entries \ {i} : pager_pages'[j] = pager_pages[j] /\ swap'[j] = swap[j]
  /\ pager_pages'[i] = NewPage(p) /\ swap'[i] = v /\ swap' \in [Entries -> VALUES]
  /\ ram' = ram

\* pager_register_page_data fills one free entry and moves no page.
LEMMA RegisterStep ==
  ASSUME PagerInv, NEW p \in PAGES, NEW v \in VALUES, pager_register_page_data(p, v)
  PROVE  Unmoved /\ \E i : Registered(i, p, v)
<1> USE Typed
<1>1. PICK i \in Entries :
         /\ find_free_page_entry(i)
         /\ swap' = [swap EXCEPT ![i] = v]
         /\ pager_pages' = [pager_pages EXCEPT ![i] = [FreePage EXCEPT !.used = TRUE, !.page = p]]
  BY DEF pager_register_page_data
<1>2. pager_pages' = [pager_pages EXCEPT ![i] = NewPage(p)] /\ ~pager_pages[i].used
  BY <1>1 DEF NewPage, find_free_page_entry
<1>3. UNCHANGED <<frame_pages, clock_hand, usage_tick, current_algorithm, accessed, ram, stopped>>
  BY DEF pager_register_page_data
<1>4. Registered(i, p, v)
  BY <1>1, <1>2, <1>3, NewEntries DEF Registered, pager_register_page_data
<1>5. /\ ~pager_pages[i].present
      /\ \A j, k \in Entries : /\ pager_pages[j].used /\ pager_pages[k].used
                               /\ pager_pages[j].page = pager_pages[k].page
                               => j = k
      /\ \A j \in Entries : pager_pages[j].present => pager_pages[j].used
      /\ current_algorithm \in {"clock", "lru"} /\ stopped \in BOOLEAN
  BY <1>2 DEF PagerInv, TablesExact, FramesExact, PagerTypeOK
<1>6. ASSUME NEW j \in Entries, NEW k \in Entries, pager_pages'[j].used, pager_pages'[k].used,
             pager_pages'[j].page = pager_pages'[k].page
      PROVE  j = k
  <2>1. pager_pages'[i].page = p /\ \A m \in Entries : ~(pager_pages[m].used /\ pager_pages[m].page = p)
    BY <1>4, NewEntries, Lookups DEF Registered
  <2>2. \A m \in Entries \ {i} : pager_pages'[m] = pager_pages[m]
    BY <1>4 DEF Registered
  <2> QED BY <1>5, <1>6, <2>1, <2>2
<1>7. ASSUME NEW j \in Entries
      PROVE  /\ pager_pages'[j].present <=> pager_pages[j].present
             /\ pager_pages[j].present =>
                  pager_pages'[j].phys_addr = pager_pages[j].phys_addr /\ pager_pages'[j].used
             /\ pager_pages'[j].last_used_tick <= usage_tick'
  BY <1>3, <1>4, <1>5, NewEntries DEF Registered
<1>8. Unmoved
  <2>1. pager_pages' \in [Entries -> PagerPage] /\ swap' \in [Entries -> VALUES]
    BY <1>4 DEF Registered
  <2> QED BY <1>3, <1>5, <1>6, <1>7, <2>1 DEF Unmoved
<1> QED BY <1>4, <1>8

\* Pinning changes nothing else.
Marked ==
  /\ pager_pages' \in [Entries -> PagerPage]
  /\ \A j \in Entries : /\ pager_pages'[j].used = pager_pages[j].used
                        /\ pager_pages'[j].page = pager_pages[j].page
                        /\ pager_pages'[j].present = pager_pages[j].present
                        /\ pager_pages'[j].phys_addr = pager_pages[j].phys_addr

\* pager_pin_page_in_directory only sets a flag.
LEMMA PinStep ==
  ASSUME PagerInv, NEW p \in PAGES, pager_pin_page_in_directory(p, TRUE)
  PROVE  Unmoved /\ Marked
<1> USE Typed
<1>1. PICK i \in find_page_by_virt(p) : pager_pages' = [pager_pages EXCEPT ![i].pinned = TRUE]
  BY DEF pager_pin_page_in_directory
<1>2. i \in Entries /\ pager_pages[i] \in PagerPage
  BY Lookups
<1> DEFINE r == [pager_pages[i] EXCEPT !.pinned = TRUE]
<1>3. /\ r \in PagerPage /\ r.used = pager_pages[i].used /\ r.page = pager_pages[i].page
      /\ r.present = pager_pages[i].present /\ r.phys_addr = pager_pages[i].phys_addr
      /\ r.last_used_tick = pager_pages[i].last_used_tick
  BY <1>2 DEF PagerPage
<1>4. pager_pages' = [pager_pages EXCEPT ![i] = r]
  BY <1>1, <1>2
<1> HIDE DEF r
<1>5. Marked /\ \A j \in Entries : pager_pages'[j].last_used_tick = pager_pages[j].last_used_tick
  BY <1>2, <1>3, <1>4 DEF Marked
<1>6. UNCHANGED <<frame_pages, clock_hand, usage_tick, current_algorithm, accessed, swap, ram, stopped>>
  BY DEF pager_pin_page_in_directory
<1>7. current_algorithm' \in {"clock", "lru"} /\ stopped' \in BOOLEAN
  BY <1>6 DEF PagerInv, TablesExact, PagerTypeOK
<1>8. Unmoved
  BY <1>5, <1>6, <1>7 DEF Marked, Unmoved, PagerInv, TablesExact, FramesExact
<1> QED BY <1>5, <1>8

\* Nor does sampling.
LEMMA SampleStep ==
  ASSUME PagerInv, pager_sample_usage
  PROVE  Unmoved /\ Marked
<1> USE Typed
<1> DEFINE u == SampleScan[PAGER_FRAME_LIMIT]
<1>1. UsageInv(u)
  BY SampleScans DEF PagerInv
<1>2. /\ usage_tick' = u.usage_tick /\ accessed' = u.accessed
      /\ pager_pages' = [i \in Entries |-> [pager_pages[i] EXCEPT !.last_used_tick = u.last_used[i]]]
  BY DEF pager_sample_usage
<1> HIDE DEF u
<1>3. /\ u.usage_tick \in Nat /\ u.accessed \in SUBSET Entries
      /\ \A i \in Entries : u.last_used[i] \in Nat /\ u.last_used[i] <= u.usage_tick
  BY <1>1 DEF UsageInv, UsageStates
<1> DEFINE r(j) == [pager_pages[j] EXCEPT !.last_used_tick = u.last_used[j]]
<1>8. ASSUME NEW j \in Entries
      PROVE  /\ r(j) \in PagerPage /\ r(j).used = pager_pages[j].used
             /\ r(j).page = pager_pages[j].page /\ r(j).present = pager_pages[j].present
             /\ r(j).phys_addr = pager_pages[j].phys_addr
             /\ r(j).last_used_tick = u.last_used[j]
  <2>1. pager_pages[j] \in PagerPage /\ u.last_used[j] \in Nat
    BY <1>3
  <2> QED BY <2>1 DEF PagerPage
<1>9. pager_pages' = [j \in Entries |-> r(j)]
  BY <1>2
<1> HIDE DEF r
<1>4. Marked /\ \A j \in Entries : pager_pages'[j].last_used_tick = u.last_used[j]
  BY <1>8, <1>9 DEF Marked
<1>5. UNCHANGED <<frame_pages, clock_hand, current_algorithm, swap, ram, stopped>>
  BY DEF pager_sample_usage
<1>6. current_algorithm' \in {"clock", "lru"} /\ stopped' \in BOOLEAN
  BY <1>5 DEF PagerInv, TablesExact, PagerTypeOK
<1>7. Unmoved
  <2>1. \A j \in Entries : pager_pages'[j].last_used_tick <= usage_tick'
    BY <1>2, <1>3, <1>4
  <2>2. /\ \A j \in Entries : pager_pages[j].present => pager_pages[j].used
        /\ \A j, k \in Entries : /\ pager_pages[j].used /\ pager_pages[k].used
                                 /\ pager_pages[j].page = pager_pages[k].page
                                 => j = k
    BY DEF PagerInv, TablesExact, FramesExact
  <2>3. usage_tick' \in Nat /\ accessed' \in SUBSET Entries
    BY <1>2, <1>3
  <2> QED BY <1>4, <1>5, <1>6, <2>1, <2>2, <2>3 DEF Marked, Unmoved
<1> QED BY <1>4, <1>7

\* Unregistering frees entry i; the frames close up.
Unregistered(i, p) ==
  /\ i \in find_page_by_virt(p)
  /\ pager_pages' = [pager_pages EXCEPT ![i] = FreePage]
  /\ swap' = swap /\ ram' = ram

\* pager_unregister_page frees one entry and keeps the frames exact.
LEMMA UnregisterStep ==
  ASSUME PagerInv, NEW p \in PAGES, pager_unregister_page(p)
  PROVE  PagerInv' /\ \E i : Unregistered(i, p)
<1> USE Typed
<1>1. PICK i \in find_page_by_virt(p) :
       /\ IF pager_pages[i].present
          THEN \E k \in 1 .. Len(frame_pages) : frame_pages[k] = i /\ CloseGap(k)
          ELSE UNCHANGED <<frame_pages, clock_hand>>
       /\ accessed' = accessed \ {i}
       /\ pager_pages' = [pager_pages EXCEPT ![i] = FreePage]
  BY DEF pager_unregister_page
<1>2. UNCHANGED <<usage_tick, current_algorithm, swap, ram, stopped>>
  BY DEF pager_unregister_page
<1>3. Unregistered(i, p) /\ i \in Entries
  BY <1>1, <1>2, Lookups DEF Unregistered
<1>4. /\ pager_pages' \in [Entries -> PagerPage]
      /\ \A j \in Entries \ {i} : pager_pages'[j] = pager_pages[j]
      /\ ~pager_pages'[i].used /\ ~pager_pages'[i].present /\ pager_pages'[i].last_used_tick = 0
  BY <1>1, <1>3, NewEntries
<1>5. /\ \A j, k \in 1 .. Len(frame_pages) : frame_pages[j] = frame_pages[k] => j = k
      /\ \A j \in Entries : pager_pages[j].present <=>
           \E k \in 1 .. Len(frame_pages) : frame_pages[k] = j
      /\ current_algorithm \in {"clock", "lru"} /\ stopped \in BOOLEAN
  BY DEF PagerInv, TablesExact, FramesExact, PagerTypeOK
<1>6. FramesAfter /\ clock_hand' \in Slots
  <2>1. CASE pager_pages[i].present
    <3>1. PICK k \in 1 .. Len(frame_pages) : frame_pages[k] = i /\ CloseGap(k)
      BY <1>1, <2>1
    <3> DEFINE n == Len(frame_pages) - 1
    <3>2. /\ n \in Nat /\ n < PAGER_FRAME_LIMIT /\ Len(frame_pages) = n + 1
          /\ frame_pages' = [j \in 1 .. n |-> IF j = k THEN frame_pages[n + 1] ELSE frame_pages[j]]
          /\ clock_hand' = IF clock_hand >= n THEN 0 ELSE clock_hand
      BY <3>1 DEF CloseGap
    <3> HIDE DEF n
    <3>3. clock_hand' \in Slots
      BY <3>2 DEF Slots
    <3>4. \A j \in 1 .. n : j \in 1 .. Len(frame_pages) /\ n + 1 \in 1 .. Len(frame_pages)
      BY <3>2
    <3>5. frame_pages' \in [1 .. n -> Entries]
      BY <3>2, <3>4
    <3>6. frame_pages' \in Seq(Entries) /\ Len(frame_pages') = n /\ DOMAIN frame_pages' = 1 .. n
      BY <3>2, <3>5
    <3>7. \A j \in 1 .. n : frame_pages'[j] = IF j = k THEN frame_pages[n + 1] ELSE frame_pages[j]
      BY <3>2
    <3>8. \A j \in 1 .. n : j # n + 1
      BY <3>2
    <3>9. \A j, m \in 1 .. n : frame_pages'[j] = frame_pages'[m] => j = m
      BY <1>5, <3>4, <3>7, <3>8
    <3>10. ASSUME NEW j \in Entries
           PROVE  pager_pages'[j].present <=> \E m \in 1 .. n : frame_pages'[m] = j
      <4>1. CASE j = i
        <5>1. \A m \in 1 .. n : frame_pages'[m] # i
          BY <1>5, <3>1, <3>4, <3>7, <3>8
        <5> QED BY <1>4, <4>1, <5>1
      <4>2. CASE j # i
        <5>1. pager_pages'[j].present <=> pager_pages[j].present
          BY <1>4, <4>2
        <5>2. ASSUME NEW m \in 1 .. n, frame_pages'[m] = j PROVE pager_pages[j].present
          BY <1>5, <3>4, <3>7, <5>2
        <5>3. ASSUME pager_pages[j].present PROVE \E m \in 1 .. n : frame_pages'[m] = j
          <6>1. PICK m \in 1 .. Len(frame_pages) : frame_pages[m] = j
            BY <1>5, <5>3
          <6>2. m # k
            BY <3>1, <4>2, <6>1
          <6>3. CASE m = n + 1
            <7>1. k \in 1 .. n
              BY <3>2, <6>2, <6>3
            <7> QED BY <3>7, <6>1, <6>3, <7>1
          <6>4. CASE m # n + 1
            <7>1. m \in 1 .. n
              BY <3>2, <6>4
            <7> QED BY <3>7, <6>1, <6>2, <7>1
          <6> QED BY <6>3, <6>4
        <5> QED BY <5>1, <5>2, <5>3
      <4> QED BY <4>1, <4>2
    <3>11. /\ \A j, m \in DOMAIN frame_pages' : frame_pages'[j] = frame_pages'[m] => j = m
           /\ \A j \in Entries : pager_pages'[j].present <=>
                \E m \in DOMAIN frame_pages' : frame_pages'[m] = j
      BY <3>6, <3>9, <3>10, Zenon
    <3>12. Len(frame_pages') <= PAGER_FRAME_LIMIT
      BY <3>2, <3>6
    <3> QED BY <3>3, <3>6, <3>11, <3>12, Zenon DEF FramesAfter
  <2>2. CASE ~pager_pages[i].present
    <3>1. frame_pages' = frame_pages /\ clock_hand' = clock_hand
      BY <1>1, <2>2
    <3>2. \A j \in Entries : pager_pages'[j].present <=> pager_pages[j].present
      BY <1>4, <2>2
    <3>3. /\ frame_pages' \in Seq(Entries) /\ Len(frame_pages') <= PAGER_FRAME_LIMIT
          /\ DOMAIN frame_pages' = 1 .. Len(frame_pages) /\ clock_hand' \in Slots
      BY <3>1
    <3>4. /\ \A j, k \in 1 .. Len(frame_pages) : frame_pages'[j] = frame_pages'[k] => j = k
          /\ \A j \in Entries : pager_pages'[j].present <=>
               \E k \in 1 .. Len(frame_pages) : frame_pages'[k] = j
      BY <1>5, <3>1, <3>2
    <3>5. /\ \A j, k \in DOMAIN frame_pages' : frame_pages'[j] = frame_pages'[k] => j = k
          /\ \A j \in Entries : pager_pages'[j].present <=>
               \E k \in DOMAIN frame_pages' : frame_pages'[k] = j
      BY <3>3, <3>4, Zenon
    <3> QED BY <3>3, <3>5, Zenon DEF FramesAfter
  <2> QED BY <2>1, <2>2
<1>7. PagerTypeOK'
  BY <1>1, <1>2, <1>4, <1>5, <1>6 DEF PagerTypeOK, FramesAfter, Slots
<1>8. FramesExact'
  <2>1. \A j \in Entries : pager_pages'[j].used \/ pager_pages'[j].present =>
           j # i /\ pager_pages'[j] = pager_pages[j]
    BY <1>4
  <2>2. /\ \A j \in Entries : pager_pages'[j].present =>
             pager_pages'[j].phys_addr \in FRAMES /\ pager_pages'[j].used
        /\ \A j, k \in Entries :
             /\ pager_pages'[j].present /\ pager_pages'[k].present
             /\ pager_pages'[j].phys_addr = pager_pages'[k].phys_addr
             => j = k
        /\ \A j, k \in Entries :
             /\ pager_pages'[j].used /\ pager_pages'[k].used
             /\ pager_pages'[j].page = pager_pages'[k].page
             => j = k
    BY <2>1 DEF PagerInv, TablesExact, FramesExact
  <2> QED BY <1>6, <2>2 DEF FramesExact, FramesAfter
<1>9. Ticked'
  BY <1>2, <1>4 DEF Ticked
<1> QED BY <1>3, <1>7, <1>8, <1>9 DEF PagerInv, TablesExact

-----------------------------------------------------------------------------
(* The steps.                                                              *)

\* A fault on the page of entry i is served.
Served(i) ==
  /\ i \in Entries /\ pager_pages[i].used /\ ~pager_pages[i].present
  /\ PageInFree(i) \/ PageInEvict(i)
  /\ current_algorithm' = current_algorithm /\ stopped' = stopped

\* Nothing that a load could see happens.
Quiet ==
  /\ Unmoved /\ Marked /\ ram' = ram
  /\ \A j \in Entries : pager_pages[j].used => swap'[j] = swap[j]

\* The page of entry i is written.
Stored(i, v) ==
  /\ Unmoved /\ Marked /\ swap' = swap
  /\ pager_pages[i].present /\ ram' = [ram EXCEPT ![pager_pages[i].phys_addr] = v]

\* A failed fault, a load and a refused registration change no contents.
LEMMA QuietSteps ==
  ASSUME PagerInv, NEW p \in PAGES, FaultFails(p) \/ Load(p) \/ RegisterFails(p)
  PROVE  Quiet
<1> USE Typed
<1>1. /\ pager_pages' = pager_pages /\ frame_pages' = frame_pages /\ clock_hand' = clock_hand
      /\ usage_tick' = usage_tick /\ current_algorithm' = current_algorithm /\ ram' = ram
  BY DEF FaultFails, Load, RegisterFails
<1>2. current_algorithm' \in {"clock", "lru"}
  BY <1>1 DEF PagerInv, TablesExact, PagerTypeOK
<1>3. stopped' \in BOOLEAN
  <2>1. stopped' = stopped \/ stopped' = TRUE
    BY DEF FaultFails, Load, RegisterFails
  <2>2. stopped \in BOOLEAN
    BY DEF PagerInv, TablesExact, PagerTypeOK
  <2> QED BY <2>1, <2>2, Zenon
<1>4. accessed' \in SUBSET Entries
  BY Lookups DEF FaultFails, Load, RegisterFails
<1>5. swap' \in [Entries -> VALUES] /\ \A j \in Entries : pager_pages[j].used => swap'[j] = swap[j]
  <2>1. CASE RegisterFails(p)
    <3>1. PICK i \in Entries, v \in VALUES : ~pager_pages[i].used /\ swap' = [swap EXCEPT ![i] = v]
      BY <2>1 DEF RegisterFails, find_free_page_entry
    <3> QED BY <3>1
  <2>2. CASE FaultFails(p) \/ Load(p)
    BY <2>2 DEF FaultFails, Load
  <2> QED BY <2>1, <2>2
<1>6. Unmoved
  BY <1>1, <1>2, <1>3, <1>4, <1>5, SameTable
<1>7. Marked
  BY <1>1 DEF Marked
<1> QED BY <1>1, <1>5, <1>6, <1>7 DEF Quiet

\* A store writes the frame of a resident page.
LEMMA StoreStep ==
  ASSUME PagerInv, NEW p \in PAGES, NEW v \in VALUES, Store(p, v)
  PROVE  \E i \in find_page_by_virt(p) : Stored(i, v)
<1> USE Typed
<1>1. PICK i \in find_page_by_virt(p) :
        /\ pager_pages[i].present
        /\ accessed' = accessed \cup {i}
        /\ ram' = [ram EXCEPT ![pager_pages[i].phys_addr] = v]
  BY DEF Store
<1>2. /\ pager_pages' = pager_pages /\ frame_pages' = frame_pages /\ clock_hand' = clock_hand
      /\ usage_tick' = usage_tick /\ current_algorithm' = current_algorithm /\ swap' = swap
      /\ stopped' = stopped
  BY DEF Store
<1>3. current_algorithm' \in {"clock", "lru"} /\ stopped' \in BOOLEAN
  BY <1>2 DEF PagerInv, TablesExact, PagerTypeOK
<1>4. accessed' \in SUBSET Entries
  BY <1>1, Lookups
<1>5. ram' \in [FRAMES -> VALUES]
  BY <1>1
<1>6. Unmoved
  BY <1>2, <1>3, <1>4, <1>5, SameTable
<1>7. Marked
  BY <1>2 DEF Marked
<1> QED BY <1>1, <1>2, <1>6, <1>7 DEF Stored

\* Choosing the algorithm moves no page.
LEMMA AlgorithmStep ==
  ASSUME PagerInv, NEW a \in {"clock", "lru"}, pager_set_algorithm(a)
  PROVE  Quiet
<1> USE Typed
<1>1. /\ pager_pages' = pager_pages /\ frame_pages' = frame_pages /\ clock_hand' = clock_hand
      /\ usage_tick' = usage_tick /\ accessed' = accessed /\ swap' = swap /\ ram' = ram
      /\ current_algorithm' = a /\ stopped' = stopped
  BY DEF pager_set_algorithm
<1>2. stopped' \in BOOLEAN
  BY <1>1 DEF PagerInv, TablesExact, PagerTypeOK
<1>3. Unmoved
  BY <1>1, <1>2, SameTable
<1> QED BY <1>1, <1>3 DEF Quiet, Marked

\* Every step is one of these.
LEMMA PagerSteps ==
  ASSUME PagerInv, PagerNext
  PROVE  \/ op' = <<"none">> /\ ((\E i : Served(i)) \/ Quiet)
         \/ \E p \in PAGES, v \in VALUES :
              op' = <<"store", p, v>> /\ \E i \in find_page_by_virt(p) : Stored(i, v)
         \/ \E p \in PAGES :
              op' = <<"register", p>> /\ Unmoved /\ \E i : Registered(i, p, Initial)
         \/ \E p \in PAGES :
              op' = <<"unregister", p>> /\ PagerInv' /\ \E i : Unregistered(i, p)
         \/ UNCHANGED pager_vars
<1>1. ASSUME NEW p \in PAGES, pager_handle_page_fault(p) PROVE \E i : Served(i)
  <2>1. PICK i \in find_page_by_virt(p) :
          ~pager_pages[i].present /\ (PageInFree(i) \/ PageInEvict(i))
    BY <1>1 DEF pager_handle_page_fault
  <2>2. i \in Entries /\ pager_pages[i].used
    BY Lookups
  <2>3. current_algorithm' = current_algorithm /\ stopped' = stopped
    BY <1>1 DEF pager_handle_page_fault
  <2> QED BY <2>1, <2>2, <2>3 DEF Served
<1>2. ASSUME NEW p \in PAGES, FaultFails(p) \/ Load(p) \/ RegisterFails(p) PROVE Quiet
  BY <1>2, QuietSteps
<1>3. ASSUME NEW p \in PAGES, pager_pin_page_in_directory(p, TRUE) PROVE Quiet
  <2>1. Unmoved /\ Marked
    BY <1>3, PinStep
  <2>2. swap' = swap /\ ram' = ram
    BY <1>3 DEF pager_pin_page_in_directory
  <2> QED BY <2>1, <2>2 DEF Quiet
<1>4. ASSUME pager_sample_usage PROVE Quiet
  <2>1. Unmoved /\ Marked
    BY <1>4, SampleStep
  <2>2. swap' = swap /\ ram' = ram
    BY <1>4 DEF pager_sample_usage
  <2> QED BY <2>1, <2>2 DEF Quiet
<1>5. ASSUME NEW a \in {"clock", "lru"}, pager_set_algorithm(a) PROVE Quiet
  BY <1>5, AlgorithmStep
<1>6. Initial \in VALUES
  BY PagerAssumption
<1>7. CASE /\ op' = <<"none">>
           /\ \/ \E p \in PAGES :
                   \/ pager_handle_page_fault(p)
                   \/ FaultFails(p)
                   \/ Load(p)
                   \/ RegisterFails(p)
                   \/ pager_pin_page_in_directory(p, TRUE)
              \/ \E a \in {"clock", "lru"} : pager_set_algorithm(a)
              \/ pager_sample_usage
  BY <1>1, <1>2, <1>3, <1>4, <1>5, <1>7
<1>8. ASSUME NEW p \in PAGES, NEW v \in VALUES, Store(p, v)
      PROVE  \E i \in find_page_by_virt(p) : Stored(i, v)
  BY <1>8, StoreStep
<1>9. ASSUME NEW p \in PAGES, pager_register_page_data(p, Initial)
      PROVE  Unmoved /\ \E i : Registered(i, p, Initial)
  BY <1>6, <1>9, RegisterStep
<1>10. ASSUME NEW p \in PAGES, pager_unregister_page(p)
       PROVE  PagerInv' /\ \E i : Unregistered(i, p)
  BY <1>10, UnregisterStep
<1>11. CASE \E p \in PAGES :
             \/ \E v \in VALUES : Store(p, v) /\ op' = <<"store", p, v>>
             \/ pager_register_page_data(p, Initial) /\ op' = <<"register", p>>
             \/ pager_unregister_page(p) /\ op' = <<"unregister", p>>
  BY <1>8, <1>9, <1>10, <1>11
<1>12. CASE Halted
  BY <1>12 DEF Halted
<1> QED BY <1>7, <1>11, <1>12 DEF PagerNext

\* The tables are exact after every step.
LEMMA PagerStep == PagerInv /\ [PagerNext]_pager_vars => PagerInv'
<1> SUFFICES ASSUME PagerInv, [PagerNext]_pager_vars PROVE PagerInv'
  OBVIOUS
<1>1. CASE UNCHANGED pager_vars
  BY <1>1 DEF pager_vars, PagerInv, TablesExact, PagerTypeOK, FramesExact, Ticked
<1>2. ASSUME NEW i, Served(i) PROVE PagerInv'
  <2>1. i \in Entries /\ pager_pages[i].used /\ ~pager_pages[i].present
    BY <1>2 DEF Served
  <2>2. FramesAfter /\ \E f, V : Placed(i, f, V)
    <3>1. CASE PageInFree(i)
      BY <2>1, <3>1, FreePlaced
    <3>2. CASE PageInEvict(i)
      <4> HIDE DEF choose_victim_frame
      <4> QED BY <2>1, <3>2, EvictPlaced
    <3> QED BY <1>2, <3>1, <3>2 DEF Served
  <2> QED BY <1>2, <2>1, <2>2, PlacedExact DEF Served
<1>3. CASE Unmoved
  BY <1>3, UnmovedExact
<1>4. CASE PagerNext
  BY <1>1, <1>2, <1>3, <1>4, PagerSteps DEF Quiet, Stored
<1> QED BY <1>1, <1>4

\* They are exact at the start.
LEMMA PagerStart == pager_init => PagerInv
<1> SUFFICES ASSUME pager_init PROVE PagerInv
  OBVIOUS
<1>1. /\ pager_pages = [i \in Entries |-> FreePage] /\ frame_pages = <<>>
      /\ clock_hand = 0 /\ usage_tick = 0 /\ current_algorithm = "clock" /\ accessed = {}
      /\ swap \in [Entries -> VALUES] /\ ram \in [FRAMES -> VALUES]
  BY DEF pager_init
<1>2. /\ pager_pages \in [Entries -> PagerPage]
      /\ \A i \in Entries : ~pager_pages[i].used /\ ~pager_pages[i].present
                            /\ pager_pages[i].last_used_tick = 0
  BY <1>1, NewEntries
<1>3. stopped \in BOOLEAN
  BY Zenon DEF pager_init
<1>4. frame_pages \in Seq(Entries) /\ Len(frame_pages) = 0 /\ DOMAIN frame_pages = {}
  BY <1>1
<1>5. PagerTypeOK
  BY <1>1, <1>2, <1>3, <1>4, Sizes DEF PagerTypeOK
<1>6. FramesExact
  BY <1>2, <1>4 DEF FramesExact
<1>7. Ticked
  BY <1>1, <1>2 DEF Ticked
<1> QED BY <1>5, <1>6, <1>7 DEF PagerInv, TablesExact

\* For every number of pages and frames, under both algorithms: the frame table
\* lists the resident pages, each once, no physical page is shared, no page has
\* two entries, and the clock hand stays inside.
THEOREM TablesAlwaysExact == PagerSpec => []TablesExact
<1>1. PagerInv => TablesExact
  BY DEF PagerInv
<1> QED BY <1>1, PagerStart, PagerStep, PTL DEF PagerSpec

-----------------------------------------------------------------------------
(* The victim.                                                             *)

\* What is known of the pages a step evicts.
LEMMA Victims ==
  PagerInv /\ [PagerNext]_pager_vars =>
    \A i \in Evicted : /\ pager_pages[i].pinned => Unpinned = {}
                       /\ i \in accessed /\ ~pager_pages[i].pinned => Unpinned \subseteq accessed
<1> SUFFICES ASSUME PagerInv, [PagerNext]_pager_vars, NEW i \in Evicted
             PROVE  /\ pager_pages[i].pinned => Unpinned = {}
                    /\ i \in accessed /\ ~pager_pages[i].pinned => Unpinned \subseteq accessed
  OBVIOUS
<1> USE Typed
<1>1. /\ i \in Entries /\ pager_pages[i].present
      /\ pager_pages'[i].used /\ ~pager_pages'[i].present
  BY DEF Evicted
<1>2. ~UNCHANGED pager_vars /\ ~Unmoved
  BY <1>1 DEF pager_vars, Unmoved
<1>3. ASSUME NEW p, NEW j, Unregistered(j, p) PROVE FALSE
  <2>1. j \in Entries /\ pager_pages' = [pager_pages EXCEPT ![j] = FreePage]
    BY <1>3, Lookups DEF Unregistered
  <2> QED BY <1>1, <2>1, NewEntries
<1>4. PICK j : Served(j)
  BY <1>2, <1>3, PagerSteps DEF Quiet, Stored
<1>5. j \in Entries /\ ~pager_pages[j].present
  BY <1>4 DEF Served
<1>6. CASE PageInFree(j)
  <2>1. PICK f : Placed(j, f, {})
    BY <1>5, <1>6, FreePlaced
  <2> QED BY <1>1, <2>1 DEF Placed
<1>7. CASE PageInEvict(j)
  <2> DEFINE c == choose_victim_frame
             victim == frame_pages[c.slot + 1]
  <2>1. Full /\ Ticked /\ \E f : Placed(j, f, {victim})
    BY <1>5, <1>7, EvictPlaced DEF PagerInv
  <2>2. i = victim
    BY <1>1, <2>1 DEF Placed
  <2>3. /\ c.slot \in Slots
        /\ Pinned(c.slot) => \A h \in Slots : Pinned(h)
        /\ ~Pinned(c.slot) /\ Accessed(c.slot) => AllUsed
    BY <2>1, Choice
  <2> HIDE DEF c
  <2>4. \A k \in Unpinned : \E h \in Slots : frame_pages[h + 1] = k /\ ~Pinned(h)
    BY <2>1, FullTable DEF Unpinned, Pinned
  <2>5. pager_pages[i].pinned => Unpinned = {}
    BY <2>2, <2>3, <2>4 DEF Pinned
  <2>6. i \in accessed /\ ~pager_pages[i].pinned => Unpinned \subseteq accessed
    BY <2>2, <2>3, <2>4 DEF Pinned, Accessed, AllUsed
  <2> QED BY <2>5, <2>6
<1> QED BY <1>4, <1>6, <1>7 DEF Served

\* A page pinned by process.c is only evicted when all frames hold pinned
\* pages: the clock's second turn and the scan of LRU find any other.
THEOREM PinnedAreLast == PagerSpec => PinnedEvictedLast
<1>1. PagerInv /\ [PagerNext]_pager_vars =>
        [\A i \in Evicted : pager_pages[i].pinned => Unpinned = {}]_pager_vars
  BY Victims
<1> QED BY <1>1, PagerStart, PagerStep, PTL DEF PagerSpec, PinnedEvictedLast

\* A page used since the algorithm last looked at it is not evicted while one
\* that was not can be, whatever the ticks and wherever the clock hand is.
THEOREM UsedAreKept == PagerSpec => RecentlyUsedKept
<1>1. PagerInv /\ [PagerNext]_pager_vars =>
        [\A i \in Evicted :
           i \in accessed /\ ~pager_pages[i].pinned => Unpinned \subseteq accessed]_pager_vars
  BY Victims
<1> QED BY <1>1, PagerStart, PagerStep, PTL DEF PagerSpec, RecentlyUsedKept

-----------------------------------------------------------------------------
(* The contents of the pages.                                              *)

\* What is in the page of entry i.
Value(i) == IF pager_pages[i].present THEN ram[pager_pages[i].phys_addr] ELSE swap[i]

IsContents ==
  /\ Contents = [p \in PAGES |-> Contents[p]]
  /\ \A p \in PAGES : find_page_by_virt(p) = {} => Contents[p] = NoPage
  /\ \A p \in PAGES : \A i \in find_page_by_virt(p) : Contents[p] = Value(i) /\ Contents[p] # NoPage

\* Contents is what the entries say, since a page has one entry at most.
LEMMA ContentsExact == PagerInv => IsContents
<1> SUFFICES ASSUME PagerInv PROVE IsContents
  OBVIOUS
<1> USE Typed
<1> DEFINE V(p) == IF find_page_by_virt(p) = {} THEN NoPage
                   ELSE LET i == CHOOSE i \in find_page_by_virt(p) : TRUE IN
                        IF pager_pages[i].present THEN ram[pager_pages[i].phys_addr] ELSE swap[i]
<1>1. Contents = [p \in PAGES |-> V(p)]
  BY DEF Contents
<1>2. ASSUME NEW p \in PAGES, NEW i \in find_page_by_virt(p)
      PROVE  V(p) = Value(i) /\ V(p) # NoPage
  <2>1. find_page_by_virt(p) = {i}
    BY DEF find_page_by_virt, PagerInv, TablesExact, FramesExact
  <2>2. V(p) = Value(i)
    BY <2>1 DEF Value
  <2>3. i \in Entries
    BY Lookups
  <2>4. Value(i) \in VALUES
    BY <2>3 DEF Value, PagerInv, TablesExact, FramesExact
  <2> QED BY <2>2, <2>4, PagerAssumption
<1>3. \A p \in PAGES : find_page_by_virt(p) = {} => V(p) = NoPage
  OBVIOUS
<1> HIDE DEF V
<1>4. \A p \in PAGES : Contents[p] = V(p)
  BY <1>1
<1>5. Contents = [p \in PAGES |-> Contents[p]]
  BY <1>1
<1> QED BY <1>2, <1>3, <1>4, <1>5 DEF IsContents

\* Two states with the same lookups and the same values have the same contents.
LEMMA SameContents ==
  ASSUME PagerInv, IsContents', NEW Q \in SUBSET PAGES, IsContents,
         \A p \in Q : find_page_by_virt(p)' = find_page_by_virt(p),
         \A p \in Q : \A i \in find_page_by_virt(p) : Value(i)' = Value(i)
  PROVE  \A p \in Q : Contents'[p] = Contents[p]
<1> SUFFICES ASSUME NEW p \in Q PROVE Contents'[p] = Contents[p]
  OBVIOUS
<1>1. CASE find_page_by_virt(p) = {}
  BY <1>1 DEF IsContents
<1>2. CASE find_page_by_virt(p) # {}
  <2>1. PICK i : i \in find_page_by_virt(p)
    BY <1>2
  <2>2. Contents[p] = Value(i) /\ Contents'[p] = Value(i)'
    BY <2>1 DEF IsContents
  <2> QED BY <2>1, <2>2
<1> QED BY <1>1, <1>2

\* Lookups depend on used and page only.
LEMMA SameLookups ==
  ASSUME NEW p,
         \A j \in Entries : /\ pager_pages'[j].used = pager_pages[j].used
                            /\ pager_pages'[j].page = pager_pages[j].page
  PROVE  find_page_by_virt(p)' = find_page_by_virt(p)
BY DEF find_page_by_virt

\* A fault changes where pages are and not what is in them.
LEMMA ServedKeeps ==
  ASSUME PagerInv, NEW i, Served(i), NEW j \in Entries
  PROVE  /\ Value(j)' = Value(j)
         /\ pager_pages'[j].used = pager_pages[j].used
         /\ pager_pages'[j].page = pager_pages[j].page
<1> USE Typed
<1>1. i \in Entries /\ ~pager_pages[i].present
  BY DEF Served
<1>2. PICK f, V : Placed(i, f, V) /\ \A k \in V : pager_pages[k].present
  <2>1. CASE PageInFree(i)
    BY <1>1, <2>1, FreePlaced
  <2>2. CASE PageInEvict(i)
    <3> HIDE DEF choose_victim_frame
    <3> QED BY <1>1, <2>2, EvictPlaced
  <2> QED BY <2>1, <2>2 DEF Served
<1>3. /\ pager_pages'[j].used = pager_pages[j].used
      /\ pager_pages'[j].page = pager_pages[j].page
      /\ pager_pages'[j].present <=> (j = i \/ (pager_pages[j].present /\ j \notin V))
      /\ (j # i /\ j \notin V) => pager_pages'[j].phys_addr = pager_pages[j].phys_addr
      /\ pager_pages[j].present /\ pager_pages[j].phys_addr = f => j \in V
      /\ swap'[j] = IF j \in V THEN ram[pager_pages[j].phys_addr] ELSE swap[j]
      /\ pager_pages'[i].phys_addr = f /\ f \in FRAMES
      /\ ram' = [ram EXCEPT ![f] = swap[i]]
      /\ pager_pages[j].present => pager_pages[j].phys_addr \in FRAMES
  BY <1>2 DEF Placed, PagerInv, TablesExact, FramesExact
<1>4. Value(j)' = Value(j)
  <2>1. CASE j = i
    BY <1>1, <1>3, <2>1 DEF Value
  <2>2. CASE j # i /\ j \in V
    BY <1>2, <1>3, <2>2 DEF Value
  <2>3. CASE j # i /\ j \notin V
    BY <1>3, <2>3 DEF Value
  <2> QED BY <2>1, <2>2, <2>3
<1> QED BY <1>3, <1>4

\* The page of one entry changes, the others keep theirs.
LEMMA OnePageChanges ==
  ASSUME IsContents, IsContents', NEW p \in PAGES, NEW v,
         \A q \in PAGES \ {p} : Contents'[q] = Contents[q], Contents'[p] = v
  PROVE  Contents' = [Contents EXCEPT ![p] = v]
<1> DEFINE C == Contents
           D == Contents'
<1>1. C = [q \in PAGES |-> C[q]] /\ D = [q \in PAGES |-> D[q]]
  BY DEF IsContents
<1>2. D[p] = v /\ \A q \in PAGES \ {p} : D[q] = C[q]
  OBVIOUS
<1> HIDE DEF C, D
<1>3. D = [C EXCEPT ![p] = v]
  BY <1>1, <1>2
<1> QED BY <1>3 DEF C, D

\* Every step of the pager is a step of PagedMemory.
LEMMA MemoryStep ==
  PagerInv /\ PagerInv' /\ [PagerNext]_pager_vars => [Memory!Next]_(Memory!memory)
<1> SUFFICES ASSUME PagerInv, PagerInv', [PagerNext]_pager_vars
             PROVE  [Memory!Next]_(Memory!memory)
  OBVIOUS
<1> USE Typed
<1>1. IsContents
  BY ContentsExact
<1>2. IsContents'
  BY ContentsExact, PTL
<1>3. \A j \in Entries : pager_pages[j].present =>
        pager_pages[j].used /\ pager_pages[j].phys_addr \in FRAMES
  BY DEF PagerInv, TablesExact, FramesExact
<1>4. CASE UNCHANGED pager_vars
  <2>1. Contents' = Contents /\ op' = op
    BY <1>4 DEF pager_vars, Contents, find_page_by_virt
  <2> QED BY <2>1 DEF Memory!memory
<1>5. ASSUME op' = <<"none">>, (\E i : Served(i)) \/ Quiet PROVE Memory!Next
  <2>1. \A j \in Entries : /\ pager_pages'[j].used = pager_pages[j].used
                           /\ pager_pages'[j].page = pager_pages[j].page
                           /\ pager_pages[j].used => Value(j)' = Value(j)
    <3>1. CASE \E i : Served(i)
      BY <3>1, ServedKeeps
    <3>2. CASE Quiet
      BY <1>3, <3>2 DEF Quiet, Marked, Value
    <3> QED BY <1>5, <3>1, <3>2
  <2>2. \A p \in PAGES : find_page_by_virt(p)' = find_page_by_virt(p)
    BY <2>1, SameLookups
  <2>3. \A p \in PAGES : \A i \in find_page_by_virt(p) : Value(i)' = Value(i)
    BY <2>1, Lookups
  <2>4. \A p \in PAGES : Contents'[p] = Contents[p]
    BY <1>1, <1>2, <2>2, <2>3, SameContents
  <2>5. Contents' = Contents
    <3> DEFINE C == Contents
               D == Contents'
    <3>1. C = [q \in PAGES |-> C[q]] /\ D = [q \in PAGES |-> D[q]] /\ \A q \in PAGES : D[q] = C[q]
      BY <1>1, <1>2, <2>4 DEF IsContents
    <3> HIDE DEF C, D
    <3>2. D = C
      BY <3>1
    <3> QED BY <3>2 DEF C, D
  <2> QED BY <1>5, <2>5 DEF Memory!Next, Memory!Internal
<1>6. ASSUME NEW p \in PAGES, NEW v \in VALUES, op' = <<"store", p, v>>,
             NEW i \in find_page_by_virt(p), Stored(i, v)
      PROVE  Memory!Next
  <2>1. /\ i \in Entries /\ pager_pages[i].present /\ Marked /\ swap' = swap
        /\ ram' = [ram EXCEPT ![pager_pages[i].phys_addr] = v]
    BY <1>6, Lookups DEF Stored
  <2>2. \A q \in PAGES : find_page_by_virt(q)' = find_page_by_virt(q)
    BY <2>1, SameLookups DEF Marked
  <2>3. Value(i)' = v
    BY <1>3, <2>1 DEF Value, Marked
  <2>4. \A j \in Entries \ {i} : Value(j)' = Value(j)
    BY <1>3, <2>1 DEF Value, Marked, PagerInv, TablesExact, FramesExact
  <2>5. \A q \in PAGES \ {p} : \A j \in find_page_by_virt(q) : Value(j)' = Value(j)
    BY <2>4, Lookups
  <2>6. \A q \in PAGES \ {p} : Contents'[q] = Contents[q]
    <3> DEFINE Q == PAGES \ {p}
    <3>1. Q \in SUBSET PAGES /\ \A q \in Q : find_page_by_virt(q)' = find_page_by_virt(q)
      BY <2>2
    <3>2. \A q \in Q : \A j \in find_page_by_virt(q) : Value(j)' = Value(j)
      BY <2>5
    <3> HIDE DEF Q
    <3>3. \A q \in Q : Contents'[q] = Contents[q]
      BY <1>1, <1>2, <3>1, <3>2, SameContents
    <3> QED BY <3>3 DEF Q
  <2>7. Contents'[p] = v /\ Contents[p] # NoPage
    BY <1>1, <1>2, <2>2, <2>3 DEF IsContents
  <2>8. Contents' = [Contents EXCEPT ![p] = v]
    BY <1>1, <1>2, <2>6, <2>7, OnePageChanges
  <2> QED BY <1>6, <2>7, <2>8 DEF Memory!Next, Memory!Store
<1>7. ASSUME NEW p \in PAGES, op' = <<"register", p>>, NEW i, Registered(i, p, Initial)
      PROVE  Memory!Next
  <2>1. /\ i \in Entries /\ ~pager_pages[i].used /\ find_page_by_virt(p) = {}
        /\ \A j \in Entries \ {i} : pager_pages'[j] = pager_pages[j] /\ swap'[j] = swap[j]
        /\ pager_pages'[i] = NewPage(p) /\ swap'[i] = Initial /\ ram' = ram
    BY <1>7 DEF Registered
  <2>2. pager_pages'[i].used /\ pager_pages'[i].page = p /\ ~pager_pages'[i].present
    BY <2>1, NewEntries
  <2>3. \A q \in PAGES \ {p} : find_page_by_virt(q)' = find_page_by_virt(q)
    BY <2>1, <2>2 DEF find_page_by_virt
  <2>4. i \in find_page_by_virt(p)'
    BY <2>1, <2>2 DEF find_page_by_virt
  <2>5. Value(i)' = Initial
    BY <2>1, <2>2 DEF Value
  <2>6. \A q \in PAGES \ {p} : \A j \in find_page_by_virt(q) : Value(j)' = Value(j)
    <3> SUFFICES ASSUME NEW q \in PAGES \ {p}, NEW j \in find_page_by_virt(q)
                 PROVE  Value(j)' = Value(j)
      OBVIOUS
    <3>1. j \in Entries \ {i}
      BY <2>1, Lookups
    <3> QED BY <2>1, <3>1 DEF Value
  <2>7. \A q \in PAGES \ {p} : Contents'[q] = Contents[q]
    <3> DEFINE Q == PAGES \ {p}
    <3>1. Q \in SUBSET PAGES /\ \A q \in Q : find_page_by_virt(q)' = find_page_by_virt(q)
      BY <2>3
    <3>2. \A q \in Q : \A j \in find_page_by_virt(q) : Value(j)' = Value(j)
      BY <2>6
    <3> HIDE DEF Q
    <3>3. \A q \in Q : Contents'[q] = Contents[q]
      BY <1>1, <1>2, <3>1, <3>2, SameContents
    <3> QED BY <3>3 DEF Q
  <2>8. Contents'[p] = Initial /\ Contents[p] = NoPage
    BY <1>1, <1>2, <2>1, <2>4, <2>5 DEF IsContents
  <2>9. Contents' = [Contents EXCEPT ![p] = Initial]
    BY <1>1, <1>2, <2>7, <2>8, OnePageChanges
  <2> QED BY <1>7, <2>8, <2>9 DEF Memory!Next, Memory!Register
<1>8. ASSUME NEW p \in PAGES, op' = <<"unregister", p>>, NEW i, Unregistered(i, p)
      PROVE  Memory!Next
  <2>1. /\ i \in Entries /\ pager_pages[i].page = p /\ pager_pages[i].used
        /\ pager_pages' = [pager_pages EXCEPT ![i] = FreePage] /\ swap' = swap /\ ram' = ram
    BY <1>8, Lookups DEF Unregistered
  <2>2. ~pager_pages'[i].used /\ \A j \in Entries \ {i} : pager_pages'[j] = pager_pages[j]
    BY <2>1, NewEntries
  <2>3. \A q \in PAGES \ {p} : find_page_by_virt(q)' = find_page_by_virt(q)
    BY <2>1, <2>2 DEF find_page_by_virt
  <2>4. find_page_by_virt(p)' = {}
    BY <2>1, <2>2 DEF find_page_by_virt, PagerInv, TablesExact, FramesExact
  <2>5. \A q \in PAGES \ {p} : \A j \in find_page_by_virt(q) : Value(j)' = Value(j)
    <3> SUFFICES ASSUME NEW q \in PAGES \ {p}, NEW j \in find_page_by_virt(q)
                 PROVE  Value(j)' = Value(j)
      OBVIOUS
    <3>1. j \in Entries \ {i}
      BY <2>1, Lookups
    <3> QED BY <2>1, <2>2, <3>1 DEF Value
  <2>6. \A q \in PAGES \ {p} : Contents'[q] = Contents[q]
    <3> DEFINE Q == PAGES \ {p}
    <3>1. Q \in SUBSET PAGES /\ \A q \in Q : find_page_by_virt(q)' = find_page_by_virt(q)
      BY <2>3
    <3>2. \A q \in Q : \A j \in find_page_by_virt(q) : Value(j)' = Value(j)
      BY <2>5
    <3> HIDE DEF Q
    <3>3. \A q \in Q : Contents'[q] = Contents[q]
      BY <1>1, <1>2, <3>1, <3>2, SameContents
    <3> QED BY <3>3 DEF Q
  <2>7. Contents'[p] = NoPage
    BY <1>2, <2>4 DEF IsContents
  <2>8. Contents' = [Contents EXCEPT ![p] = NoPage]
    BY <1>1, <1>2, <2>6, <2>7, OnePageChanges
  <2> QED BY <1>8, <2>8 DEF Memory!Next, Memory!Unregister
<1>9. CASE PagerNext
  BY <1>4, <1>5, <1>6, <1>7, <1>8, <1>9, PagerSteps
<1> QED BY <1>4, <1>9

\* Demand paging cannot be seen: whatever is evicted, brought back, registered
\* and unregistered, under either algorithm, a page holds what was stored last.
THEOREM PagerImplementsMemory == PagerSpec => ImplementsMemory
<1>1. pager_init => Memory!Init
  <2> SUFFICES ASSUME pager_init PROVE Memory!Init
    OBVIOUS
  <2>1. \A p : find_page_by_virt(p) = {}
    BY NewEntries DEF pager_init, find_page_by_virt
  <2>2. IsContents
    BY PagerStart, ContentsExact
  <2>3. \A p \in PAGES : Contents[p] = NoPage
    BY <2>1, <2>2 DEF IsContents
  <2>4. Contents = [p \in PAGES |-> NoPage]
    BY <2>2, <2>3 DEF IsContents
  <2> QED BY <2>4 DEF pager_init, Memory!Init
<1> QED BY <1>1, PagerStart, PagerStep, MemoryStep, PTL DEF PagerSpec, ImplementsMemory, Memory!Spec
=============================================================================
