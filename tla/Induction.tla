----------------------------- MODULE Induction -----------------------------
(***************************************************************************)
(* Induction for the loops of the kernel, in the form the provers accept:  *)
(* the statement to be proved by induction is a set, not an operator.      *)
(* And the arithmetic of quotients and circular indexes.                   *)
(***************************************************************************)
EXTENDS Integers, WellFoundedInduction, FiniteSetTheorems, TLAPS

\* Every non-empty set of naturals has a least element.
LEMMA LeastNatural ==
  ASSUME NEW T \in SUBSET Nat, T # {}
  PROVE  \E x \in T : \A y \in T : x <= y
<1> DEFINE R == {ss \in Nat \X Nat : ss[1] < ss[2]}
<1>1. IsWellFoundedOn(OpToRel(<, Nat), Nat)
  BY NatLessThanWellFounded, Zenon
<1>2. OpToRel(<, Nat) = R
  BY Zenon DEF OpToRel
<1>3. IsWellFoundedOn(R, Nat)
  BY <1>1, <1>2, Zenon
<1>4. \E x \in T : \A y \in T : ~(<<y, x>> \in R)
  <2> HIDE DEF R
  <2> QED BY <1>3, WFMin
<1>5. PICK x \in T : \A y \in T : ~(<<y, x>> \in R)
  BY <1>4
<1>6. ASSUME NEW y \in T PROVE x <= y
  <2>1. ~(<<y, x>> \in R)
    BY <1>5
  <2>2. x \in Nat /\ y \in Nat
    OBVIOUS
  <2> QED BY <2>1, <2>2
<1> QED BY <1>6

\* A set that holds 0 and, with every n below N, its successor, holds 0 .. N:
\* what is true before a loop and kept by each pass is true after N passes.
LEMMA IntervalInduction ==
  ASSUME NEW N \in Nat, NEW T, 0 \in T,
         \A n \in 0 .. N - 1 : n \in T => n + 1 \in T
  PROVE  0 .. N \subseteq T
<1> DEFINE Bad == {n \in 0 .. N : n \notin T}
<1>1. ASSUME Bad # {} PROVE FALSE
  <2>1. Bad \in SUBSET Nat
    OBVIOUS
  <2> HIDE DEF Bad
  <2>2. PICK m \in Bad : \A y \in Bad : m <= y
    BY <1>1, <2>1, LeastNatural
  <2> USE DEF Bad
  <2>3. m # 0
    OBVIOUS
  <2>4. m - 1 \in 0 .. N - 1 /\ m - 1 \notin Bad
    BY <2>2, <2>3
  <2>5. m - 1 \in T
    BY <2>4
  <2> QED BY <2>4, <2>5
<1> QED BY <1>1

\* D is the body of a loop of N passes over the values of S, and g[k] what the
\* loop has computed after k passes, starting from f0.
IsLoopBody(D, N, S) == D \in [(1 .. N) \X S -> S]
IsLoopRun(g, f0, D, N, S) ==
  /\ g \in [0 .. N -> S]
  /\ g[0] = f0
  /\ \A k \in 1 .. N : g[k] = D[<<k, g[k - 1]>>]

\* Every loop body has a run: the recursive functions that model the loops
\* are well defined.
LEMMA RecursionExists ==
  ASSUME NEW N \in Nat, NEW S, NEW f0 \in S, NEW D, IsLoopBody(D, N, S)
  PROVE  \E g : IsLoopRun(g, f0, D, N, S)
<1> USE DEF IsLoopBody, IsLoopRun
<1> DEFINE H(n, g) == /\ g[0] = f0
                      /\ \A k \in 1 .. n : g[k] = D[<<k, g[k - 1]>>]
           T == {n \in 0 .. N : \E g \in [0 .. n -> S] : H(n, g)}
<1>1. 0 \in T
  <2> DEFINE g0 == [k \in 0 .. 0 |-> f0]
  <2>1. g0 \in [0 .. 0 -> S] /\ H(0, g0)
    OBVIOUS
  <2> HIDE DEF g0
  <2> QED BY <2>1
<1>2. ASSUME NEW n \in 0 .. N - 1, n \in T PROVE n + 1 \in T
  <2>1. PICK g \in [0 .. n -> S] : H(n, g)
    BY <1>2
  <2> DEFINE v == D[<<n + 1, g[n]>>]
             h == [k \in 0 .. n + 1 |-> IF k <= n THEN g[k] ELSE v]
  <2>2. v \in S
    <3>1. <<n + 1, g[n]>> \in (1 .. N) \X S
      OBVIOUS
    <3> QED BY <3>1
  <2>3. h \in [0 .. n + 1 -> S]
    BY <2>2
  <2>4. h[0] = f0
    BY <2>1
  <2>5. ASSUME NEW k \in 1 .. n + 1 PROVE h[k] = D[<<k, h[k - 1]>>]
    <3>1. h[k - 1] = g[k - 1]
      OBVIOUS
    <3>2. CASE k <= n
      <4>1. h[k] = g[k] /\ k \in 1 .. n
        BY <3>2
      <4> HIDE DEF h
      <4> QED BY <2>1, <3>1, <4>1
    <3>3. CASE ~(k <= n)
      <4>1. h[k] = v /\ k = n + 1 /\ k - 1 = n
        BY <3>3
      <4> HIDE DEF h
      <4> QED BY <3>1, <4>1
    <3> QED BY <3>2, <3>3
  <2> HIDE DEF h
  <2>6. H(n + 1, h)
    BY <2>4, <2>5
  <2> QED BY <2>3, <2>6
<1>3. 0 .. N \subseteq T
  <2> HIDE DEF T
  <2> QED BY <1>1, <1>2, IntervalInduction
<1>4. N \in T
  BY <1>3
<1> QED BY <1>4

\* The same for a function that takes the elements of a finite set one by one:
\* B is applied to an element and what the function gives for the others.
IsSetRun(f, x0, B, P, V) ==
  /\ f \in [SUBSET P -> V]
  /\ \A S \in SUBSET P :
       f[S] = IF S = {} THEN x0
              ELSE B[<<CHOOSE p \in S : TRUE, f[S \ {CHOOSE p \in S : TRUE}]>>]

\* Such a function exists.
LEMMA SubsetRecursion ==
  ASSUME NEW P, IsFiniteSet(P), NEW V, NEW x0 \in V, NEW B \in [P \X V -> V]
  PROVE  \E f : IsSetRun(f, x0, B, P, V)
<1> DEFINE Pick(S) == CHOOSE p \in S : TRUE
           Rest(S) == S \ {Pick(S)}
           F == [SUBSET P -> V]
           Body(f) == [S \in SUBSET P |-> IF S = {} THEN x0 ELSE B[<<Pick(S), f[Rest(S)]>>]]
           N == Cardinality(P) + 1
           D == [kf \in (1 .. N) \X F |-> Body(kf[2])]
           f0 == [S \in SUBSET P |-> x0]
<1>1. \A S \in SUBSET P : S # {} => Pick(S) \in S /\ Rest(S) \in SUBSET P
  OBVIOUS
<1>2. \A S \in SUBSET P : IsFiniteSet(S) /\ Cardinality(S) \in Nat /\ Cardinality(S) <= Cardinality(P)
  BY FS_Subset, FS_CardinalityType
<1>3. \A S \in SUBSET P : S # {} => Cardinality(Rest(S)) = Cardinality(S) - 1
  BY <1>1, <1>2, FS_RemoveElement
<1>4. Cardinality(P) \in Nat /\ N \in Nat
  BY FS_CardinalityType
<1> HIDE DEF Pick, Rest
<1>5. ASSUME NEW f \in F PROVE Body(f) \in F
  <2>1. \A S \in SUBSET P : S # {} => <<Pick(S), f[Rest(S)]>> \in P \X V
    BY <1>1
  <2> QED BY <2>1
<1>6. IsLoopBody(D, N, F)
  <2> HIDE DEF Body, F
  <2> QED BY <1>5 DEF IsLoopBody
<1>7. f0 \in F
  OBVIOUS
<1>8. PICK g : IsLoopRun(g, f0, D, N, F)
  <2> HIDE DEF f0, D, N, F
  <2> QED BY <1>4, <1>6, <1>7, RecursionExists
<1>9. ASSUME NEW k \in 1 .. N PROVE g[k] = Body(g[k - 1]) /\ g[k - 1] \in F /\ g[k] \in F
  <2>1. g[k - 1] \in F /\ g[k] \in F
    <3>1. k - 1 \in 0 .. N /\ k \in 0 .. N
      BY <1>4
    <3> HIDE DEF F, N, D, f0
    <3> QED BY <1>8, <3>1 DEF IsLoopRun
  <2>2. g[k] = D[<<k, g[k - 1]>>]
    BY <1>8 DEF IsLoopRun
  <2> HIDE DEF Body, F
  <2>3. D[<<k, g[k - 1]>>] = Body(g[k - 1])
    BY <2>1
  <2> QED BY <2>1, <2>2, <2>3
<1> DEFINE h == [S \in SUBSET P |-> g[Cardinality(S) + 1][S]]
<1>10. \A S \in SUBSET P : Cardinality(S) + 1 \in 1 .. N
  BY <1>2, <1>4
<1>11. h \in F
  BY <1>9, <1>10
<1>12. ASSUME NEW S \in SUBSET P
       PROVE  h[S] = IF S = {} THEN x0 ELSE B[<<Pick(S), h[Rest(S)]>>]
  <2> DEFINE k == Cardinality(S) + 1
  <2>1. k \in 1 .. N /\ h[S] = g[k][S]
    BY <1>10
  <2>2. g[k] = Body(g[k - 1])
    BY <1>9, <2>1
  <2>3. h[S] = IF S = {} THEN x0 ELSE B[<<Pick(S), g[k - 1][Rest(S)]>>]
    <3> HIDE DEF k, h
    <3> QED BY <2>1, <2>2
  <2>4. ASSUME S # {} PROVE h[Rest(S)] = g[k - 1][Rest(S)]
    <3>1. Rest(S) \in SUBSET P /\ Cardinality(Rest(S)) + 1 = k - 1
      BY <1>1, <1>2, <1>3, <2>4
    <3> HIDE DEF k
    <3> QED BY <3>1
  <2> QED BY <2>3, <2>4
<1> HIDE DEF h
<1> QED BY <1>11, <1>12 DEF Pick, Rest, IsSetRun

\* What holds of the empty set, and of a set when it holds without the chosen
\* element, holds of every subset of P.
LEMMA SubsetInduction ==
  ASSUME NEW P, IsFiniteSet(P), NEW T, {} \in T,
         \A S \in SUBSET P : S # {} /\ S \ {CHOOSE p \in S : TRUE} \in T => S \in T
  PROVE  SUBSET P \subseteq T
<1> DEFINE Pick(S) == CHOOSE p \in S : TRUE
           N == Cardinality(P)
           K == {n \in 0 .. N : \A S \in SUBSET P : Cardinality(S) = n => S \in T}
<1>1. N \in Nat
  BY FS_CardinalityType
<1>2. \A S \in SUBSET P : IsFiniteSet(S) /\ Cardinality(S) \in 0 .. N
  BY <1>1, FS_Subset, FS_CardinalityType
<1>3. 0 \in K
  <2>1. \A S \in SUBSET P : Cardinality(S) = 0 => S = {}
    BY <1>2, FS_EmptySet
  <2> QED BY <1>1, <2>1
<1>4. ASSUME NEW n \in 0 .. N - 1, n \in K PROVE n + 1 \in K
  <2>1. ASSUME NEW S \in SUBSET P, Cardinality(S) = n + 1 PROVE S \in T
    <3>1. S # {}
      BY <2>1, FS_EmptySet
    <3> DEFINE x == Pick(S)
               R == S \ {x}
    <3>2. x \in S
      BY <3>1
    <3> HIDE DEF x
    <3>3. Cardinality(R) = Cardinality(S) - 1 /\ R \in SUBSET P
      BY <1>2, <3>2, FS_RemoveElement
    <3>4. Cardinality(R) = n
      BY <2>1, <3>3
    <3> HIDE DEF R
    <3>5. R \in T
      BY <1>4, <3>3, <3>4
    <3> QED BY <3>1, <3>5 DEF x, R
  <2> QED BY <1>1, <2>1
<1> HIDE DEF K
<1>5. 0 .. N \subseteq K
  BY <1>1, <1>3, <1>4, IntervalInduction
<1>6. ASSUME NEW S \in SUBSET P PROVE S \in T
  <2>1. Cardinality(S) \in K
    BY <1>2, <1>5
  <2> QED BY <2>1 DEF K
<1> QED BY <1>6

\* Quotient and remainder.
LEMMA Division ==
  ASSUME NEW N \in Nat \ {0}, NEW a \in Nat
  PROVE  /\ a \div N \in Nat /\ a % N \in 0 .. N - 1
         /\ a = N * (a \div N) + (a % N)
<1>1. a % N \in 0 .. N - 1 /\ a = N * (a \div N) + (a % N) /\ a \div N \in Int
  OBVIOUS
<1> DEFINE q == a \div N
           r == a % N
<1>2. r \in 0 .. N - 1 /\ a = N * q + r /\ q \in Int
  BY <1>1
<1> HIDE DEF q, r
<1>3. q >= 0
  <2>1. q <= -1 => N * q <= -N
    BY <1>2
  <2> QED BY <1>2, <2>1
<1>4. q \in Nat
  BY <1>2, <1>3
<1> QED BY <1>2, <1>4 DEF q, r

\* There is only one quotient.
LEMMA QuotientUnique ==
  ASSUME NEW N \in Nat \ {0}, NEW a \in Nat, NEW q \in Int, NEW r \in 0 .. N - 1, a = N * q + r
  PROVE  a \div N = q /\ a % N = r
<1> DEFINE p == a \div N
           s == a % N
<1>1. p \in Nat /\ s \in 0 .. N - 1 /\ a = N * p + s
  BY Division
<1> HIDE DEF p, s
<1>2. p = q
  <2>1. p <= q - 1 => N * p <= N * q - N
    BY <1>1
  <2>2. q <= p - 1 => N * q <= N * p - N
    BY <1>1
  <2> QED BY <1>1, <2>1, <2>2
<1>3. s = r
  BY <1>1, <1>2
<1> QED BY <1>2, <1>3 DEF p, s

\* A bound on the quotient is a bound on the number.
LEMMA QuotientBound ==
  ASSUME NEW N \in Nat \ {0}, NEW a \in Nat, NEW p \in Int
  PROVE  /\ p < a \div N <=> (p + 1) * N <= a
         /\ a \div N <= p <=> a < (p + 1) * N
<1> DEFINE q == a \div N
           r == a % N
<1>1. q \in Nat /\ r \in 0 .. N - 1 /\ a = N * q + r
  BY Division
<1> HIDE DEF q, r
<1>2. p <= q - 1 => (p + 1) * N <= N * q
  BY <1>1
<1>3. q <= p => N * q <= p * N
  BY <1>1
<1>4. (p + 1) * N = p * N + N /\ p * N \in Int /\ N * q \in Int
  BY <1>1
<1>5. p < q <=> (p + 1) * N <= a
  BY <1>1, <1>2, <1>3, <1>4
<1>6. q <= p <=> a < (p + 1) * N
  BY <1>1, <1>5
<1> QED BY <1>5, <1>6 DEF q

\* The index arithmetic of the circular scans and buffers: % N wraps once.
LEMMA WrapAround ==
  ASSUME NEW N \in Nat \ {0}, NEW a \in 0 .. 2 * N - 1
  PROVE  a % N = IF a < N THEN a ELSE a - N
<1>1. a % N \in 0 .. N - 1 /\ a = N * (a \div N) + (a % N) /\ a \div N \in Int
  OBVIOUS
<1> DEFINE q == a \div N
           r == a % N
<1>2. r \in 0 .. N - 1 /\ a = N * q + r /\ q \in Int
  BY <1>1
<1> HIDE DEF q, r
<1>3. q >= 0
  <2>1. q <= -1 => N * q <= -N
    BY <1>2
  <2> QED BY <1>2, <2>1
<1>4. q <= 1
  <2>1. q >= 2 => N * q >= 2 * N
    BY <1>2
  <2> QED BY <1>2, <2>1
<1>5. q = 0 \/ q = 1
  BY <1>2, <1>3, <1>4
<1>6. r = IF a < N THEN a ELSE a - N
  BY <1>2, <1>5
<1> QED BY <1>6 DEF r

\* The index of the k-th element of a ring from c on, the distance from c to
\* an index, and the index that follows one, all without %.
LEMMA RingIndexes ==
  ASSUME NEW N \in Nat \ {0}, NEW c \in 0 .. N - 1
  PROVE  /\ \A k \in 1 .. N :
              /\ (c + k - 1) % N = IF c + k - 1 < N THEN c + k - 1 ELSE c + k - 1 - N
              /\ (c + k - 1) % N \in 0 .. N - 1
         /\ \A i \in 0 .. N - 1 :
              /\ (i + N - c) % N = IF i < c THEN i + N - c ELSE i - c
              /\ (i + N - c) % N \in 0 .. N - 1
         /\ (c + 1) % N = IF c + 1 = N THEN 0 ELSE c + 1
         /\ (c + 1) % N \in 0 .. N - 1
<1>1. ASSUME NEW a, a \in 0 .. 2 * N - 1 PROVE a % N = IF a < N THEN a ELSE a - N
  BY <1>1, WrapAround
<1>2. ASSUME NEW k \in 1 .. N
      PROVE  (c + k - 1) % N = IF c + k - 1 < N THEN c + k - 1 ELSE c + k - 1 - N
  <2> DEFINE a == c + k - 1
  <2>1. a \in 0 .. 2 * N - 1
    OBVIOUS
  <2> HIDE DEF a
  <2>2. a % N = IF a < N THEN a ELSE a - N
    BY <1>1, <2>1
  <2> QED BY <2>2 DEF a
<1>3. ASSUME NEW i \in 0 .. N - 1
      PROVE  (i + N - c) % N = IF i < c THEN i + N - c ELSE i - c
  <2> DEFINE a == i + N - c
  <2>1. a \in 0 .. 2 * N - 1
    OBVIOUS
  <2> HIDE DEF a
  <2>2. a % N = IF a < N THEN a ELSE a - N
    BY <1>1, <2>1
  <2>3. (i + N - c) % N = IF i + N - c < N THEN i + N - c ELSE i + N - c - N
    BY <2>2 DEF a
  <2> QED BY <2>3
<1>4. (c + 1) % N = IF c + 1 = N THEN 0 ELSE c + 1
  <2> DEFINE a == c + 1
  <2>1. a \in 0 .. 2 * N - 1
    OBVIOUS
  <2> HIDE DEF a
  <2>2. a % N = IF a < N THEN a ELSE a - N
    BY <1>1, <2>1
  <2>3. (c + 1) % N = IF c + 1 < N THEN c + 1 ELSE c + 1 - N
    BY <2>2 DEF a
  <2> QED BY <2>3
<1>5. \A k \in 1 .. N : (c + k - 1) % N \in 0 .. N - 1
  BY <1>2
<1>6. \A i \in 0 .. N - 1 : (i + N - c) % N \in 0 .. N - 1
  BY <1>3
<1>7. (c + 1) % N \in 0 .. N - 1
  BY <1>4
<1> QED BY <1>2, <1>3, <1>4, <1>5, <1>6, <1>7
=============================================================================
