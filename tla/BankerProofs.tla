---------------------------- MODULE BankerProofs ----------------------------
(***************************************************************************)
(* Proofs about Banker, for every size of the table, every set of          *)
(* resources, pids and amounts: the table stays exact, resources are never *)
(* created, the loop of banker_state_is_safe decides safety, and a request *)
(* is only granted when the state it leads to is safe.                     *)
(***************************************************************************)
EXTENDS Banker, Induction, FiniteSetTheorems

MAX == BANKER_MAX_PROCESSES

\* What the parameters are known to be.
LEMMA Sizes ==
  MAX \in Nat \ {0} /\ BANKER_MAX_PROCESSES = MAX /\ Entries = 0 .. MAX - 1
BY BankerAssumption DEF MAX, Entries

\* A vector typed by the user is a vector.
LEMMA InputVectors == Inputs \subseteq Vector /\ Zero \in Vector
BY BankerAssumption DEF Inputs, Vector, Zero

\* Adding and taking off what fits.
LEMMA VectorArithmetic ==
  ASSUME NEW v \in Vector, NEW w \in Vector
  PROVE  /\ Plus(v, w) \in Vector /\ \A r \in RESOURCES : Plus(v, w)[r] = v[r] + w[r]
         /\ vector_leq(w, v) => Minus(v, w) \in Vector
         /\ \A r \in RESOURCES : Minus(v, w)[r] = v[r] - w[r]
BY DEF Plus, Minus, vector_leq, Vector

\* The five operations as changes of one entry.
EntryStep(i, p, avail) ==
  /\ banker_processes' = [banker_processes EXCEPT ![i] = p]
  /\ available' = avail
  /\ total' = total /\ banker_ready' = banker_ready

Claim(pid, max) == [used |-> TRUE, pid |-> pid, max |-> max, allocation |-> Zero, need |-> max]

\* The entry after a request or a release.
Moved(p, allocation, need) == [p EXCEPT !.allocation = allocation, !.need = need]

\* The table after Take and after GiveBack, as a change of one entry.
LEMMA TakesAndGivesBack ==
  ASSUME NEW claims \in [Entries -> BankerProcess], NEW i \in Entries, NEW v
  PROVE  /\ Take(claims, i, v)
              = [claims EXCEPT ![i] = Moved(claims[i], Plus(claims[i].allocation, v),
                                            Minus(claims[i].need, v))]
         /\ GiveBack(claims, i, v)
              = [claims EXCEPT ![i] = Moved(claims[i], Minus(claims[i].allocation, v),
                                            Plus(claims[i].need, v))]
BY DEF Take, GiveBack, Moved, BankerProcess

\* The roll-back of a request that passed both tests restores the claim, every
\* other entry and what is available.
LEMMA RollsBack ==
  ASSUME BankerTypeOK, NEW i \in Entries, NEW v \in Vector,
         vector_leq(v, banker_processes[i].need), vector_leq(v, available)
  PROVE  /\ GiveBack(Take(banker_processes, i, v), i, v) = banker_processes
         /\ Plus(Minus(available, v), v) = available
<1> DEFINE p == banker_processes[i]
           q == Moved(p, Plus(p.allocation, v), Minus(p.need, v))
           claims == Take(banker_processes, i, v)
<1>1. /\ banker_processes \in [Entries -> BankerProcess] /\ available \in Vector
      /\ p \in BankerProcess /\ p.allocation \in Vector /\ p.need \in Vector
  BY DEF BankerTypeOK, BankerProcess
<1>2. \A w \in Vector : /\ Minus(Plus(w, v), v) = w
                         /\ Plus(Minus(w, v), v) = w
  BY DEF Plus, Minus, Vector
<1>3. claims = [banker_processes EXCEPT ![i] = q]
  BY <1>1, TakesAndGivesBack
<1>4. /\ Plus(p.allocation, v) \in Vector /\ Minus(p.need, v) \in Vector
  BY <1>1, VectorArithmetic
<1>5. /\ q \in BankerProcess /\ q.allocation = Plus(p.allocation, v)
      /\ q.need = Minus(p.need, v)
  BY <1>1, <1>4 DEF Moved, BankerProcess
<1>6. claims \in [Entries -> BankerProcess] /\ claims[i] = q
  BY <1>1, <1>3, <1>5
<1>7. GiveBack(claims, i, v) = [claims EXCEPT ![i] = Moved(q, p.allocation, p.need)]
  <2> HIDE DEF claims, q
  <2> QED BY <1>1, <1>2, <1>5, <1>6, TakesAndGivesBack
<1>8. Moved(q, p.allocation, p.need) = p
  BY <1>1 DEF Moved, BankerProcess
<1>9. GiveBack(claims, i, v) = banker_processes
  <2> HIDE DEF claims, q, p
  <2> QED BY <1>1, <1>3, <1>7, <1>8 DEF p
<1> QED BY <1>1, <1>2, <1>9

\* What a step does: it starts anew, or changes one entry that find_slot_by_pid
\* found, or fills one that find_free_slot found, or, when a request is rolled
\* back, changes nothing.
LEMMA BankerSteps ==
  ASSUME BankerTypeOK, BankerNext
  PROVE  \/ \E v \in Vector : banker_init(v)
         \/ \E i \in Entries, pid \in Nat, v \in Vector :
              /\ EntryStep(i, Claim(pid, v), available)
              /\ \/ i \in Claims /\ banker_processes[i].pid = pid
                 \/ \A j \in Claims : banker_processes[j].pid # pid
         \/ \E i \in Claims :
              EntryStep(i, FreeEntry, Plus(available, banker_processes[i].allocation))
         \/ \E i \in Claims, v \in Vector :
              LET p == banker_processes[i] IN
              /\ vector_leq(v, p.need) /\ vector_leq(v, available)
              /\ banker_state_is_safe(banker_processes', available')
              /\ EntryStep(i, Moved(p, Plus(p.allocation, v), Minus(p.need, v)),
                           Minus(available, v))
         \/ \E i \in Claims, v \in Vector :
              LET p == banker_processes[i] IN
              /\ vector_leq(v, p.allocation)
              /\ EntryStep(i, Moved(p, Minus(p.allocation, v), Plus(p.need, v)),
                           Plus(available, v))
         \/ UNCHANGED bvars
<1>1. CASE \E v \in Inputs : banker_init(v)
  BY <1>1, InputVectors
<1>2. ASSUME NEW pid \in PIDS, NEW v \in Inputs, banker_register_process(pid, v)
      PROVE  \E i \in Entries, q \in Nat, w \in Vector :
               /\ EntryStep(i, Claim(q, w), available)
               /\ \/ i \in Claims /\ banker_processes[i].pid = q
                  \/ \A j \in Claims : banker_processes[j].pid # q
  <2>1. pid \in Nat /\ v \in Vector
    BY BankerAssumption, InputVectors
  <2>2. PICK i \in Entries :
           /\ \/ find_slot_by_pid(pid, i)
              \/ /\ \A j \in Claims : banker_processes[j].pid # pid
                 /\ find_free_slot(i)
           /\ banker_processes' = [banker_processes EXCEPT ![i] =
                [used |-> TRUE, pid |-> pid, max |-> v, allocation |-> Zero, need |-> v]]
    BY <1>2 DEF banker_register_process
  <2>3. EntryStep(i, Claim(pid, v), available)
    BY <1>2, <2>2 DEF EntryStep, Claim, banker_register_process
  <2>4. \/ i \in Claims /\ banker_processes[i].pid = pid
        \/ \A j \in Claims : banker_processes[j].pid # pid
    BY <2>2 DEF find_slot_by_pid
  <2> QED BY <2>1, <2>3, <2>4
<1>3. ASSUME NEW pid \in PIDS, banker_unregister_process(pid)
      PROVE  \E i \in Claims :
               EntryStep(i, FreeEntry, Plus(available, banker_processes[i].allocation))
  BY <1>3 DEF banker_unregister_process, EntryStep, find_slot_by_pid
<1>4. ASSUME NEW pid \in PIDS, NEW v \in Inputs, banker_request(pid, v)
      PROVE  \/ \E i \in Claims, w \in Vector :
                  LET p == banker_processes[i] IN
                  /\ vector_leq(w, p.need) /\ vector_leq(w, available)
                  /\ banker_state_is_safe(banker_processes', available')
                  /\ EntryStep(i, Moved(p, Plus(p.allocation, w), Minus(p.need, w)),
                               Minus(available, w))
             \/ UNCHANGED bvars
  <2>1. PICK i \in Entries :
          LET trial == Take(banker_processes, i, v)
              rest == Minus(available, v) IN
          /\ find_slot_by_pid(pid, i)
          /\ vector_leq(v, banker_processes[i].need)
          /\ vector_leq(v, available)
          /\ \/ /\ banker_state_is_safe(trial, rest)
                /\ banker_processes' = trial
                /\ available' = rest
             \/ /\ ~banker_state_is_safe(trial, rest)
                /\ banker_processes' = GiveBack(trial, i, v)
                /\ available' = Plus(rest, v)
    BY <1>4 DEF banker_request
  <2>2. i \in Claims /\ v \in Vector
    BY <2>1, InputVectors DEF find_slot_by_pid
  <2>3. banker_processes \in [Entries -> BankerProcess]
    BY DEF BankerTypeOK
  <2>4. UNCHANGED <<banker_ready, total>>
    BY <1>4 DEF banker_request
  <2>5. CASE banker_processes' = Take(banker_processes, i, v) /\ available' = Minus(available, v)
             /\ banker_state_is_safe(Take(banker_processes, i, v), Minus(available, v))
    <3>1. EntryStep(i, Moved(banker_processes[i], Plus(banker_processes[i].allocation, v),
                             Minus(banker_processes[i].need, v)), Minus(available, v))
      BY <2>3, <2>4, <2>5, TakesAndGivesBack DEF EntryStep
    <3>2. banker_state_is_safe(banker_processes', available')
      BY <2>5
    <3> QED BY <2>1, <2>2, <3>1, <3>2
  <2>6. CASE /\ banker_processes' = GiveBack(Take(banker_processes, i, v), i, v)
             /\ available' = Plus(Minus(available, v), v)
    <3>1. banker_processes' = banker_processes /\ available' = available
      BY <2>1, <2>2, <2>6, RollsBack
    <3> QED BY <2>4, <3>1 DEF bvars
  <2> QED BY <2>1, <2>5, <2>6
<1>5. ASSUME NEW pid \in PIDS, NEW v \in Inputs, banker_release(pid, v)
      PROVE  \E i \in Claims, w \in Vector :
               LET p == banker_processes[i] IN
               /\ vector_leq(w, p.allocation)
               /\ EntryStep(i, Moved(p, Minus(p.allocation, w), Plus(p.need, w)),
                            Plus(available, w))
  <2>1. PICK i \in Entries :
          /\ find_slot_by_pid(pid, i)
          /\ vector_leq(v, banker_processes[i].allocation)
          /\ banker_processes' = GiveBack(banker_processes, i, v)
          /\ available' = Plus(available, v)
    BY <1>5 DEF banker_release
  <2>2. i \in Claims /\ v \in Vector
    BY <2>1, InputVectors DEF find_slot_by_pid
  <2>3. banker_processes \in [Entries -> BankerProcess]
    BY DEF BankerTypeOK
  <2>4. EntryStep(i, Moved(banker_processes[i], Minus(banker_processes[i].allocation, v),
                           Plus(banker_processes[i].need, v)), Plus(available, v))
    BY <1>5, <2>1, <2>3, TakesAndGivesBack DEF EntryStep, banker_release
  <2> QED BY <2>1, <2>2, <2>4
<1> QED BY <1>1, <1>2, <1>3, <1>4, <1>5 DEF BankerNext

-----------------------------------------------------------------------------
(* The table.                                                              *)

\* An entry whose claim is exact.
Exact(p) == p \in BankerProcess /\ \A r \in RESOURCES : p.allocation[r] + p.need[r] = p.max[r]

\* A step of one entry keeps the table exact when the entry it writes is exact,
\* and its pid that of no other claim.
LEMMA EntryStepExact ==
  ASSUME TableExact, NEW i \in Entries, NEW p, NEW avail \in Vector,
         EntryStep(i, p, avail), Exact(p),
         p.used => \A j \in Claims : banker_processes[j].pid = p.pid => j = i
  PROVE  TableExact'
<1>1. /\ banker_processes \in [Entries -> BankerProcess] /\ total \in Vector
      /\ banker_ready \in BOOLEAN /\ NeedExact /\ OneClaimPerPid
  BY DEF TableExact, BankerTypeOK
<1>2. banker_processes' \in [Entries -> BankerProcess] /\ available' \in Vector
  BY <1>1 DEF EntryStep, Exact
<1>3. BankerTypeOK'
  BY <1>1, <1>2, Zenon DEF BankerTypeOK, EntryStep
<1>4. banker_processes'[i] = p /\ \A j \in Entries \ {i} : banker_processes'[j] = banker_processes[j]
  BY <1>1 DEF EntryStep
<1>5. NeedExact'
  BY <1>1, <1>4 DEF NeedExact, Exact
<1>6. OneClaimPerPid'
  <2>1. \A j \in Claims' : j # i => j \in Claims
    BY <1>4 DEF Claims
  <2>2. i \in Claims' => p.used
    BY <1>4 DEF Claims
  <2>3. \A j \in Claims' : j \in Entries
    BY DEF Claims
  <2> QED BY <1>1, <1>4, <2>1, <2>2, <2>3 DEF OneClaimPerPid
<1> QED BY <1>3, <1>5, <1>6 DEF TableExact

\* The entries the operations write are exact.
LEMMA ExactEntries ==
  /\ Exact(FreeEntry) /\ ~FreeEntry.used
  /\ \A pid \in Nat, v \in Vector : Exact(Claim(pid, v)) /\ Claim(pid, v).pid = pid
<1>1. Zero \in Vector /\ \A r \in RESOURCES : Zero[r] = 0
  BY DEF Zero, Vector
<1>2. \A pid \in Nat, v \in Vector : Exact(Claim(pid, v)) /\ Claim(pid, v).pid = pid
  BY <1>1 DEF Exact, Claim, BankerProcess, Vector
<1>3. FreeEntry \in BankerProcess /\ FreeEntry.used = FALSE
  BY <1>1 DEF FreeEntry, BankerProcess, NoPid
<1>4. Exact(FreeEntry)
  BY <1>1, <1>3 DEF Exact, FreeEntry
<1> QED BY <1>2, <1>3, <1>4

\* What is taken from need goes to allocation, and back.
LEMMA ExactMoves ==
  ASSUME NEW p, Exact(p), NEW v \in Vector
  PROVE  /\ p.allocation \in Vector /\ p.need \in Vector
         /\ vector_leq(v, p.need) =>
              LET q == Moved(p, Plus(p.allocation, v), Minus(p.need, v)) IN
              /\ Exact(q) /\ q.used = p.used /\ q.pid = p.pid
              /\ \A r \in RESOURCES : q.allocation[r] = p.allocation[r] + v[r]
         /\ vector_leq(v, p.allocation) =>
              LET q == Moved(p, Minus(p.allocation, v), Plus(p.need, v)) IN
              /\ Exact(q) /\ q.used = p.used /\ q.pid = p.pid
              /\ \A r \in RESOURCES : q.allocation[r] = p.allocation[r] - v[r]
<1>1. p \in BankerProcess /\ p.allocation \in Vector /\ p.need \in Vector /\ p.max \in Vector
  BY DEF Exact, BankerProcess
<1>2. ASSUME NEW a \in Vector, NEW n \in Vector,
             \A r \in RESOURCES : a[r] + n[r] = p.max[r]
      PROVE  LET q == Moved(p, a, n) IN
             Exact(q) /\ q.used = p.used /\ q.pid = p.pid /\ q.allocation = a
  BY <1>1, <1>2 DEF Moved, Exact, BankerProcess
<1>3. ASSUME vector_leq(v, p.need)
      PROVE  LET q == Moved(p, Plus(p.allocation, v), Minus(p.need, v)) IN
              /\ Exact(q) /\ q.used = p.used /\ q.pid = p.pid
              /\ \A r \in RESOURCES : q.allocation[r] = p.allocation[r] + v[r]
  <2> DEFINE a == Plus(p.allocation, v)
             n == Minus(p.need, v)
  <2>1. /\ a \in Vector /\ n \in Vector
        /\ \A r \in RESOURCES : a[r] = p.allocation[r] + v[r] /\ n[r] = p.need[r] - v[r]
    BY <1>1, <1>3, VectorArithmetic
  <2>2. \A r \in RESOURCES : a[r] + n[r] = p.max[r]
    <3> HIDE DEF a, n
    <3> QED BY <1>1, <2>1 DEF Vector, Exact
  <2> HIDE DEF a, n
  <2>3. LET q == Moved(p, a, n) IN
        Exact(q) /\ q.used = p.used /\ q.pid = p.pid /\ q.allocation = a
    BY <1>2, <2>1, <2>2
  <2> QED BY <2>1, <2>3 DEF a, n
<1>4. ASSUME vector_leq(v, p.allocation)
      PROVE  LET q == Moved(p, Minus(p.allocation, v), Plus(p.need, v)) IN
              /\ Exact(q) /\ q.used = p.used /\ q.pid = p.pid
              /\ \A r \in RESOURCES : q.allocation[r] = p.allocation[r] - v[r]
  <2> DEFINE a == Minus(p.allocation, v)
             n == Plus(p.need, v)
  <2>1. /\ a \in Vector /\ n \in Vector
        /\ \A r \in RESOURCES : a[r] = p.allocation[r] - v[r] /\ n[r] = p.need[r] + v[r]
    BY <1>1, <1>4, VectorArithmetic
  <2>2. \A r \in RESOURCES : a[r] + n[r] = p.max[r]
    <3> HIDE DEF a, n
    <3> QED BY <1>1, <2>1 DEF Vector, Exact
  <2> HIDE DEF a, n
  <2>3. LET q == Moved(p, a, n) IN
        Exact(q) /\ q.used = p.used /\ q.pid = p.pid /\ q.allocation = a
    BY <1>2, <2>1, <2>2
  <2> QED BY <2>1, <2>3 DEF a, n
<1> QED BY <1>1, <1>3, <1>4

\* The table is inductive.
LEMMA TableStep == TableExact /\ [BankerNext]_bvars => TableExact'
<1> SUFFICES ASSUME TableExact, [BankerNext]_bvars PROVE TableExact'
  OBVIOUS
<1>1. /\ BankerTypeOK /\ banker_processes \in [Entries -> BankerProcess]
      /\ available \in Vector /\ OneClaimPerPid
      /\ \A i \in Entries : Exact(banker_processes[i])
      /\ \A i \in Claims : i \in Entries
  BY DEF TableExact, BankerTypeOK, NeedExact, Exact, Claims
<1>2. CASE UNCHANGED bvars
  BY <1>2 DEF bvars, TableExact, BankerTypeOK, NeedExact, OneClaimPerPid, Claims
<1>3. ASSUME NEW v \in Vector, banker_init(v) PROVE TableExact'
  <2>1. /\ banker_processes' = [i \in Entries |-> FreeEntry] /\ available' = v
        /\ total' = v /\ banker_ready' = TRUE
    BY <1>3 DEF banker_init
  <2>2. banker_ready' \in BOOLEAN
    BY <2>1, Zenon
  <2>3. FreeEntry \in BankerProcess /\ \A r \in RESOURCES :
          FreeEntry.allocation[r] + FreeEntry.need[r] = FreeEntry.max[r]
    BY ExactEntries DEF Exact
  <2>4. Claims' = {}
    BY <2>1, ExactEntries DEF Claims
  <2>5. BankerTypeOK'
    BY <2>1, <2>2, <2>3 DEF BankerTypeOK
  <2>6. NeedExact'
    BY <2>1, <2>3 DEF NeedExact
  <2>7. OneClaimPerPid'
    BY <2>4 DEF OneClaimPerPid
  <2> QED BY <2>5, <2>6, <2>7 DEF TableExact
<1>4. ASSUME NEW i \in Entries, NEW pid \in Nat, NEW v \in Vector,
             EntryStep(i, Claim(pid, v), available),
             \/ i \in Claims /\ banker_processes[i].pid = pid
             \/ \A j \in Claims : banker_processes[j].pid # pid
      PROVE  TableExact'
  <2>1. Exact(Claim(pid, v)) /\ Claim(pid, v).pid = pid
    BY ExactEntries
  <2>2. \A j \in Claims : banker_processes[j].pid = pid => j = i
    BY <1>1, <1>4 DEF OneClaimPerPid
  <2> QED BY <1>1, <1>4, <2>1, <2>2, EntryStepExact
<1>5. ASSUME NEW i \in Claims,
             EntryStep(i, FreeEntry, Plus(available, banker_processes[i].allocation))
      PROVE  TableExact'
  <2>1. Plus(available, banker_processes[i].allocation) \in Vector
    BY <1>1, VectorArithmetic DEF BankerProcess
  <2> QED BY <1>1, <1>5, <2>1, ExactEntries, EntryStepExact
<1>6. ASSUME NEW i \in Claims, NEW v \in Vector, NEW p,
             p = Moved(banker_processes[i], Plus(banker_processes[i].allocation, v),
                       Minus(banker_processes[i].need, v)),
             vector_leq(v, banker_processes[i].need), vector_leq(v, available),
             EntryStep(i, p, Minus(available, v))
      PROVE  TableExact'
  <2>1. Exact(p) /\ p.pid = banker_processes[i].pid
    BY <1>1, <1>6, ExactMoves
  <2>2. Minus(available, v) \in Vector
    BY <1>1, <1>6, VectorArithmetic
  <2>3. \A j \in Claims : banker_processes[j].pid = p.pid => j = i
    BY <1>1, <2>1 DEF OneClaimPerPid
  <2> QED BY <1>1, <1>6, <2>1, <2>2, <2>3, EntryStepExact
<1>7. ASSUME NEW i \in Claims, NEW v \in Vector, NEW p,
             p = Moved(banker_processes[i], Minus(banker_processes[i].allocation, v),
                       Plus(banker_processes[i].need, v)),
             vector_leq(v, banker_processes[i].allocation),
             EntryStep(i, p, Plus(available, v))
      PROVE  TableExact'
  <2>1. Exact(p) /\ p.pid = banker_processes[i].pid
    BY <1>1, <1>7, ExactMoves
  <2>2. Plus(available, v) \in Vector
    BY <1>1, VectorArithmetic
  <2>3. \A j \in Claims : banker_processes[j].pid = p.pid => j = i
    BY <1>1, <2>1 DEF OneClaimPerPid
  <2> QED BY <1>1, <1>7, <2>1, <2>2, <2>3, EntryStepExact
<1> QED BY <1>1, <1>2, <1>3, <1>4, <1>5, <1>6, <1>7, BankerSteps

\* The table is exact after every command, for every table, vector and pid: a
\* claim's allocation and need add up to its maximum, no vector goes below
\* zero, and a pid has one entry.
THEOREM TableAlwaysExact == BankerSpec => []TableExact
<1>1. BankerInit => TableExact
  <2> SUFFICES ASSUME BankerInit PROVE TableExact
    OBVIOUS
  <2>1. banker_ready \in BOOLEAN
    BY Zenon DEF BankerInit
  <2>2. FreeEntry \in BankerProcess /\ ~FreeEntry.used /\ \A r \in RESOURCES :
          FreeEntry.allocation[r] + FreeEntry.need[r] = FreeEntry.max[r]
    BY ExactEntries DEF Exact
  <2>3. BankerTypeOK
    BY <2>1, <2>2, InputVectors DEF BankerTypeOK, BankerInit
  <2>4. NeedExact
    BY <2>2 DEF NeedExact, BankerInit
  <2>5. OneClaimPerPid
    BY <2>2 DEF OneClaimPerPid, Claims, BankerInit
  <2> QED BY <2>3, <2>4, <2>5 DEF TableExact
<1> QED BY <1>1, TableStep, PTL DEF BankerSpec

-----------------------------------------------------------------------------
(* Sums over the table.                                                    *)

Amounts == [Entries -> Nat]

\* s[n] is the sum over the first n entries.
IsSum(s, f) ==
  /\ s \in [0 .. MAX -> Nat] /\ s[0] = 0
  /\ \A n \in 1 .. MAX : s[n] = s[n - 1] + f[n - 1]

\* Sum adds the entries up.
LEMMA SumExists ==
  ASSUME NEW f \in Amounts
  PROVE  \E s : IsSum(s, f) /\ Sum(f) = s[MAX]
<1> DEFINE D == [p \in (1 .. MAX) \X Nat |-> p[2] + f[p[1] - 1]]
           Body(g) == [n \in 0 .. MAX |-> IF n = 0 THEN 0 ELSE g[n - 1] + f[n - 1]]
<1>1. MAX \in Nat /\ Entries = 0 .. MAX - 1 /\ \A n \in 1 .. MAX : n - 1 \in Entries
  BY Sizes
<1>2. IsLoopBody(D, MAX, Nat)
  BY <1>1 DEF IsLoopBody, Amounts
<1>3. \A n \in 1 .. MAX, v \in Nat : D[<<n, v>>] = v + f[n - 1]
  OBVIOUS
<1> HIDE DEF D
<1>4. PICK g : IsLoopRun(g, 0, D, MAX, Nat)
  BY <1>1, <1>2, RecursionExists
<1>5. g \in [0 .. MAX -> Nat] /\ g[0] = 0 /\ \A n \in 1 .. MAX : g[n] = D[<<n, g[n - 1]>>]
  BY <1>4 DEF IsLoopRun
<1>6. \A n \in 1 .. MAX : n - 1 \in 0 .. MAX /\ g[n - 1] \in Nat
  BY <1>1, <1>5
<1>7. g = Body(g)
  <2>1. ASSUME NEW n \in 0 .. MAX
        PROVE  g[n] = IF n = 0 THEN 0 ELSE g[n - 1] + f[n - 1]
    <3>1. CASE n = 0
      BY <1>5, <3>1
    <3>2. CASE n # 0
      <4>1. n \in 1 .. MAX
        BY <1>1, <3>2
      <4> QED BY <1>3, <1>5, <1>6, <3>2, <4>1
    <3> QED BY <3>1, <3>2
  <2> QED BY <1>5, <2>1
<1> DEFINE s == CHOOSE h : h = Body(h)
<1>8. Sum(f) = s[MAX]
  BY DEF Sum, MAX
<1>9. s = Body(s)
  <2> HIDE DEF Body
  <2> QED BY <1>7
<1> HIDE DEF s
<1>10. s[0] = 0 /\ \A n \in 1 .. MAX : s[n] = s[n - 1] + f[n - 1]
  BY <1>1, <1>9
<1> DEFINE T == {n \in 0 .. MAX : s[n] \in Nat}
<1>11. 0 \in T
  BY <1>1, <1>10
<1>12. ASSUME NEW n \in 0 .. MAX - 1, n \in T PROVE n + 1 \in T
  <2>1. n + 1 \in 1 .. MAX /\ (n + 1) - 1 = n /\ n \in Entries /\ f[n] \in Nat
    BY <1>1 DEF Amounts
  <2>2. s[n + 1] = s[n] + f[n]
    BY <1>10, <2>1
  <2> QED BY <1>12, <2>1, <2>2
<1>13. 0 .. MAX \subseteq T
  <2> HIDE DEF T
  <2> QED BY <1>1, <1>11, <1>12, IntervalInduction
<1>14. s \in [0 .. MAX -> Nat]
  BY <1>9, <1>13
<1>15. IsSum(s, f)
  BY <1>10, <1>14 DEF IsSum
<1> QED BY <1>8, <1>15

\* A smaller amount everywhere gives a smaller sum.
LEMMA SumMonotone ==
  ASSUME NEW f \in Amounts, NEW g \in Amounts, \A i \in Entries : f[i] <= g[i]
  PROVE  Sum(f) \in Nat /\ Sum(g) \in Nat /\ Sum(f) <= Sum(g)
<1>1. PICK s : IsSum(s, f) /\ Sum(f) = s[MAX]
  BY SumExists
<1>2. PICK t : IsSum(t, g) /\ Sum(g) = t[MAX]
  BY SumExists
<1>3. MAX \in Nat /\ Entries = 0 .. MAX - 1
  BY Sizes
<1> DEFINE T == {n \in 0 .. MAX : s[n] <= t[n]}
<1>4. 0 \in T
  BY <1>1, <1>2, <1>3 DEF IsSum
<1>5. ASSUME NEW n \in 0 .. MAX - 1, n \in T PROVE n + 1 \in T
  <2>1. /\ n + 1 \in 1 .. MAX /\ (n + 1) - 1 = n /\ n \in Entries /\ n \in 0 .. MAX
        /\ f[n] \in Nat /\ g[n] \in Nat /\ f[n] <= g[n]
    BY <1>3 DEF Amounts
  <2>2. /\ s[n + 1] = s[n] + f[n] /\ t[n + 1] = t[n] + g[n]
        /\ s[n] \in Nat /\ t[n] \in Nat
    BY <1>1, <1>2, <2>1 DEF IsSum
  <2>3. s[n] <= t[n]
    BY <1>5
  <2> QED BY <2>1, <2>2, <2>3
<1>6. 0 .. MAX \subseteq T
  <2> HIDE DEF T
  <2> QED BY <1>3, <1>4, <1>5, IntervalInduction
<1>7. s[MAX] <= t[MAX] /\ s[MAX] \in Nat /\ t[MAX] \in Nat
  BY <1>1, <1>2, <1>3, <1>6 DEF IsSum
<1> QED BY <1>1, <1>2, <1>7

\* Changing one amount changes the sum by as much.
LEMMA SumChange ==
  ASSUME NEW f \in Amounts, NEW g \in Amounts, NEW i \in Entries,
         \A j \in Entries \ {i} : g[j] = f[j]
  PROVE  Sum(f) \in Nat /\ Sum(g) \in Nat /\ Sum(g) + f[i] = Sum(f) + g[i]
<1>1. PICK s : IsSum(s, f) /\ Sum(f) = s[MAX]
  BY SumExists
<1>2. PICK t : IsSum(t, g) /\ Sum(g) = t[MAX]
  BY SumExists
<1>3. MAX \in Nat /\ Entries = 0 .. MAX - 1 /\ f[i] \in Nat /\ g[i] \in Nat
  BY Sizes DEF Amounts
<1> DEFINE T == {n \in 0 .. MAX : IF n > i THEN t[n] + f[i] = s[n] + g[i] ELSE t[n] = s[n]}
<1>4. 0 \in T
  BY <1>1, <1>2, <1>3 DEF IsSum
<1>5. ASSUME NEW n \in 0 .. MAX - 1, n \in T PROVE n + 1 \in T
  <2>1. /\ n + 1 \in 1 .. MAX /\ (n + 1) - 1 = n /\ n \in Entries /\ n \in 0 .. MAX
        /\ f[n] \in Nat /\ g[n] \in Nat
        /\ n # i => g[n] = f[n]
    BY <1>3 DEF Amounts
  <2>2. /\ s[n + 1] = s[n] + f[n] /\ t[n + 1] = t[n] + g[n]
        /\ s[n] \in Nat /\ t[n] \in Nat
    BY <1>1, <1>2, <2>1 DEF IsSum
  <2>3. IF n > i THEN t[n] + f[i] = s[n] + g[i] ELSE t[n] = s[n]
    BY <1>5, Zenon
  <2> HIDE DEF T
  <2>4. CASE n < i
    <3>1. ~(n + 1 > i) /\ t[n + 1] = s[n + 1]
      BY <1>3, <2>1, <2>2, <2>3, <2>4
    <3> QED BY <2>1, <3>1 DEF T
  <2>5. CASE n >= i
    <3>1. n + 1 > i /\ t[n + 1] + f[i] = s[n + 1] + g[i]
      BY <1>3, <2>1, <2>2, <2>3, <2>5
    <3> QED BY <2>1, <3>1 DEF T
  <2> QED BY <1>3, <2>4, <2>5
<1>6. 0 .. MAX \subseteq T
  <2> HIDE DEF T
  <2> QED BY <1>3, <1>4, <1>5, IntervalInduction
<1>7. t[MAX] + f[i] = s[MAX] + g[i] /\ s[MAX] \in Nat /\ t[MAX] \in Nat
  BY <1>1, <1>2, <1>3, <1>6 DEF IsSum
<1> QED BY <1>1, <1>2, <1>7

\* Nothing adds up to nothing.
LEMMA SumNothing ==
  ASSUME NEW f \in Amounts, \A i \in Entries : f[i] = 0
  PROVE  Sum(f) = 0
<1>1. PICK s : IsSum(s, f) /\ Sum(f) = s[MAX]
  BY SumExists
<1>2. MAX \in Nat /\ Entries = 0 .. MAX - 1
  BY Sizes
<1> DEFINE T == {n \in 0 .. MAX : s[n] = 0}
<1>3. 0 \in T
  BY <1>1, <1>2 DEF IsSum
<1>4. ASSUME NEW n \in 0 .. MAX - 1, n \in T PROVE n + 1 \in T
  <2>1. n + 1 \in 1 .. MAX /\ (n + 1) - 1 = n /\ n \in Entries /\ f[n] = 0
    BY <1>2
  <2> QED BY <1>1, <1>2, <1>4, <2>1 DEF IsSum
<1>5. 0 .. MAX \subseteq T
  <2> HIDE DEF T
  <2> QED BY <1>2, <1>3, <1>4, IntervalInduction
<1> QED BY <1>1, <1>2, <1>5

-----------------------------------------------------------------------------
(* Resources are never created.                                            *)

HeldOf(S, r) == [i \in Entries |-> IF i \in S THEN banker_processes[i].allocation[r] ELSE 0]

\* What a set of entries holds is a sum of amounts.
LEMMA HeldAmounts ==
  ASSUME BankerTypeOK, NEW S, NEW r \in RESOURCES
  PROVE  HeldOf(S, r) \in Amounts /\ Held(S, r) = Sum(HeldOf(S, r)) /\ Held(S, r) \in Nat
<1>1. HeldOf(S, r) \in Amounts
  BY DEF HeldOf, Amounts, BankerTypeOK, BankerProcess, Vector
<1>2. Held(S, r) = Sum(HeldOf(S, r))
  BY DEF Held, HeldOf
<1>3. Sum(HeldOf(S, r)) \in Nat
  <2>1. \A i \in Entries : HeldOf(S, r)[i] <= HeldOf(S, r)[i]
    BY <1>1 DEF Amounts
  <2> QED BY <1>1, <2>1, SumMonotone
<1> QED BY <1>1, <1>2, <1>3

\* A step of one entry changes what is held by what that entry holds more.
LEMMA EntryStepHeld ==
  ASSUME BankerTypeOK, BankerTypeOK', NEW i \in Entries, NEW p, NEW avail,
         EntryStep(i, p, avail), NEW r \in RESOURCES
  PROVE  /\ Held(Entries, r) \in Nat /\ Held(Entries, r)' \in Nat
         /\ Held(Entries, r)' + banker_processes[i].allocation[r]
              = Held(Entries, r) + p.allocation[r]
<1> DEFINE f == HeldOf(Entries, r)
           g == [j \in Entries |-> banker_processes'[j].allocation[r]]
<1>1. f \in Amounts /\ Held(Entries, r) = Sum(f) /\ Held(Entries, r) \in Nat
  BY HeldAmounts
<1>2. g \in Amounts
  BY DEF Amounts, BankerTypeOK, BankerProcess, Vector
<1>3. Held(Entries, r)' = Sum(g)
  BY DEF Held, Entries
<1>4. /\ banker_processes'[i] = p
      /\ \A j \in Entries \ {i} : banker_processes'[j] = banker_processes[j]
  BY DEF BankerTypeOK, EntryStep
<1>5. /\ f[i] = banker_processes[i].allocation[r] /\ g[i] = p.allocation[r]
      /\ \A j \in Entries \ {i} : g[j] = f[j]
  BY <1>4 DEF HeldOf
<1> HIDE DEF f, g
<1>6. Sum(f) \in Nat /\ Sum(g) \in Nat /\ Sum(g) + f[i] = Sum(f) + g[i]
  BY <1>1, <1>2, <1>5, SumChange
<1> QED BY <1>1, <1>3, <1>5, <1>6

\* WithinTotal is inductive together with TableExact: every operation returns to
\* available at most what it takes from the allocations.
LEMMA WithinTotalStep ==
  TableExact /\ TableExact' /\ WithinTotal /\ [BankerNext]_bvars => WithinTotal'
<1> SUFFICES ASSUME TableExact, TableExact', WithinTotal, [BankerNext]_bvars
             PROVE  WithinTotal'
  OBVIOUS
<1>1. /\ BankerTypeOK /\ BankerTypeOK' /\ available \in Vector /\ total \in Vector
      /\ banker_processes \in [Entries -> BankerProcess]
      /\ \A i \in Entries : Exact(banker_processes[i])
      /\ \A i \in Claims : i \in Entries
  BY DEF TableExact, BankerTypeOK, NeedExact, Exact, Claims
<1>2. CASE UNCHANGED bvars
  BY <1>2 DEF bvars, WithinTotal, Held
<1>3. ASSUME NEW v \in Vector, banker_init(v) PROVE WithinTotal'
  <2>1. banker_processes' = [i \in Entries |-> FreeEntry] /\ available' = v /\ total' = v
    BY <1>3 DEF banker_init
  <2> SUFFICES ASSUME NEW r \in RESOURCES
               PROVE  available'[r] + Held(Entries, r)' <= total'[r]
    BY DEF WithinTotal
  <2> DEFINE g == [j \in Entries |-> banker_processes'[j].allocation[r]]
  <2>2. \A j \in Entries : g[j] = 0
    BY <2>1 DEF FreeEntry, Zero
  <2>3. g \in Amounts
    BY <2>2 DEF Amounts
  <2>4. Held(Entries, r)' = Sum(g)
    BY DEF Held, Entries
  <2> HIDE DEF g
  <2>5. Sum(g) = 0
    BY <2>2, <2>3, SumNothing
  <2> QED BY <2>1, <2>4, <2>5 DEF Vector
<1>4. ASSUME NEW i \in Entries, NEW p, NEW avail, EntryStep(i, p, avail),
             \A r \in RESOURCES :
               /\ avail[r] \in Nat /\ p.allocation[r] \in Nat
               /\ avail[r] + p.allocation[r] <= available[r] + banker_processes[i].allocation[r]
      PROVE  WithinTotal'
  <2> SUFFICES ASSUME NEW r \in RESOURCES
               PROVE  available'[r] + Held(Entries, r)' <= total'[r]
    BY DEF WithinTotal
  <2>1. /\ Held(Entries, r) \in Nat /\ Held(Entries, r)' \in Nat
        /\ Held(Entries, r)' + banker_processes[i].allocation[r]
             = Held(Entries, r) + p.allocation[r]
    BY <1>1, <1>4, EntryStepHeld
  <2>2. /\ available[r] + Held(Entries, r) <= total[r]
        /\ available[r] \in Nat /\ total[r] \in Nat /\ banker_processes[i].allocation[r] \in Nat
    BY <1>1 DEF WithinTotal, Vector, BankerProcess
  <2>3. available'[r] = avail[r] /\ total'[r] = total[r]
    BY <1>4 DEF EntryStep
  <2>4. /\ avail[r] \in Nat /\ p.allocation[r] \in Nat
        /\ avail[r] + p.allocation[r] <= available[r] + banker_processes[i].allocation[r]
    BY <1>4
  <2> QED BY <2>1, <2>2, <2>3, <2>4
<1>5. \A i \in Entries : /\ banker_processes[i].allocation \in Vector
                         /\ banker_processes[i].need \in Vector
  BY <1>1 DEF BankerProcess
<1>6. ASSUME NEW i \in Entries, NEW pid \in Nat, NEW v \in Vector,
             EntryStep(i, Claim(pid, v), available)
      PROVE  WithinTotal'
  <2>1. \A r \in RESOURCES : Claim(pid, v).allocation[r] = 0
    BY DEF Claim, Zero
  <2>2. \A r \in RESOURCES :
          /\ available[r] \in Nat /\ Claim(pid, v).allocation[r] \in Nat
          /\ available[r] + Claim(pid, v).allocation[r]
               <= available[r] + banker_processes[i].allocation[r]
    BY <1>1, <1>5, <2>1 DEF Vector
  <2> QED BY <1>4, <1>6, <2>2
<1>7. ASSUME NEW i \in Claims,
             EntryStep(i, FreeEntry, Plus(available, banker_processes[i].allocation))
      PROVE  WithinTotal'
  <2> DEFINE avail == Plus(available, banker_processes[i].allocation)
  <2>1. \A r \in RESOURCES : FreeEntry.allocation[r] = 0
    BY DEF FreeEntry, Zero
  <2>2. \A r \in RESOURCES : avail[r] = available[r] + banker_processes[i].allocation[r]
    BY <1>1, <1>5, VectorArithmetic
  <2> HIDE DEF avail
  <2>3. \A r \in RESOURCES :
          /\ avail[r] \in Nat /\ FreeEntry.allocation[r] \in Nat
          /\ avail[r] + FreeEntry.allocation[r]
               <= available[r] + banker_processes[i].allocation[r]
    BY <1>1, <1>5, <2>1, <2>2 DEF Vector
  <2>4. EntryStep(i, FreeEntry, avail)
    BY <1>7 DEF avail
  <2> QED BY <1>1, <1>4, <2>3, <2>4
<1>8. ASSUME NEW i \in Claims, NEW v \in Vector, NEW p,
             p = Moved(banker_processes[i], Plus(banker_processes[i].allocation, v),
                       Minus(banker_processes[i].need, v)),
             vector_leq(v, banker_processes[i].need), vector_leq(v, available),
             EntryStep(i, p, Minus(available, v))
      PROVE  WithinTotal'
  <2> DEFINE avail == Minus(available, v)
  <2>1. \A r \in RESOURCES : p.allocation[r] = banker_processes[i].allocation[r] + v[r]
    BY <1>1, <1>8, ExactMoves
  <2>2. avail \in Vector /\ \A r \in RESOURCES : avail[r] = available[r] - v[r]
    BY <1>1, <1>8, VectorArithmetic
  <2> HIDE DEF avail
  <2>3. \A r \in RESOURCES :
          /\ avail[r] \in Nat /\ p.allocation[r] \in Nat
          /\ avail[r] + p.allocation[r] <= available[r] + banker_processes[i].allocation[r]
    BY <1>1, <1>5, <2>1, <2>2 DEF Vector
  <2>4. EntryStep(i, p, avail)
    BY <1>8 DEF avail
  <2> QED BY <1>1, <1>4, <2>3, <2>4
<1>9. ASSUME NEW i \in Claims, NEW v \in Vector, NEW p,
             p = Moved(banker_processes[i], Minus(banker_processes[i].allocation, v),
                       Plus(banker_processes[i].need, v)),
             vector_leq(v, banker_processes[i].allocation),
             EntryStep(i, p, Plus(available, v))
      PROVE  WithinTotal'
  <2> DEFINE avail == Plus(available, v)
  <2>1. /\ \A r \in RESOURCES : p.allocation[r] = banker_processes[i].allocation[r] - v[r]
        /\ p.allocation \in Vector
    BY <1>1, <1>9, ExactMoves DEF Exact, BankerProcess
  <2>2. \A r \in RESOURCES : avail[r] = available[r] + v[r]
    BY <1>1, VectorArithmetic
  <2> HIDE DEF avail
  <2>3. \A r \in RESOURCES :
          /\ avail[r] \in Nat /\ p.allocation[r] \in Nat
          /\ avail[r] + p.allocation[r] <= available[r] + banker_processes[i].allocation[r]
    BY <1>1, <1>5, <2>1, <2>2 DEF Vector
  <2>4. EntryStep(i, p, avail)
    BY <1>9 DEF avail
  <2> QED BY <1>1, <1>4, <2>3, <2>4
<1> QED BY <1>1, <1>2, <1>3, <1>6, <1>7, <1>8, <1>9, BankerSteps

\* What is available and what is allocated never exceed what banker_init was
\* given, whatever is registered again, released or unregistered.
THEOREM ResourcesNeverCreated == BankerSpec => []WithinTotal
<1>1. BankerInit => WithinTotal
  <2> SUFFICES ASSUME BankerInit, NEW r \in RESOURCES
               PROVE  available[r] + Held(Entries, r) <= total[r]
    BY DEF WithinTotal
  <2>1. /\ banker_processes = [i \in Entries |-> FreeEntry] /\ available[r] = 0
        /\ total[r] = 0
    BY DEF BankerInit, Zero
  <2> DEFINE g == HeldOf(Entries, r)
  <2>2. \A j \in Entries : g[j] = 0
    BY <2>1 DEF FreeEntry, Zero, HeldOf
  <2>3. g \in Amounts
    BY <2>2 DEF Amounts, HeldOf
  <2>4. Held(Entries, r) = Sum(g)
    BY DEF Held, HeldOf
  <2> HIDE DEF g
  <2>5. Sum(g) = 0
    BY <2>2, <2>3, SumNothing
  <2> QED BY <2>1, <2>4, <2>5
<1> QED BY <1>1, WithinTotalStep, TableAlwaysExact, PTL DEF BankerSpec

-----------------------------------------------------------------------------
(* The loop of banker_state_is_safe.                                       *)

\* More entries hold more.
LEMMA HeldGrows ==
  ASSUME BankerTypeOK, NEW A \in SUBSET Entries, NEW B \in SUBSET Entries, A \subseteq B,
         NEW r \in RESOURCES
  PROVE  Held(A, r) <= Held(B, r)
<1>1. /\ HeldOf(A, r) \in Amounts /\ Held(A, r) = Sum(HeldOf(A, r))
      /\ HeldOf(B, r) \in Amounts /\ Held(B, r) = Sum(HeldOf(B, r))
  BY HeldAmounts
<1>2. \A i \in Entries : HeldOf(A, r)[i] <= HeldOf(B, r)[i]
  BY DEF HeldOf, BankerTypeOK, BankerProcess, Vector
<1> QED BY <1>1, <1>2, SumMonotone

\* An entry more holds what it holds more.
LEMMA HeldAdd ==
  ASSUME BankerTypeOK, NEW A \in SUBSET Entries, NEW i \in Entries \ A, NEW r \in RESOURCES
  PROVE  Held(A \cup {i}, r) = Held(A, r) + banker_processes[i].allocation[r]
<1> DEFINE B == A \cup {i}
<1>1. /\ HeldOf(A, r) \in Amounts /\ Held(A, r) = Sum(HeldOf(A, r))
      /\ HeldOf(B, r) \in Amounts /\ Held(B, r) = Sum(HeldOf(B, r))
  BY HeldAmounts
<1>2. /\ \A j \in Entries \ {i} : HeldOf(B, r)[j] = HeldOf(A, r)[j]
      /\ HeldOf(A, r)[i] = 0 /\ HeldOf(B, r)[i] = banker_processes[i].allocation[r]
  BY DEF HeldOf
<1>3. /\ Sum(HeldOf(A, r)) \in Nat /\ Sum(HeldOf(B, r)) \in Nat
      /\ Sum(HeldOf(B, r)) + HeldOf(A, r)[i] = Sum(HeldOf(A, r)) + HeldOf(B, r)[i]
  BY <1>1, <1>2, SumChange
<1> HIDE DEF B
<1>4. Held(B, r) = Held(A, r) + banker_processes[i].allocation[r]
  BY <1>1, <1>2, <1>3
<1> QED BY <1>4 DEF B

\* Some claim of S can finish with what the claims outside S return.
CanFinish(S) ==
  \E i \in S : \A r \in RESOURCES :
    banker_processes[i].need[r] <= available[r] + Held(Claims \ S, r)

LoopStates == [work : Vector, finish : SUBSET Entries]

\* What is true of work and finish throughout the loop: the entries that hold
\* nothing are finished, work is what is available and what the finished
\* claims returned, and no set that has lost a claim was stuck.
LoopOK(s) ==
  /\ s \in LoopStates
  /\ Entries \ Claims \subseteq s.finish
  /\ \A r \in RESOURCES : s.work[r] = available[r] + Held(s.finish \cap Claims, r)
  /\ \A S \in SUBSET Claims : S \cap s.finish # {} => CanFinish(S)

\* The body of the inner loop.
PassStep(k, s) ==
  LET i == k - 1 IN
  IF /\ banker_processes[i].used /\ i \notin s.finish
     /\ vector_leq(banker_processes[i].need, s.work)
  THEN [work |-> Plus(s.work, banker_processes[i].allocation), finish |-> s.finish \cup {i}]
  ELSE s

\* Later states of the loop have more work and more finished entries.
Later(s, t) ==
  s.finish \subseteq t.finish /\ \A r \in RESOURCES : s.work[r] <= t.work[r]

\* One pass of the inner loop.
LEMMA PassStepOK ==
  ASSUME BankerTypeOK, NEW k \in 1 .. MAX, NEW s, LoopOK(s)
  PROVE  LoopOK(PassStep(k, s)) /\ Later(s, PassStep(k, s))
<1> DEFINE i == k - 1
<1>1. i \in Entries /\ Claims \subseteq Entries
  BY Sizes DEF Claims
<1> HIDE DEF i
<1>2. /\ s \in LoopStates /\ s.work \in Vector /\ s.finish \subseteq Entries
      /\ banker_processes[i].allocation \in Vector /\ banker_processes[i].need \in Vector
      /\ available \in Vector
  BY <1>1 DEF LoopOK, LoopStates, BankerTypeOK, BankerProcess
<1>3. CASE /\ banker_processes[i].used /\ i \notin s.finish
           /\ vector_leq(banker_processes[i].need, s.work)
  <2> DEFINE t == [work |-> Plus(s.work, banker_processes[i].allocation),
                   finish |-> s.finish \cup {i}]
             A == s.finish \cap Claims
  <2>1. PassStep(k, s) = t
    BY <1>3 DEF PassStep, i
  <2>2. /\ t \in LoopStates /\ t.finish = s.finish \cup {i}
        /\ \A r \in RESOURCES : t.work[r] = s.work[r] + banker_processes[i].allocation[r]
    BY <1>1, <1>2, VectorArithmetic DEF LoopStates
  <2> HIDE DEF t
  <2>3. i \in Claims
    BY <1>1, <1>3 DEF Claims
  <2>4. t.finish \cap Claims = A \cup {i} /\ i \in Entries \ A /\ A \subseteq Entries
    BY <1>1, <1>3, <2>2, <2>3
  <2> HIDE DEF A
  <2>5. \A r \in RESOURCES : s.work[r] = available[r] + Held(A, r)
    BY DEF LoopOK, A
  <2>6. \A r \in RESOURCES : /\ t.work[r] = available[r] + Held(t.finish \cap Claims, r)
                             /\ s.work[r] <= t.work[r]
    <3> SUFFICES ASSUME NEW r \in RESOURCES
                 PROVE  /\ t.work[r] = available[r] + Held(t.finish \cap Claims, r)
                        /\ s.work[r] <= t.work[r]
      OBVIOUS
    <3>1. Held(A \cup {i}, r) = Held(A, r) + banker_processes[i].allocation[r]
      BY <2>4, HeldAdd
    <3>2. Held(A, r) \in Nat
      BY HeldAmounts
    <3>3. /\ available[r] \in Nat /\ banker_processes[i].allocation[r] \in Nat
          /\ s.work[r] \in Nat
      BY <1>2 DEF Vector
    <3>4. Held(t.finish \cap Claims, r) = Held(A \cup {i}, r)
      BY <2>4, Zenon
    <3>5. /\ t.work[r] = s.work[r] + banker_processes[i].allocation[r]
          /\ s.work[r] = available[r] + Held(A, r)
      BY <2>2, <2>5
    <3> QED BY <3>1, <3>2, <3>3, <3>4, <3>5
  <2>7. ASSUME NEW S \in SUBSET Claims, S \cap t.finish # {} PROVE CanFinish(S)
    <3>1. CASE S \cap s.finish # {}
      BY <3>1 DEF LoopOK
    <3>2. CASE S \cap s.finish = {}
      <4>1. i \in S /\ A \subseteq Claims \ S /\ Claims \ S \subseteq Entries
        BY <1>1, <2>2, <2>7, <3>2 DEF A
      <4>2. ASSUME NEW r \in RESOURCES
            PROVE  banker_processes[i].need[r] <= available[r] + Held(Claims \ S, r)
        <5>1. Held(A, r) <= Held(Claims \ S, r)
          BY <2>4, <4>1, HeldGrows
        <5>2. Held(A, r) \in Nat /\ Held(Claims \ S, r) \in Nat
          BY HeldAmounts
        <5>3. banker_processes[i].need[r] <= s.work[r]
          BY <1>3 DEF vector_leq
        <5>4. available[r] \in Nat /\ banker_processes[i].need[r] \in Nat
          BY <1>2 DEF Vector
        <5> QED BY <2>5, <5>1, <5>2, <5>3, <5>4
      <4> QED BY <4>1, <4>2 DEF CanFinish
    <3> QED BY <3>1, <3>2
  <2>8. Entries \ Claims \subseteq t.finish
    BY <2>2 DEF LoopOK
  <2> QED BY <2>1, <2>2, <2>6, <2>7, <2>8 DEF LoopOK, Later
<1>4. CASE ~(/\ banker_processes[i].used /\ i \notin s.finish
             /\ vector_leq(banker_processes[i].need, s.work))
  <2>1. PassStep(k, s) = s
    BY <1>4 DEF PassStep, i
  <2>2. Later(s, s)
    BY <1>2 DEF Later, Vector
  <2> QED BY <2>1, <2>2
<1> QED BY <1>3, <1>4

\* The inner loop: it keeps what LoopOK says, and every claim that fits in the
\* work it starts with is finished after it.
LEMMA SafetyPassOK ==
  ASSUME BankerTypeOK, NEW s, LoopOK(s)
  PROVE  LET t == SafetyPass(banker_processes, s) IN
         /\ LoopOK(t) /\ s.finish \subseteq t.finish
         /\ \A i \in Claims : vector_leq(banker_processes[i].need, s.work) => i \in t.finish
<1> DEFINE OK == {t \in LoopStates : LoopOK(t)}
           D == [p \in (1 .. MAX) \X OK |-> PassStep(p[1], p[2])]
           Body(f) == [k \in 0 .. MAX |-> IF k = 0 THEN s ELSE PassStep(k, f[k - 1])]
<1>1. MAX \in Nat /\ Entries = 0 .. MAX - 1 /\ Claims \subseteq Entries
  BY Sizes DEF Claims
<1>2. s \in OK
  BY DEF LoopOK
<1>3. ASSUME NEW k \in 1 .. MAX, NEW t \in OK PROVE PassStep(k, t) \in OK
  <2>1. LoopOK(PassStep(k, t))
    BY PassStepOK
  <2> QED BY <2>1 DEF LoopOK
<1>4. \A t \in OK : LoopOK(t)
  OBVIOUS
<1> HIDE DEF OK
<1>5. IsLoopBody(D, MAX, OK)
  BY <1>3 DEF IsLoopBody
<1>6. \A k \in 1 .. MAX, t \in OK : D[<<k, t>>] = PassStep(k, t)
  OBVIOUS
<1> HIDE DEF D
<1>7. PICK g : IsLoopRun(g, s, D, MAX, OK)
  BY <1>1, <1>2, <1>5, RecursionExists
<1>8. g = Body(g)
  <2>1. g \in [0 .. MAX -> OK] /\ g[0] = s /\ \A k \in 1 .. MAX : g[k] = D[<<k, g[k - 1]>>]
    BY <1>7 DEF IsLoopRun
  <2>2. ASSUME NEW k \in 0 .. MAX
        PROVE  g[k] = IF k = 0 THEN s ELSE PassStep(k, g[k - 1])
    <3>1. CASE k = 0
      BY <2>1, <3>1
    <3>2. CASE k # 0
      <4>1. k \in 1 .. MAX /\ g[k - 1] \in OK
        BY <1>1, <2>1, <3>2
      <4> QED BY <1>6, <2>1, <3>2, <4>1
    <3> QED BY <3>1, <3>2
  <2> QED BY <2>1, <2>2
<1> DEFINE W == CHOOSE f : f = Body(f)
<1>9. SafetyPass(banker_processes, s) = W[MAX]
  BY DEF SafetyPass, PassStep, MAX
<1>10. W = Body(W)
  <2> HIDE DEF Body
  <2> QED BY <1>8
<1> HIDE DEF W
<1>11. W[0] = s /\ \A k \in 1 .. MAX : W[k] = PassStep(k, W[k - 1])
  BY <1>1, <1>10
<1> DEFINE Fits(i) == i \in Claims /\ vector_leq(banker_processes[i].need, s.work)
           T == {k \in 0 .. MAX : /\ W[k] \in OK /\ Later(s, W[k])
                                  /\ \A i \in Claims : Fits(i) /\ i < k => i \in W[k].finish}
<1>12. 0 \in T
  <2>1. Later(s, s)
    BY DEF Later, LoopOK, LoopStates, Vector
  <2>2. \A i \in Claims : ~(i < 0)
    BY <1>1
  <2> QED BY <1>1, <1>2, <1>11, <2>1, <2>2
<1>13. ASSUME NEW k \in 0 .. MAX - 1, k \in T PROVE k + 1 \in T
  <2> DEFINE t == W[k]
             u == W[k + 1]
  <2>1. k + 1 \in 1 .. MAX /\ (k + 1) - 1 = k /\ k + 1 \in 0 .. MAX /\ k \in Entries
    BY <1>1
  <2>2. u = PassStep(k + 1, t)
    BY <1>11, <2>1
  <2>3. t \in OK /\ Later(s, t) /\ \A i \in Claims : Fits(i) /\ i < k => i \in t.finish
    BY <1>13
  <2>4. LoopOK(t)
    BY <1>4, <2>3
  <2> HIDE DEF t, u
  <2>5. u \in OK /\ LoopOK(u) /\ Later(t, u)
    BY <1>3, <1>4, <2>1, <2>2, <2>3, <2>4, PassStepOK
  <2>6. /\ s.work \in Vector /\ t.work \in Vector /\ u.work \in Vector
    BY <2>4, <2>5 DEF LoopOK, LoopStates
  <2>7. Later(s, u)
    BY <2>3, <2>5, <2>6 DEF Later, Vector
  <2>8. ASSUME NEW i \in Claims, Fits(i), i < k + 1 PROVE i \in u.finish
    <3>1. CASE i < k
      BY <2>3, <2>5, <2>8, <3>1 DEF Later
    <3>2. CASE i = k
      <4>1. banker_processes[k].need \in Vector
        BY <2>1 DEF BankerTypeOK, BankerProcess
      <4>2. vector_leq(banker_processes[k].need, t.work)
        BY <2>3, <2>6, <2>8, <3>2, <4>1 DEF vector_leq, Later, Vector
      <4>3. banker_processes[k].used
        BY <3>2 DEF Claims
      <4> QED BY <2>1, <2>2, <3>2, <4>2, <4>3 DEF PassStep
    <3>3. i \in Int /\ k \in Int
      BY <1>1
    <3> QED BY <2>8, <3>1, <3>2, <3>3
  <2> QED BY <2>1, <2>5, <2>7, <2>8 DEF u
<1>14. 0 .. MAX \subseteq T
  <2> HIDE DEF T
  <2> QED BY <1>1, <1>12, <1>13, IntervalInduction
<1>15. /\ W[MAX] \in OK /\ Later(s, W[MAX])
       /\ \A i \in Claims : Fits(i) /\ i < MAX => i \in W[MAX].finish
  BY <1>1, <1>14
<1>16. \A i \in Claims : i < MAX
  BY <1>1
<1> QED BY <1>4, <1>9, <1>15, <1>16 DEF Later

\* A finished set that is not all of the table grows by a pass if the state is
\* safe: the claims that are left are not stuck.
LEMMA SafetyPassProgress ==
  ASSUME BankerTypeOK, Safe, NEW s, LoopOK(s), s.finish # Entries
  PROVE  \E i \in Entries \ s.finish : i \in SafetyPass(banker_processes, s).finish
<1> DEFINE S == Claims \ s.finish
<1>1. s \in LoopStates /\ Entries \ Claims \subseteq s.finish /\ Claims \subseteq Entries
  BY DEF LoopOK, Claims
<1>2. S # {} /\ S \in SUBSET Claims /\ Claims \ S = s.finish \cap Claims
  BY <1>1 DEF LoopStates
<1> HIDE DEF S
<1>3. PICK i \in S : \A r \in RESOURCES :
         banker_processes[i].need[r] <= available[r] + Held(Claims \ S, r)
  BY <1>2 DEF Safe
<1>4. ASSUME NEW r \in RESOURCES PROVE banker_processes[i].need[r] <= s.work[r]
  <2>1. s.work[r] = available[r] + Held(s.finish \cap Claims, r)
    BY DEF LoopOK
  <2>2. Held(s.finish \cap Claims, r) = Held(Claims \ S, r)
    BY <1>2, Zenon
  <2> QED BY <1>3, <2>1, <2>2
<1>5. vector_leq(banker_processes[i].need, s.work) /\ i \in Claims /\ i \notin s.finish
  BY <1>2, <1>4 DEF vector_leq, S
<1> QED BY <1>1, <1>5, SafetyPassOK

\* The loop decides safety.  One direction is the last part of LoopOK; for the
\* other, each of as many passes as there are entries finishes one more.
LEMMA LoopExact == BankerTypeOK => LoopDecidesSafety
<1> SUFFICES ASSUME BankerTypeOK
             PROVE  banker_state_is_safe(banker_processes, available) <=> Safe
  BY DEF LoopDecidesSafety
<1> DEFINE start == [work |-> available, finish |-> {i \in Entries : ~banker_processes[i].used}]
           OK == {t \in LoopStates : LoopOK(t)}
           D == [p \in (1 .. MAX) \X OK |-> SafetyPass(banker_processes, p[2])]
           Body(f) == [n \in 0 .. MAX |->
                         IF n = 0 THEN start ELSE SafetyPass(banker_processes, f[n - 1])]
<1>1. MAX \in Nat /\ Entries = 0 .. MAX - 1 /\ Claims \subseteq Entries
  BY Sizes DEF Claims
<1>2. LoopOK(start)
  <2>1. start \in LoopStates /\ start.finish = Entries \ Claims /\ start.work = available
    BY DEF LoopStates, BankerTypeOK, Claims
  <2> HIDE DEF start
  <2>2. start.finish \cap Claims = {}
    BY <2>1
  <2>3. ASSUME NEW r \in RESOURCES PROVE start.work[r] = available[r] + Held(start.finish \cap Claims, r)
    <3>1. HeldOf({}, r) \in Amounts /\ Held({}, r) = Sum(HeldOf({}, r))
      BY HeldAmounts
    <3>2. \A i \in Entries : HeldOf({}, r)[i] = 0
      BY DEF HeldOf
    <3>3. Held({}, r) = 0
      BY <3>1, <3>2, SumNothing
    <3>4. Held(start.finish \cap Claims, r) = 0
      BY <2>2, <3>3
    <3>5. available[r] \in Nat
      BY DEF BankerTypeOK, Vector
    <3> QED BY <2>1, <3>4, <3>5
  <2>4. \A S \in SUBSET Claims : S \cap start.finish = {}
    BY <2>1
  <2> QED BY <2>1, <2>3, <2>4 DEF LoopOK
<1> HIDE DEF start
<1>3. start \in OK
  BY <1>2 DEF LoopOK
<1>4. ASSUME NEW t \in OK PROVE SafetyPass(banker_processes, t) \in OK
  <2>1. LoopOK(SafetyPass(banker_processes, t))
    BY SafetyPassOK
  <2> QED BY <2>1 DEF LoopOK
<1>5. \A t \in OK : LoopOK(t) /\ t.finish \subseteq Entries
  BY DEF LoopStates
<1> HIDE DEF OK
<1>6. IsLoopBody(D, MAX, OK)
  BY <1>4 DEF IsLoopBody
<1>7. \A n \in 1 .. MAX, t \in OK : D[<<n, t>>] = SafetyPass(banker_processes, t)
  OBVIOUS
<1> HIDE DEF D
<1>8. PICK g : IsLoopRun(g, start, D, MAX, OK)
  BY <1>1, <1>3, <1>6, RecursionExists
<1>9. g = Body(g)
  <2>1. g \in [0 .. MAX -> OK] /\ g[0] = start /\ \A n \in 1 .. MAX : g[n] = D[<<n, g[n - 1]>>]
    BY <1>8 DEF IsLoopRun
  <2>2. ASSUME NEW n \in 0 .. MAX
        PROVE  g[n] = IF n = 0 THEN start ELSE SafetyPass(banker_processes, g[n - 1])
    <3>1. CASE n = 0
      BY <2>1, <3>1
    <3>2. CASE n # 0
      <4>1. n \in 1 .. MAX /\ g[n - 1] \in OK
        BY <1>1, <2>1, <3>2
      <4> QED BY <1>7, <2>1, <3>2, <4>1
    <3> QED BY <3>1, <3>2
  <2> QED BY <2>1, <2>2
<1> DEFINE W == CHOOSE f : f = Body(f)
<1>10. banker_state_is_safe(banker_processes, available) <=> W[MAX].finish = Entries
  BY DEF banker_state_is_safe, MAX, start
<1>11. W = Body(W)
  <2> HIDE DEF Body
  <2> QED BY <1>9
<1> HIDE DEF W
<1>12. W[0] = start /\ \A n \in 1 .. MAX : W[n] = SafetyPass(banker_processes, W[n - 1])
  BY <1>1, <1>11
<1> DEFINE T == {n \in 0 .. MAX : W[n] \in OK}
<1>13. 0 .. MAX \subseteq T
  <2>1. 0 \in T
    BY <1>1, <1>3, <1>12
  <2>2. ASSUME NEW n \in 0 .. MAX - 1, n \in T PROVE n + 1 \in T
    <3>1. n + 1 \in 1 .. MAX /\ (n + 1) - 1 = n /\ n + 1 \in 0 .. MAX
      BY <1>1
    <3>2. W[n + 1] = SafetyPass(banker_processes, W[n])
      BY <1>12, <3>1
    <3> QED BY <1>4, <2>2, <3>1, <3>2
  <2> HIDE DEF T
  <2> QED BY <1>1, <2>1, <2>2, IntervalInduction
<1>14. \A n \in 0 .. MAX : LoopOK(W[n]) /\ W[n].finish \subseteq Entries
  BY <1>5, <1>13
<1>15. ASSUME W[MAX].finish = Entries PROVE Safe
  <2>1. LoopOK(W[MAX])
    BY <1>1, <1>14
  <2>2. \A S \in SUBSET Claims : S # {} => S \cap W[MAX].finish # {}
    BY <1>1, <1>15
  <2> QED BY <2>1, <2>2 DEF LoopOK, Safe, CanFinish
<1>16. ASSUME Safe PROVE W[MAX].finish = Entries
  <2>1. IsFiniteSet(Entries) /\ Cardinality(Entries) = MAX
    <3>1. IsFiniteSet(0 .. MAX - 1) /\ Cardinality(0 .. MAX - 1) = MAX
      BY Sizes, FS_Interval
    <3> QED BY <1>1, <3>1
  <2>2. \A n \in 0 .. MAX : /\ IsFiniteSet(W[n].finish) /\ Cardinality(W[n].finish) \in Nat
                            /\ Cardinality(W[n].finish) <= MAX
    BY <1>14, <2>1, FS_Subset, FS_CardinalityType
  <2> DEFINE Done(n) == W[n].finish = Entries \/ Cardinality(W[n].finish) >= n
             U == {n \in 0 .. MAX : Done(n)}
  <2>3. 0 \in U
    BY <1>1, <2>2
  <2>4. ASSUME NEW n \in 0 .. MAX - 1, n \in U PROVE n + 1 \in U
    <3> DEFINE A == W[n].finish
               B == W[n + 1].finish
    <3>1. n + 1 \in 1 .. MAX /\ (n + 1) - 1 = n /\ n + 1 \in 0 .. MAX /\ n \in 0 .. MAX
      BY <1>1
    <3>2. W[n + 1] = SafetyPass(banker_processes, W[n])
      BY <1>12, <3>1
    <3>3. LoopOK(W[n]) /\ A \subseteq Entries /\ B \subseteq Entries
      BY <1>14, <3>1
    <3>4. A \subseteq B
      BY <3>2, <3>3, SafetyPassOK
    <3>5. CASE A = Entries
      <4>1. B = Entries
        BY <3>3, <3>4, <3>5
      <4> QED BY <3>1, <4>1
    <3>6. CASE A # Entries
      <4>1. PICK i \in Entries \ A : i \in B
        BY <1>16, <3>2, <3>3, <3>6, SafetyPassProgress
      <4>2. /\ IsFiniteSet(A) /\ Cardinality(A) \in Nat
            /\ IsFiniteSet(B) /\ Cardinality(B) \in Nat
        BY <2>2, <3>1
      <4>3. A \cup {i} \in SUBSET B
        BY <3>4, <4>1
      <4> HIDE DEF A, B
      <4>4. Cardinality(A \cup {i}) = Cardinality(A) + 1
        BY <4>1, <4>2, FS_AddElement
      <4>5. Cardinality(A \cup {i}) <= Cardinality(B)
        BY <4>2, <4>3, FS_Subset
      <4>6. Cardinality(A) >= n
        BY <2>4, <3>6 DEF A
      <4>7. Cardinality(B) >= n + 1
        BY <4>2, <4>4, <4>5, <4>6
      <4> QED BY <3>1, <4>7 DEF B
    <3> QED BY <3>5, <3>6
  <2>5. 0 .. MAX \subseteq U
    <3> HIDE DEF U
    <3> QED BY <1>1, <2>3, <2>4, IntervalInduction
  <2>6. MAX \in 0 .. MAX
    BY <1>1
  <2>7. Done(MAX)
    BY <2>5, <2>6
  <2>8. CASE Cardinality(W[MAX].finish) >= MAX
    <3>1. Cardinality(W[MAX].finish) = Cardinality(Entries) /\ W[MAX].finish \in SUBSET Entries
      BY <1>1, <1>14, <2>1, <2>2, <2>6, <2>8
    <3> QED BY <2>1, <3>1, FS_Subset
  <2> QED BY <2>7, <2>8
<1> QED BY <1>10, <1>15, <1>16

\* So it does whenever the table is exact.
LEMMA ExactTableDecides == TableExact => LoopDecidesSafety
BY LoopExact DEF TableExact

\* The greedy loop of banker_state_is_safe answers exactly the question whether
\* every set of claims can make progress, for every table it can meet.
THEOREM LoopAlwaysExact == BankerSpec => []LoopDecidesSafety
BY ExactTableDecides, TableAlwaysExact, PTL

\* A request is only granted when the state it leads to is safe: no step in
\* which an allocation grows ends in an unsafe state.
THEOREM OnlySafeGrants == BankerSpec => GrantsAreSafe
<1> DEFINE Grows == \E i \in Entries, r \in RESOURCES :
                      banker_processes'[i].allocation[r] > banker_processes[i].allocation[r]
<1>1. TableExact /\ TableExact' /\ [BankerNext]_bvars => (Grows => Safe')
  <2> SUFFICES ASSUME TableExact, TableExact', [BankerNext]_bvars,
                      NEW i \in Entries, NEW r \in RESOURCES,
                      banker_processes'[i].allocation[r] > banker_processes[i].allocation[r]
               PROVE  Safe'
    OBVIOUS
  <2>1. /\ BankerTypeOK /\ banker_processes \in [Entries -> BankerProcess]
        /\ \A j \in Entries : /\ Exact(banker_processes[j])
                               /\ banker_processes[j].allocation[r] \in Nat
        /\ \A j \in Claims : j \in Entries
    BY DEF TableExact, BankerTypeOK, NeedExact, Exact, Claims, BankerProcess, Vector
  <2>2. LoopDecidesSafety'
    BY ExactTableDecides, PTL
  <2>3. ASSUME NEW j \in Entries, NEW p, NEW avail, EntryStep(j, p, avail)
        PROVE  i = j /\ p.allocation[r] > banker_processes[i].allocation[r]
    <3>1. banker_processes'[i] = IF i = j THEN p ELSE banker_processes[i]
      BY <2>1, <2>3 DEF EntryStep
    <3> QED BY <2>1, <3>1
  <2>4. FreeEntry.allocation[r] = 0 /\ \A pid, v : Claim(pid, v).allocation[r] = 0
    BY DEF FreeEntry, Claim, Zero
  <2>5. ASSUME UNCHANGED bvars PROVE FALSE
    BY <2>1, <2>5 DEF bvars
  <2>6. ASSUME NEW v \in Vector, banker_init(v) PROVE FALSE
    <3>1. banker_processes'[i] = FreeEntry
      BY <2>6 DEF banker_init
    <3> QED BY <2>1, <2>4, <3>1
  <2>7. ASSUME NEW j \in Entries, NEW pid, NEW v, EntryStep(j, Claim(pid, v), available)
        PROVE  FALSE
    BY <2>1, <2>3, <2>4, <2>7
  <2>8. ASSUME NEW j \in Entries, NEW avail, EntryStep(j, FreeEntry, avail) PROVE FALSE
    BY <2>1, <2>3, <2>4, <2>8
  <2>9. ASSUME NEW j \in Claims, NEW v \in Vector, NEW p, NEW avail,
               p = Moved(banker_processes[j], Minus(banker_processes[j].allocation, v),
                         Plus(banker_processes[j].need, v)),
               vector_leq(v, banker_processes[j].allocation),
               EntryStep(j, p, avail)
        PROVE  FALSE
    <3>1. p.allocation[r] = banker_processes[j].allocation[r] - v[r] /\ v[r] \in Nat
      BY <2>1, <2>9, ExactMoves DEF Vector
    <3>2. i = j /\ p.allocation[r] > banker_processes[i].allocation[r]
      BY <2>1, <2>3, <2>9
    <3> QED BY <2>1, <3>1, <3>2
  <2>10. banker_state_is_safe(banker_processes', available')
    BY <2>1, <2>5, <2>6, <2>7, <2>8, <2>9, BankerSteps
  <2> QED BY <2>2, <2>10 DEF LoopDecidesSafety
<1> QED BY <1>1, TableAlwaysExact, PTL DEF BankerSpec, GrantsAreSafe
=============================================================================
