------------------------------- MODULE Banker -------------------------------
(***************************************************************************)
(* kernel/banker.c: the banker's algorithm over a table of claims.  The    *)
(* shell's banker commands call it, and release_process unregisters a      *)
(* process that leaves the process table.  Each call runs to completion in *)
(* the kernel thread, so each is one action.  A call that fails a test     *)
(* before it writes anything is a stuttering step.                         *)
(*                                                                         *)
(* The vectors are uint32_t in the code.  NeedExact and WithinTotal bound  *)
(* every entry by a value the user typed, so no sum wraps and the model    *)
(* uses natural numbers.                                                   *)
(***************************************************************************)
EXTENDS Integers

CONSTANTS
  BANKER_MAX_PROCESSES,  \* entries of the table (8)
  RESOURCES,             \* the abstract resources (3)
  PIDS,                  \* bound: the pids the commands are given
  AMOUNTS                \* bound: the numbers the commands are given

ASSUME BankerAssumption ==
  /\ BANKER_MAX_PROCESSES \in Nat \ {0}
  /\ PIDS \subseteq Nat /\ AMOUNTS \subseteq Nat

Entries == 0 .. BANKER_MAX_PROCESSES - 1
Vector == [RESOURCES -> Nat]
Inputs == [RESOURCES -> AMOUNTS]
Zero == [r \in RESOURCES |-> 0]
NoPid == 0

VARIABLES
  banker_ready,
  available,
  banker_processes,
  total             \* history: the argument of the last banker_init

bvars == <<banker_ready, available, banker_processes, total>>

BankerProcess == [used : BOOLEAN, pid : Nat, max : Vector, allocation : Vector, need : Vector]

FreeEntry == [used |-> FALSE, pid |-> NoPid, max |-> Zero, allocation |-> Zero, need |-> Zero]

BankerInit ==
  /\ banker_ready = FALSE
  /\ available = Zero
  /\ banker_processes = [i \in Entries |-> FreeEntry]
  /\ total = Zero

-----------------------------------------------------------------------------
Claims == {i \in Entries : banker_processes[i].used}

Plus(v, w) == [r \in RESOURCES |-> v[r] + w[r]]
Minus(v, w) == [r \in RESOURCES |-> v[r] - w[r]]
vector_leq(left, right) == \A r \in RESOURCES : left[r] <= right[r]

\* The entry find_slot_by_pid returns: the first one of that pid.
find_slot_by_pid(pid, i) ==
  /\ i \in Claims /\ banker_processes[i].pid = pid
  /\ \A j \in Claims : j < i => banker_processes[j].pid # pid

find_free_slot(i) == i \in Entries \ Claims /\ \A j \in 0 .. i - 1 : j \in Claims

(***************************************************************************)
(* banker_state_is_safe on a table and an available vector.  One pass of   *)
(* its do-while loop lets every claim that fits in work finish and return  *)
(* its allocation.  A pass without progress repeats itself, so as many     *)
(* passes as there are entries reach the result of the loop.               *)
(***************************************************************************)
SafetyPass(claims, state) ==
  LET pass[k \in 0 .. BANKER_MAX_PROCESSES] ==
        IF k = 0 THEN state
        ELSE LET s == pass[k - 1]
                 i == k - 1
             IN IF claims[i].used /\ i \notin s.finish /\ vector_leq(claims[i].need, s.work)
                THEN [work |-> Plus(s.work, claims[i].allocation), finish |-> s.finish \cup {i}]
                ELSE s
  IN pass[BANKER_MAX_PROCESSES]

\* Mutant: a single pass over the table.
banker_state_is_safe_one_pass(claims, avail) ==
  SafetyPass(claims, [work |-> avail, finish |-> {i \in Entries : ~claims[i].used}]).finish
    = Entries

banker_state_is_safe(claims, avail) ==
  LET start == [work |-> avail, finish |-> {i \in Entries : ~claims[i].used}]
      after[n \in 0 .. BANKER_MAX_PROCESSES] ==
        IF n = 0 THEN start ELSE SafetyPass(claims, after[n - 1])
  IN after[BANKER_MAX_PROCESSES].finish = Entries

-----------------------------------------------------------------------------
banker_init(initial_available) ==
  /\ available' = initial_available
  /\ banker_processes' = [i \in Entries |-> FreeEntry]
  /\ banker_ready' = TRUE
  /\ total' = initial_available

\* Registering a pid again overwrites its claim and forgets its allocation.
banker_register_process(pid, max) ==
  /\ banker_ready
  /\ \E i \in Entries :
       /\ \/ find_slot_by_pid(pid, i)
          \/ /\ \A j \in Claims : banker_processes[j].pid # pid
             /\ find_free_slot(i)
       /\ banker_processes' = [banker_processes EXCEPT ![i] =
            [used |-> TRUE, pid |-> pid, max |-> max, allocation |-> Zero, need |-> max]]
  /\ UNCHANGED <<banker_ready, available, total>>

\* Mutant: the claim is returned, not the allocation.
banker_unregister_returns_max(pid) ==
  /\ banker_ready
  /\ \E i \in Entries :
       /\ find_slot_by_pid(pid, i)
       /\ available' = Plus(available, banker_processes[i].max)
       /\ banker_processes' = [banker_processes EXCEPT ![i] = FreeEntry]
  /\ UNCHANGED <<banker_ready, total>>

banker_unregister_process(pid) ==
  /\ banker_ready
  /\ \E i \in Entries :
       /\ find_slot_by_pid(pid, i)
       /\ available' = Plus(available, banker_processes[i].allocation)
       /\ banker_processes' = [banker_processes EXCEPT ![i] = FreeEntry]
  /\ UNCHANGED <<banker_ready, total>>

\* The table after claim i takes v from its need, and after it gives v back:
\* the loops of the trial, of its roll-back and of a release.
Take(claims, i, v) ==
  [claims EXCEPT ![i].allocation = Plus(@, v), ![i].need = Minus(@, v)]

GiveBack(claims, i, v) ==
  [claims EXCEPT ![i].allocation = Minus(@, v), ![i].need = Plus(@, v)]

\* Mutant: the trial allocation is kept without a test.
banker_request_untested(pid, request) ==
  /\ banker_ready
  /\ \E i \in Entries :
       /\ find_slot_by_pid(pid, i)
       /\ vector_leq(request, banker_processes[i].need)
       /\ vector_leq(request, available)
       /\ banker_processes' = Take(banker_processes, i, request)
       /\ available' = Minus(available, request)
  /\ UNCHANGED <<banker_ready, total>>

\* Mutant: the roll-back does not restore need.
banker_request_forgets_need(pid, request) ==
  /\ banker_ready
  /\ \E i \in Entries :
       LET trial == Take(banker_processes, i, request)
           rest == Minus(available, request) IN
       /\ find_slot_by_pid(pid, i)
       /\ vector_leq(request, banker_processes[i].need)
       /\ vector_leq(request, available)
       /\ \/ /\ banker_state_is_safe(trial, rest)
             /\ banker_processes' = trial
             /\ available' = rest
          \/ /\ ~banker_state_is_safe(trial, rest)
             /\ banker_processes' = [trial EXCEPT ![i].allocation = Minus(@, request)]
             /\ available' = Plus(rest, request)
  /\ UNCHANGED <<banker_ready, total>>

\* Allocate on trial, keep it if the state is safe, else roll all three
\* vectors back.
banker_request(pid, request) ==
  /\ banker_ready
  /\ \E i \in Entries :
       LET trial == Take(banker_processes, i, request)
           rest == Minus(available, request) IN
       /\ find_slot_by_pid(pid, i)
       /\ vector_leq(request, banker_processes[i].need)
       /\ vector_leq(request, available)
       /\ \/ /\ banker_state_is_safe(trial, rest)
             /\ banker_processes' = trial
             /\ available' = rest
          \/ /\ ~banker_state_is_safe(trial, rest)
             /\ banker_processes' = GiveBack(trial, i, request)
             /\ available' = Plus(rest, request)
  /\ UNCHANGED <<banker_ready, total>>

banker_release(pid, release) ==
  /\ banker_ready
  /\ \E i \in Entries :
       /\ find_slot_by_pid(pid, i)
       /\ vector_leq(release, banker_processes[i].allocation)
       /\ banker_processes' = GiveBack(banker_processes, i, release)
       /\ available' = Plus(available, release)
  /\ UNCHANGED <<banker_ready, total>>

-----------------------------------------------------------------------------
BankerNext ==
  \/ \E v \in Inputs : banker_init(v)
  \/ \E pid \in PIDS, v \in Inputs : banker_register_process(pid, v)
  \/ \E pid \in PIDS : banker_unregister_process(pid)
  \/ \E pid \in PIDS, v \in Inputs : banker_request(pid, v)
  \/ \E pid \in PIDS, v \in Inputs : banker_release(pid, v)

BankerSpec == BankerInit /\ [][BankerNext]_bvars

-----------------------------------------------------------------------------
(* Properties.                                                             *)

\* Every entry keeps its type: no subtraction of vectors goes below zero.
BankerTypeOK ==
  /\ banker_ready \in BOOLEAN
  /\ available \in Vector
  /\ banker_processes \in [Entries -> BankerProcess]
  /\ total \in Vector

\* What a claim holds and what it may still ask for add up to its maximum,
\* through every request, roll-back and release.
NeedExact ==
  \A i \in Entries, r \in RESOURCES :
    banker_processes[i].allocation[r] + banker_processes[i].need[r] = banker_processes[i].max[r]

\* A pid has at most one entry, so find_slot_by_pid finds all it holds.
OneClaimPerPid ==
  \A i, j \in Claims : banker_processes[i].pid = banker_processes[j].pid => i = j

\* The table is exact after every operation: the three facts above.
TableExact == BankerTypeOK /\ NeedExact /\ OneClaimPerPid

\* The sum of f over the table, and what the entries of S hold of r together.
Sum(f) ==
  LET sum[n \in 0 .. BANKER_MAX_PROCESSES] == IF n = 0 THEN 0 ELSE sum[n - 1] + f[n - 1]
  IN sum[BANKER_MAX_PROCESSES]

Held(S, r) == Sum([i \in Entries |-> IF i \in S THEN banker_processes[i].allocation[r] ELSE 0])

\* Resources are never created: what is available and what is allocated
\* together stay within what banker_init was given.
WithinTotal == \A r \in RESOURCES : available[r] + Held(Entries, r) <= total[r]

(***************************************************************************)
(* The reference definition of safety, independent of the loop: in every   *)
(* set of claims, some claim can finish with what is available and what    *)
(* the claims outside the set return; equivalently, no set is stuck.       *)
(***************************************************************************)
Safe ==
  \A S \in SUBSET Claims :
    S # {} =>
      \E i \in S : \A r \in RESOURCES :
        banker_processes[i].need[r] <= available[r] + Held(Claims \ S, r)

\* The greedy loop of banker_state_is_safe decides safety exactly, in safe
\* and in unsafe states.
LoopDecidesSafety == banker_state_is_safe(banker_processes, available) <=> Safe

\* banker.h: a request is only committed in a safe state.  No step in which a
\* claim's allocation grows ends in an unsafe state.
GrantsAreSafe ==
  [][(\E i \in Entries, r \in RESOURCES :
        banker_processes'[i].allocation[r] > banker_processes[i].allocation[r]) => Safe'
    ]_bvars

\* banker.h, banker_unregister_process: the resources allocated to a process
\* are returned to Available when it ends.  Once every registered process is
\* gone, everything is available again.
AllReturned == Claims = {} => available = total
=============================================================================
