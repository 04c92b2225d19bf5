------------------------------ MODULE Process ------------------------------
(***************************************************************************)
(* The process table of MyOS and the life cycle of its processes: spawn,   *)
(* schedule, the system calls that change process state, return to the     *)
(* kernel, wait, kill and reap (kernel/process.c, kernel/usermode.c), with *)
(* what a process owns in the other subsystems: its page directory (vmm),  *)
(* its registered and pinned pages (pager), its memdemo slots and its      *)
(* banker registration.                                                    *)
(*                                                                         *)
(* The kernel is one thread.  kpc says where that thread is:               *)
(*   "shell"     in the main loop, serving a command or a schedule event   *)
(*   "user"      in ring 3, executing the process current_pid              *)
(*   "returning" back in process_run, the result in hand                   *)
(*   "returned"  state written, current_pid not cleared yet                *)
(*   "panic"     kernel_panic: the machine has stopped                     *)
(* A call that fails without changing state is a stuttering step and has   *)
(* no action of its own.  User code is arbitrary: it may make any system   *)
(* call at any time.                                                       *)
(***************************************************************************)
EXTENDS Integers, FiniteSets

CONSTANTS
  PROCESS_MAX,            \* slots of the process table (8 in the code)
  PROCESS_PRIORITY_MIN,   \* 0
  PROCESS_PRIORITY_MAX,   \* 10
  PROCESS_PRIORITY_DEFAULT, \* 5
  MAX_PID,                \* bound: next_pid stops here (int in the code)
  DIRS,                   \* page directories pmm_alloc_page can hand out
  NoDir,                  \* page_directory_phys = 0
  KernelDir,              \* vmm_get_kernel_page_directory()
  VM_PAGES,               \* the page_index values of SYS_VM_ALLOC (0..23)
  PAGER_MAX_PAGES,        \* entries of the pager's page table (128)
  MEMDEMO_SLOTS,          \* slots of memdemo.c (8)
  BANKER_MAX_PROCESSES,   \* entries of the banker's table (8)
  BANKER_PIDS,            \* bound: the pids "banker add" is called with
  EXIT_CODES,             \* bound: the values user code passes to SYS_EXIT
  USERMODE_RETURN_YIELD   \* 0xFFFFFFFE

ASSUME ProcessMaxAssumption == PROCESS_MAX \in Nat \ {0}
ASSUME PriorityAssumption ==
  /\ PROCESS_PRIORITY_MIN \in Int
  /\ PROCESS_PRIORITY_MAX \in Int
  /\ PROCESS_PRIORITY_DEFAULT \in PROCESS_PRIORITY_MIN .. PROCESS_PRIORITY_MAX
ASSUME MaxPidAssumption == MAX_PID \in Nat /\ BANKER_PIDS \subseteq Nat
ASSUME DirAssumption ==
  /\ NoDir \notin DIRS
  /\ KernelDir \notin DIRS
  /\ NoDir # KernelDir
ASSUME PageAssumption ==
  /\ "code" \notin VM_PAGES
  /\ "stack" \notin VM_PAGES
ASSUME TableAssumption ==
  /\ PAGER_MAX_PAGES \in Nat
  /\ BANKER_MAX_PROCESSES \in Nat

Slots == 0 .. PROCESS_MAX - 1
Priorities == PROCESS_PRIORITY_MIN .. PROCESS_PRIORITY_MAX
Pages == {"code", "stack"} \cup VM_PAGES
Results == EXIT_CODES \cup {0, USERMODE_RETURN_YIELD}
ProcessState == {"UNUSED", "READY", "RUNNING", "ZOMBIE"}

VARIABLES
  processes,        \* the table
  next_pid,
  current_pid,      \* 0: no user process is executing
  schedule_cursor,
  kpc,              \* where the kernel thread is
  selected,         \* local of process_schedule_auto: the slot being run
  result,           \* local of process_run: what user mode returned
  cr3,              \* the page directory loaded (vmm.c)
  spaces,           \* page directories allocated to address spaces (vmm.c)
  pager_pages,      \* <<directory, page>> entries registered (pager.c)
  pinned_pages,     \* those of them that are pinned (pager.c)
  memdemo_owner,    \* the directory each memdemo slot is mapped in, or NoDir
  banker_pids       \* pids registered with the banker (banker.c)

table == <<processes, next_pid, current_pid, schedule_cursor>>
control == <<kpc, selected, result, cr3>>
memory == <<spaces, pager_pages, pinned_pages, memdemo_owner>>
vars == <<table, control, memory, banker_pids>>

Process == [used : BOOLEAN, pid : Nat, parent_pid : Nat,
            state : ProcessState, priority : Priorities,
            page_directory_phys : DIRS \cup {NoDir},
            vm_page_bitmap : SUBSET VM_PAGES, exit_code : Results]

BlankProcess ==
  [used |-> FALSE, pid |-> 0, parent_pid |-> 0, state |-> "UNUSED",
   priority |-> PROCESS_PRIORITY_DEFAULT, page_directory_phys |-> NoDir,
   vm_page_bitmap |-> {}, exit_code |-> 0]

process_init ==
  /\ processes = [i \in Slots |-> BlankProcess]
  /\ next_pid = 1
  /\ current_pid = 0
  /\ schedule_cursor = 0

Init ==
  /\ process_init
  /\ kpc = "shell" /\ selected = 0 /\ result = 0
  /\ cr3 = KernelDir
  /\ spaces = {} /\ pager_pages = {} /\ pinned_pages = {}
  /\ memdemo_owner = [s \in MEMDEMO_SLOTS |-> NoDir]
  /\ banker_pids = {}

-----------------------------------------------------------------------------
(* Lookups.                                                                *)

\* The slots find_process_by_pid can return for pid (at most one: PidsUnique).
find_process_by_pid(pid) == {i \in Slots : processes[i].used /\ processes[i].pid = pid}

parent_pid_is_valid(parent) ==
  parent = 0 \/ \E i \in find_process_by_pid(parent) : processes[i].state # "ZOMBIE"

\* Mutant: the scan starts at slot 1.
process_has_ready_from_1 ==
  \E i \in Slots \ {0} : processes[i].used /\ processes[i].state = "READY"

process_has_ready ==
  \E i \in Slots : processes[i].used /\ processes[i].state = "READY"

\* Mutant: the children of an exiting process are forgotten.
adopt_no_children(procs, pid) == procs

\* The children of pid are handed to the root, parent_pid = 0.
adopt_children(procs, pid) ==
  [i \in Slots |-> IF procs[i].used /\ procs[i].parent_pid = pid /\ pid # 0
                   THEN [procs[i] EXCEPT !.parent_pid = 0]
                   ELSE procs[i]]

(***************************************************************************)
(* The loop of select_next_ready_process after k iterations: the best      *)
(* priority seen, starting at schedule_cursor, and the first slot having   *)
(* it (-1: none).                                                          *)
(***************************************************************************)
SelectScan[k \in 0 .. PROCESS_MAX] ==
  IF k = 0
  THEN [slot |-> -1, best_priority |-> PROCESS_PRIORITY_MIN - 1]
  ELSE LET prev == SelectScan[k - 1]
           i == (schedule_cursor + k - 1) % PROCESS_MAX
       IN IF /\ processes[i].used
             /\ processes[i].state = "READY"
             /\ processes[i].priority > prev.best_priority
          THEN [slot |-> i, best_priority |-> processes[i].priority]
          ELSE prev

\* Mutant: >= for >, the last of the best slots wins.
SelectScanLast[k \in 0 .. PROCESS_MAX] ==
  IF k = 0
  THEN [slot |-> -1, best_priority |-> PROCESS_PRIORITY_MIN - 1]
  ELSE LET prev == SelectScanLast[k - 1]
           i == (schedule_cursor + k - 1) % PROCESS_MAX
       IN IF /\ processes[i].used
             /\ processes[i].state = "READY"
             /\ processes[i].priority >= prev.best_priority
          THEN [slot |-> i, best_priority |-> processes[i].priority]
          ELSE prev

select_last_ready_process == SelectScanLast[PROCESS_MAX].slot

select_next_ready_process == SelectScan[PROCESS_MAX].slot

-----------------------------------------------------------------------------
(* Spawning.                                                               *)

\* allocate_process takes the first free slot and the next pid.
FirstFree(i) ==
  /\ ~processes[i].used
  /\ \A j \in 0 .. i - 1 : processes[j].used

\* Mutants: the pid is the number of live processes, or the least free pid.
NewProcessCountedPid(parent, priority, dir) ==
  [BlankProcess EXCEPT !.used = TRUE, !.parent_pid = parent, !.state = "READY",
                       !.pid = 1 + Cardinality({i \in Slots : processes[i].used}),
                       !.priority = priority, !.page_directory_phys = dir]

NewProcessLeastPid(parent, priority, dir) ==
  [BlankProcess EXCEPT !.used = TRUE, !.parent_pid = parent, !.state = "READY",
                       !.pid = CHOOSE p \in 1 .. PROCESS_MAX :
                                 /\ find_process_by_pid(p) = {}
                                 /\ \A q \in 1 .. p - 1 : find_process_by_pid(q) # {},
                       !.priority = priority, !.page_directory_phys = dir]

NewProcess(parent, priority, dir) ==
  [BlankProcess EXCEPT !.used = TRUE, !.pid = next_pid, !.parent_pid = parent,
                       !.state = "READY", !.priority = priority,
                       !.page_directory_phys = dir]

\* What a failed spawn leaves in the slot: only used and state are cleared.
FailedProcess(parent, priority, dir) ==
  [NewProcess(parent, priority, dir) EXCEPT !.used = FALSE, !.state = "UNUSED"]

CanRegister(pages) == Cardinality(pages) < PAGER_MAX_PAGES

(***************************************************************************)
(* process_spawn_child_from_buffer_with_priority, from the allocation of   *)
(* the slot on.  Memory or the swap disk may fail at each of the three     *)
(* steps: no page directory, no pager entry for the code page, none for    *)
(* the stack page.  A full pager table always fails.  The pid is consumed  *)
(* in every case.                                                          *)
(***************************************************************************)
SpawnNoSpace(i, parent, priority) ==
  /\ processes' = [processes EXCEPT ![i] = FailedProcess(parent, priority, NoDir)]
  /\ UNCHANGED memory

\* Mutant: the address space is not destroyed.
SpawnNoCodePageLeaks(i, parent, priority) ==
  \E dir \in DIRS \ spaces :
    /\ processes' = [processes EXCEPT ![i] = FailedProcess(parent, priority, dir)]
    /\ spaces' = spaces \cup {dir}
    /\ UNCHANGED <<pager_pages, pinned_pages, memdemo_owner>>

SpawnNoCodePage(i, parent, priority) ==
  \E dir \in DIRS \ spaces :
    /\ processes' = [processes EXCEPT ![i] = FailedProcess(parent, priority, dir)]
    /\ spaces' = (spaces \cup {dir}) \ {dir}
    /\ UNCHANGED <<pager_pages, pinned_pages, memdemo_owner>>

SpawnNoStackPage(i, parent, priority) ==
  \E dir \in DIRS \ spaces :
    LET code == <<dir, "code">> IN
    /\ CanRegister(pager_pages)
    /\ processes' = [processes EXCEPT ![i] = FailedProcess(parent, priority, dir)]
    /\ memdemo_owner' = [s \in MEMDEMO_SLOTS |->
                           IF memdemo_owner[s] = dir THEN NoDir ELSE memdemo_owner[s]]
    /\ pager_pages' = (pager_pages \cup {code}) \ {code}
    /\ pinned_pages' = (pinned_pages \cup {code}) \ {code}
    /\ spaces' = (spaces \cup {dir}) \ {dir}

SpawnOk(i, parent, priority) ==
  \E dir \in DIRS \ spaces :
    LET code == <<dir, "code">>
        stack == <<dir, "stack">> IN
    /\ CanRegister(pager_pages)
    /\ CanRegister(pager_pages \cup {code})
    /\ processes' = [processes EXCEPT ![i] = NewProcess(parent, priority, dir)]
    /\ spaces' = spaces \cup {dir}
    /\ pager_pages' = pager_pages \cup {code, stack}
    /\ pinned_pages' = pinned_pages \cup {code, stack}
    /\ UNCHANGED memdemo_owner

process_spawn_child(parent, priority) ==
  /\ parent_pid_is_valid(parent)
  /\ priority \in Priorities
  /\ next_pid < MAX_PID
  /\ \E i \in Slots :
       /\ FirstFree(i)
       /\ \/ SpawnNoSpace(i, parent, priority)
          \/ SpawnNoCodePage(i, parent, priority)
          \/ SpawnNoStackPage(i, parent, priority)
          \/ SpawnOk(i, parent, priority)
  /\ next_pid' = next_pid + 1
  /\ UNCHANGED <<current_pid, schedule_cursor, control, banker_pids>>

-----------------------------------------------------------------------------
(* Releasing.                                                              *)

\* Mutant: the pages of SYS_VM_ALLOC are not unregistered.
PagesOfImage(p) == {<<p.page_directory_phys, page>> : page \in {"code", "stack"}}

PagesOf(p) == {<<p.page_directory_phys, page>> : page \in {"code", "stack"} \cup p.vm_page_bitmap}

\* Mutant: release_process without banker_unregister_process.
release_processes_keep_banker(S) ==
  LET dirs == {processes[i].page_directory_phys : i \in S}
      pids == {processes[i].pid : i \in S}
      pages == UNION {PagesOf(processes[i]) : i \in S} IN
  /\ processes' = [i \in Slots |->
       IF i \in S THEN BlankProcess
       ELSE IF processes[i].used /\ processes[i].parent_pid \in pids \ {0}
       THEN [processes[i] EXCEPT !.parent_pid = 0]
       ELSE processes[i]]
  /\ memdemo_owner' = [s \in MEMDEMO_SLOTS |->
                         IF memdemo_owner[s] \in dirs THEN NoDir ELSE memdemo_owner[s]]
  /\ pager_pages' = pager_pages \ pages
  /\ pinned_pages' = pinned_pages \ pages
  /\ spaces' = spaces \ dirs
  /\ UNCHANGED banker_pids

(***************************************************************************)
(* release_process applied to every slot of a set.  process_wait_child and *)
(* process_kill release one slot.  process_reap_zombies releases several,  *)
(* one after the other: no zombie has children (ParentAlive), so releasing *)
(* one never makes another reapable and the order does not matter.         *)
(***************************************************************************)
release_processes(S) ==
  LET dirs == {processes[i].page_directory_phys : i \in S}
      pids == {processes[i].pid : i \in S}
      pages == UNION {PagesOf(processes[i]) : i \in S} IN
  /\ processes' = [i \in Slots |->
       IF i \in S THEN BlankProcess
       ELSE IF processes[i].used /\ processes[i].parent_pid \in pids \ {0}
       THEN [processes[i] EXCEPT !.parent_pid = 0]
       ELSE processes[i]]
  /\ banker_pids' = banker_pids \ pids
  /\ memdemo_owner' = [s \in MEMDEMO_SLOTS |->
                         IF memdemo_owner[s] \in dirs THEN NoDir ELSE memdemo_owner[s]]
  /\ pager_pages' = pager_pages \ pages
  /\ pinned_pages' = pinned_pages \ pages
  /\ spaces' = spaces \ dirs

-----------------------------------------------------------------------------
(* Shell commands.                                                         *)

\* exec, execp (parent 0) and spawn: the shell creates a process.
ShellSpawn(parent, priority) ==
  /\ kpc = "shell"
  /\ process_spawn_child(parent, priority)

\* The slots process_wait_child collects: the first matching zombie.
Matches(i, parent, child) ==
  /\ processes[i].used
  /\ processes[i].parent_pid = parent
  /\ child = 0 \/ processes[i].pid = child

process_wait_child(parent, child) ==
  /\ kpc = "shell"
  /\ parent = 0 \/ find_process_by_pid(parent) # {}
  /\ \E i \in Slots :
       /\ Matches(i, parent, child) /\ processes[i].state = "ZOMBIE"
       /\ \A j \in 0 .. i - 1 :
            ~(Matches(j, parent, child) /\ processes[j].state = "ZOMBIE")
       /\ release_processes({i})
  /\ UNCHANGED <<next_pid, current_pid, schedule_cursor, control>>

process_kill(pid) ==
  /\ kpc = "shell"
  /\ \E i \in find_process_by_pid(pid) :
       /\ processes[i].state # "RUNNING"
       /\ release_processes({i})
  /\ UNCHANGED <<next_pid, current_pid, schedule_cursor, control>>

process_reap_zombies ==
  /\ kpc = "shell"
  /\ release_processes({i \in Slots : /\ processes[i].used
                                      /\ processes[i].state = "ZOMBIE"
                                      /\ processes[i].parent_pid = 0})
  /\ UNCHANGED <<next_pid, current_pid, schedule_cursor, control>>

\* Mutant: the priority of a zombie can be set.
process_set_priority_of_zombie(pid, priority) ==
  /\ kpc = "shell"
  /\ priority \in Priorities
  /\ \E i \in find_process_by_pid(pid) :
       processes' = [processes EXCEPT ![i].priority = priority]
  /\ UNCHANGED <<next_pid, current_pid, schedule_cursor, control, memory, banker_pids>>

process_set_priority(pid, priority) ==
  /\ kpc = "shell"
  /\ priority \in Priorities
  /\ \E i \in find_process_by_pid(pid) :
       /\ processes[i].state # "ZOMBIE"
       /\ processes' = [processes EXCEPT ![i].priority = priority]
  /\ UNCHANGED <<next_pid, current_pid, schedule_cursor, control, memory, banker_pids>>

\* "banker add" takes any pid, a live one or not, unless the table is full.
BankerAdd(pid) ==
  /\ kpc = "shell"
  /\ Cardinality(banker_pids \cup {pid}) <= BANKER_MAX_PROCESSES
  /\ banker_pids' = banker_pids \cup {pid}
  /\ UNCHANGED <<table, control, memory>>

\* "banker init" clears the banker's table.
BankerInit ==
  /\ kpc = "shell"
  /\ banker_pids' = {}
  /\ UNCHANGED <<table, control, memory>>

-----------------------------------------------------------------------------
(* Running a process.                                                      *)

\* process_schedule_auto and the first half of process_run: enter user mode.
process_run(i) ==
  /\ kpc = "shell"
  /\ i = select_next_ready_process
  /\ processes[i].state = "READY"
  /\ processes[i].page_directory_phys # NoDir
  /\ cr3' = processes[i].page_directory_phys
  /\ current_pid' = processes[i].pid
  /\ processes' = [processes EXCEPT ![i].state = "RUNNING"]
  /\ selected' = i
  /\ kpc' = "user"
  /\ UNCHANGED <<next_pid, schedule_cursor, result, memory, banker_pids>>

\* usermode_return_to_kernel: control is back in process_run with r.
usermode_return_to_kernel(r) ==
  /\ kpc' = "returning"
  /\ result' = r
  /\ UNCHANGED <<table, selected, cr3, memory, banker_pids>>

\* SYS_EXIT with any code, or an unknown call number, returned as the code.
SysExit(code) == kpc = "user" /\ usermode_return_to_kernel(code)

SysYield == kpc = "user" /\ usermode_return_to_kernel(USERMODE_RETURN_YIELD)

\* A timer interrupt ends the slice; the process only leaves if another waits.
Preempt ==
  /\ kpc = "user"
  /\ process_has_ready
  /\ usermode_return_to_kernel(USERMODE_RETURN_YIELD)

\* SYS_SPAWN_APP: a child of the caller, with the default priority.
SysSpawnApp ==
  /\ kpc = "user"
  /\ \E i \in find_process_by_pid(current_pid) : processes[i].state = "RUNNING"
  /\ process_spawn_child(current_pid, PROCESS_PRIORITY_DEFAULT)

\* SYS_VM_ALLOC: register one data page of the caller with the pager, once.
process_vm_alloc_page(page) ==
  /\ kpc = "user"
  /\ \E i \in find_process_by_pid(current_pid) :
       LET dir == processes[i].page_directory_phys IN
       /\ processes[i].state = "RUNNING"
       /\ page \notin processes[i].vm_page_bitmap
       /\ CanRegister(pager_pages)
       /\ pager_pages' = pager_pages \cup {<<dir, page>>}
       /\ processes' = [processes EXCEPT ![i].vm_page_bitmap = @ \cup {page}]
  /\ UNCHANGED <<next_pid, current_pid, schedule_cursor, control, spaces,
                 pinned_pages, memdemo_owner, banker_pids>>

\* SYS_MEMDEMO_OP: ALLOC maps a free slot in the loaded directory, FREE
\* unmaps a slot wherever it is mapped.  (TOUCH changes no slot.)
memdemo_apply_op(s) ==
  /\ kpc = "user"
  /\ memdemo_owner' = [memdemo_owner EXCEPT ![s] = IF @ = NoDir THEN cr3 ELSE NoDir]
  /\ UNCHANGED <<table, control, spaces, pager_pages, pinned_pages, banker_pids>>

\* SYS_MEMDEMO_RESET, or the shell's memdemo command: free every slot.
memdemo_reset ==
  /\ kpc \in {"shell", "user"}
  /\ memdemo_owner' = [s \in MEMDEMO_SLOTS |-> NoDir]
  /\ UNCHANGED <<table, control, spaces, pager_pages, pinned_pages, banker_pids>>

\* A fault the pager cannot serve, or any other exception: kernel_panic.
UserFault ==
  /\ kpc = "user"
  /\ kpc' = "panic"
  /\ UNCHANGED <<table, selected, result, cr3, memory, banker_pids>>

\* kernel_panic ends in cli; hlt for ever.
Halted == kpc = "panic" /\ UNCHANGED vars

\* Mutant: the kernel's page directory is not loaded again.
RunReturnSameDirectory ==
  /\ kpc = "returning"
  /\ IF result = USERMODE_RETURN_YIELD
     THEN processes' = [processes EXCEPT ![selected].state = "READY"]
     ELSE processes' = adopt_children(
            [processes EXCEPT ![selected].state = "ZOMBIE",
                              ![selected].exit_code = result],
            processes[selected].pid)
  /\ kpc' = "returned"
  /\ UNCHANGED <<next_pid, current_pid, schedule_cursor, selected, result, cr3,
                 memory, banker_pids>>

\* process_run after user mode: the result decides between READY and ZOMBIE.
RunReturn ==
  /\ kpc = "returning"
  /\ cr3' = KernelDir
  /\ IF result = USERMODE_RETURN_YIELD
     THEN processes' = [processes EXCEPT ![selected].state = "READY"]
     ELSE processes' = adopt_children(
            [processes EXCEPT ![selected].state = "ZOMBIE",
                              ![selected].exit_code = result],
            processes[selected].pid)
  /\ kpc' = "returned"
  /\ UNCHANGED <<next_pid, current_pid, schedule_cursor, selected, result,
                 memory, banker_pids>>

\* Mutant: the cursor runs off the table.
RunDoneNoWrap ==
  /\ kpc = "returned"
  /\ current_pid' = 0
  /\ schedule_cursor' = selected + 1
  /\ kpc' = "shell"
  /\ UNCHANGED <<processes, next_pid, selected, result, cr3, memory, banker_pids>>

\* The end of process_run and of process_schedule_auto.
RunDone ==
  /\ kpc = "returned"
  /\ current_pid' = 0
  /\ schedule_cursor' = (selected + 1) % PROCESS_MAX
  /\ kpc' = "shell"
  /\ UNCHANGED <<processes, next_pid, selected, result, cr3, memory, banker_pids>>

-----------------------------------------------------------------------------
Pids == 0 .. MAX_PID

ShellCommand ==
  \/ \E parent \in Pids, priority \in Priorities : ShellSpawn(parent, priority)
  \/ \E parent, child \in Pids : process_wait_child(parent, child)
  \/ \E pid \in Pids : process_kill(pid)
  \/ process_reap_zombies
  \/ \E pid \in Pids, priority \in Priorities : process_set_priority(pid, priority)
  \/ \E pid \in BANKER_PIDS : BankerAdd(pid)
  \/ BankerInit

UserStep ==
  \/ \E code \in EXIT_CODES : SysExit(code)
  \/ SysYield
  \/ Preempt
  \/ SysSpawnApp
  \/ \E page \in VM_PAGES : process_vm_alloc_page(page)
  \/ \E s \in MEMDEMO_SLOTS : memdemo_apply_op(s)
  \/ UserFault

Next ==
  \/ ShellCommand
  \/ \E i \in Slots : process_run(i)
  \/ UserStep
  \/ memdemo_reset
  \/ RunReturn
  \/ RunDone
  \/ Halted

Spec == Init /\ [][Next]_vars

-----------------------------------------------------------------------------
(* Properties.                                                             *)

\* Every variable keeps its type: in particular schedule_cursor always
\* indexes the table (select_next_ready_process starts its scan there).
TypeOK ==
  /\ processes \in [Slots -> Process]
  /\ next_pid \in Nat \ {0}
  /\ current_pid \in Nat
  /\ schedule_cursor \in Slots
  /\ kpc \in {"shell", "user", "returning", "returned", "panic"}
  /\ selected \in Slots
  /\ result \in Results
  /\ cr3 \in DIRS \cup {KernelDir}
  /\ spaces \subseteq DIRS
  /\ pager_pages \subseteq DIRS \X Pages
  /\ pinned_pages \subseteq DIRS \X Pages
  /\ memdemo_owner \in [MEMDEMO_SLOTS -> DIRS \cup {NoDir}]
  /\ banker_pids \subseteq Nat

Used == {i \in Slots : processes[i].used}

\* find_process_by_pid is a function: no two live slots share a pid, pids of
\* live slots are never 0 (the root parent) and were all handed out already.
PidsUnique ==
  /\ \A i \in Used : processes[i].pid \in 1 .. next_pid - 1
  /\ \A i, j \in Used : processes[i].pid = processes[j].pid => i = j

\* adopt_children's comment: no child keeps pointing at a pid that is gone.
\* The parent of every live process is the root or a live process that has
\* not exited, so that somebody can still wait for it.
ParentAlive ==
  \A i \in Used :
    \/ processes[i].parent_pid = 0
    \/ \E j \in Used : /\ processes[j].pid = processes[i].parent_pid
                       /\ processes[j].state # "ZOMBIE"

\* The kernel thread, current_pid, the loaded page directory and the RUNNING
\* state agree at every point of process_run: user mode always executes the
\* process current_pid names, in that process's own address space, and no
\* process is RUNNING once the kernel serves the shell again.
RunningIsCurrent ==
  /\ kpc \in {"shell", "returned"} => \A i \in Slots : processes[i].state # "RUNNING"
  /\ kpc \in {"shell", "returned"} => cr3 = KernelDir
  /\ kpc = "shell" <=> current_pid = 0
  /\ kpc \in {"user", "returning", "panic"} =>
       /\ selected \in Used
       /\ \A i \in Slots : processes[i].state = "RUNNING" <=> i = selected
       /\ cr3 = processes[selected].page_directory_phys
  /\ kpc # "shell" =>
       /\ selected \in Used
       /\ processes[selected].pid = current_pid

\* Address spaces are neither leaked nor shared: the page directories in use
\* are exactly those of the live processes, one each, through every failing
\* spawn and every wait, kill and reap.
SpacesOwned ==
  /\ \A i \in Slots : processes[i].used <=> processes[i].state # "UNUSED"
  /\ \A i \in Used : processes[i].page_directory_phys \in spaces
  /\ \A i, j \in Used :
       processes[i].page_directory_phys = processes[j].page_directory_phys => i = j
  /\ \A dir \in spaces : \E i \in Used : processes[i].page_directory_phys = dir

\* No leaked and no dangling page: the pager and memdemo hold exactly what the
\* live processes own, so a page directory that pmm hands out again never
\* inherits entries of the process that had it before.
PagesOwned ==
  /\ \A dir \in DIRS, page \in Pages :
       <<dir, page>> \in pager_pages <=>
         \E i \in Used : /\ processes[i].page_directory_phys = dir
                         /\ page \in {"code", "stack"} \cup processes[i].vm_page_bitmap
  /\ \A dir \in DIRS, page \in Pages :
       <<dir, page>> \in pinned_pages <=>
         page \in {"code", "stack"} /\ <<dir, page>> \in pager_pages
  /\ \A s \in MEMDEMO_SLOTS : memdemo_owner[s] \in spaces \cup {NoDir}

\* A zombie keeps its identity and its exit code until wait, kill or reap
\* takes it; it never runs again (only its parent may change, by adoption).
ZombieIsFinal ==
  [][\A i \in Slots :
       processes[i].state = "ZOMBIE" =>
         \/ processes'[i] = BlankProcess
         \/ processes'[i] = [processes[i] EXCEPT !.parent_pid = processes'[i].parent_pid]
    ]_vars

\* pids are never used twice, even when a spawn fails after taking one: a
\* shell user who still holds an old pid cannot reach a new process with it.
PidNeverReused ==
  [][\A i \in Slots :
       processes'[i].used /\ (~processes[i].used \/ processes'[i].pid # processes[i].pid)
         => processes'[i].pid >= next_pid /\ processes'[i].pid < next_pid'
    ]_vars

\* Whoever leaves the table leaves the banker too (release_process calls
\* banker_unregister_process), by wait, by kill or by a reap of several.
ReleaseUnregisters ==
  [][\A i \in Slots :
       processes[i].used /\ ~processes'[i].used => processes[i].pid \notin banker_pids'
    ]_vars

\* process.h: the highest priority first, round robin among equals.  The
\* process that starts has the highest priority of all READY processes, and
\* no READY process of that priority is nearer to the cursor.
Distance(i) == (i + PROCESS_MAX - schedule_cursor) % PROCESS_MAX
HighestPriorityFirst ==
  [][kpc = "shell" /\ kpc' = "user" =>
       \A j \in Slots \ {selected'} :
         processes[j].state = "READY" =>
           \/ processes[j].priority < processes[selected'].priority
           \/ /\ processes[j].priority = processes[selected'].priority
              /\ Distance(selected') < Distance(j)
    ]_vars
=============================================================================
