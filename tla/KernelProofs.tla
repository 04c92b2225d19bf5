---------------------------- MODULE KernelProofs ----------------------------
(***************************************************************************)
(* Proofs about Process, for every size of the table and every value of    *)
(* the other constants (IInv is inductive), and about Kernel: the running  *)
(* system implements the process table's specification, so what the first  *)
(* part shows of Process holds of it; and the invariants of the main loop, *)
(* of the timer and of the saved contexts hold for every number of slots,  *)
(* keys, commands and slices.                                              *)
(***************************************************************************)
EXTENDS Kernel, Induction, TLAPS

(* The process table.                                                      *)

IInv == TypeOK /\ PidsUnique /\ ParentAlive /\ RunningIsCurrent
        /\ SpacesOwned /\ PagesOwned

\* The initial table is empty, so each part holds of it.
LEMMA InitIInv == Init => IInv
<1> SUFFICES ASSUME Init PROVE IInv
  OBVIOUS
<1> USE DEF Init, process_init, BlankProcess
<1>1. TypeOK
  <2>1. BlankProcess \in Process
    BY PriorityAssumption DEF Process, ProcessState, Priorities, Results
  <2>2. 0 \in Slots
    BY ProcessMaxAssumption DEF Slots
  <2> QED BY <2>1, <2>2 DEF TypeOK, Results
<1>2. Used = {}
  BY DEF Used
<1>3. PidsUnique /\ ParentAlive
  BY <1>2 DEF PidsUnique, ParentAlive
<1>4. RunningIsCurrent
  BY DEF RunningIsCurrent
<1>5. SpacesOwned
  BY <1>2 DEF SpacesOwned
<1>6. PagesOwned
  BY <1>2 DEF PagesOwned
<1> QED BY <1>1, <1>3, <1>4, <1>5, <1>6 DEF IInv

-----------------------------------------------------------------------------
(* Spawning.                                                               *)

\* What allocate_process and the spawn put in a slot is a process record,
\* whether the spawn succeeds or fails.
LEMMA SpawnRecords ==
  ASSUME TypeOK, NEW parent \in Nat, NEW priority \in Priorities,
         NEW dir \in DIRS \cup {NoDir}
  PROVE  /\ NewProcess(parent, priority, dir) \in Process
         /\ NewProcess(parent, priority, dir).used
         /\ NewProcess(parent, priority, dir).state = "READY"
         /\ NewProcess(parent, priority, dir).pid = next_pid
         /\ NewProcess(parent, priority, dir).parent_pid = parent
         /\ NewProcess(parent, priority, dir).page_directory_phys = dir
         /\ FailedProcess(parent, priority, dir) \in Process
         /\ ~FailedProcess(parent, priority, dir).used
         /\ FailedProcess(parent, priority, dir).state = "UNUSED"
BY DEF TypeOK, NewProcess, FailedProcess, BlankProcess, Process, ProcessState, Results

\* A spawn that fails leaves a free slot free: only the pid is gone.
LEMMA FailedSpawnStep ==
  ASSUME IInv, NEW i \in Slots, ~processes[i].used,
         NEW p \in Process, ~p.used, p.state = "UNUSED",
         processes' = [processes EXCEPT ![i] = p],
         next_pid' = next_pid + 1,
         UNCHANGED <<current_pid, schedule_cursor, control, banker_pids>>,
         spaces' = spaces, pager_pages' = pager_pages,
         pinned_pages' = pinned_pages, memdemo_owner' = memdemo_owner
  PROVE  IInv'
<1> USE DEF IInv, control
<1>1. TypeOK'
  BY DEF TypeOK
<1>2. Used' = Used /\ \A j \in Used : j # i /\ processes'[j] = processes[j]
  BY DEF TypeOK, Used
<1>3. PidsUnique'
  BY <1>2 DEF PidsUnique, TypeOK
<1>4. ParentAlive'
  BY <1>2 DEF ParentAlive
<1>5. RunningIsCurrent'
  BY <1>2 DEF RunningIsCurrent, SpacesOwned, TypeOK, Used
<1>6. SpacesOwned'
  BY <1>2 DEF SpacesOwned, TypeOK
<1>7. PagesOwned'
  BY <1>2 DEF PagesOwned
<1> QED BY <1>1, <1>3, <1>4, <1>5, <1>6, <1>7

\* A spawn that succeeds adds one READY process with a new pid, a new page
\* directory and a parent that is the root or alive.
LEMMA SpawnOkStep ==
  ASSUME IInv, NEW i \in Slots, ~processes[i].used,
         NEW parent \in Nat, NEW priority \in Priorities,
         parent_pid_is_valid(parent),
         SpawnOk(i, parent, priority),
         next_pid' = next_pid + 1,
         UNCHANGED <<current_pid, schedule_cursor, control, banker_pids>>
  PROVE  IInv'
<1> USE DEF IInv, control
<1>1. PICK dir \in DIRS \ spaces :
        /\ processes' = [processes EXCEPT ![i] = NewProcess(parent, priority, dir)]
        /\ spaces' = spaces \cup {dir}
        /\ pager_pages' = pager_pages \cup {<<dir, "code">>, <<dir, "stack">>}
        /\ pinned_pages' = pinned_pages \cup {<<dir, "code">>, <<dir, "stack">>}
        /\ UNCHANGED memdemo_owner
  BY DEF SpawnOk
<1> DEFINE p == NewProcess(parent, priority, dir)
<1>2. /\ p \in Process /\ p.used /\ p.state = "READY" /\ p.pid = next_pid
      /\ p.parent_pid = parent /\ p.page_directory_phys = dir
  BY SpawnRecords
<1> HIDE DEF p
<1>3. processes' = [processes EXCEPT ![i] = p]
  BY <1>1 DEF p
<1>4. TypeOK'
  BY <1>1, <1>2, <1>3 DEF TypeOK, Pages
<1>5. /\ Used' = Used \cup {i} /\ processes'[i] = p
      /\ \A j \in Slots : j # i => processes'[j] = processes[j]
      /\ i \notin Used
  BY <1>2, <1>3 DEF TypeOK, Used
<1>6. PidsUnique'
  BY <1>2, <1>5 DEF PidsUnique, TypeOK, Used
<1>7. ParentAlive'
  BY <1>2, <1>5 DEF ParentAlive, parent_pid_is_valid, find_process_by_pid, Used
<1>8. RunningIsCurrent'
  BY <1>2, <1>5 DEF RunningIsCurrent, TypeOK, Used
<1>9. SpacesOwned'
  BY <1>1, <1>2, <1>5 DEF SpacesOwned, TypeOK, Used
<1>10. p.vm_page_bitmap = {}
  BY DEF p, NewProcess, BlankProcess
<1>11. PagesOwned'
  <2>1. \A j \in Used : processes[j].page_directory_phys # dir
    BY DEF SpacesOwned
  <2>2. \A d \in DIRS, page \in Pages :
          <<d, page>> \in pager_pages' <=>
            \E j \in Used' : /\ processes'[j].page_directory_phys = d
                             /\ page \in {"code", "stack"} \cup processes'[j].vm_page_bitmap
    <3> SUFFICES ASSUME NEW d \in DIRS, NEW page \in Pages
                 PROVE  <<d, page>> \in pager_pages' <=>
                          \E j \in Used' :
                            /\ processes'[j].page_directory_phys = d
                            /\ page \in {"code", "stack"} \cup processes'[j].vm_page_bitmap
      OBVIOUS
    <3>1. <<d, page>> \in pager_pages <=>
            \E j \in Used : /\ processes[j].page_directory_phys = d
                            /\ page \in {"code", "stack"} \cup processes[j].vm_page_bitmap
      BY DEF PagesOwned
    <3>2. <<d, page>> \in pager_pages' <=>
            <<d, page>> \in pager_pages \/ (d = dir /\ page \in {"code", "stack"})
      BY <1>1
    <3>3. \A j \in Used : j \in Slots /\ j # i /\ processes'[j] = processes[j]
      BY <1>5 DEF Used
    <3> QED BY <1>2, <1>5, <1>10, <3>1, <3>2, <3>3
  <2>3. \A d \in DIRS, page \in Pages :
          <<d, page>> \in pinned_pages' <=>
            page \in {"code", "stack"} /\ <<d, page>> \in pager_pages'
    BY <1>1 DEF PagesOwned
  <2>4. \A s \in MEMDEMO_SLOTS : memdemo_owner'[s] \in spaces' \cup {NoDir}
    BY <1>1 DEF PagesOwned
  <2> QED BY <2>2, <2>3, <2>4 DEF PagesOwned
<1> QED BY <1>4, <1>6, <1>7, <1>8, <1>9, <1>11

\* process_spawn_child_from_buffer_with_priority, with all its failures.
LEMMA SpawnStep ==
  ASSUME IInv, NEW parent \in Nat, NEW priority,
         process_spawn_child(parent, priority)
  PROVE  IInv'
<1> USE DEF process_spawn_child
<1>1. priority \in Priorities
  OBVIOUS
<1>2. PICK i \in Slots :
        /\ FirstFree(i)
        /\ \/ SpawnNoSpace(i, parent, priority)
           \/ SpawnNoCodePage(i, parent, priority)
           \/ SpawnNoStackPage(i, parent, priority)
           \/ SpawnOk(i, parent, priority)
  OBVIOUS
<1>3. ~processes[i].used
  BY <1>2 DEF FirstFree
<1>4. TypeOK
  BY DEF IInv
<1>5. CASE SpawnNoSpace(i, parent, priority)
  <2>1. /\ FailedProcess(parent, priority, NoDir) \in Process
        /\ ~FailedProcess(parent, priority, NoDir).used
        /\ FailedProcess(parent, priority, NoDir).state = "UNUSED"
    BY <1>1, <1>4, SpawnRecords
  <2> QED BY <1>3, <1>4, <1>5, <2>1, FailedSpawnStep DEF SpawnNoSpace, memory, TypeOK
<1>6. CASE SpawnNoCodePage(i, parent, priority)
  <2>1. PICK dir \in DIRS \ spaces :
          /\ processes' = [processes EXCEPT ![i] = FailedProcess(parent, priority, dir)]
          /\ spaces' = (spaces \cup {dir}) \ {dir}
          /\ UNCHANGED <<pager_pages, pinned_pages, memdemo_owner>>
    BY <1>6 DEF SpawnNoCodePage
  <2>2. /\ FailedProcess(parent, priority, dir) \in Process
        /\ ~FailedProcess(parent, priority, dir).used
        /\ FailedProcess(parent, priority, dir).state = "UNUSED"
    BY <1>1, <1>4, SpawnRecords
  <2>3. spaces' = spaces
    BY <2>1
  <2> QED BY <1>3, <1>4, <2>1, <2>2, <2>3, FailedSpawnStep DEF TypeOK
<1>7. CASE SpawnNoStackPage(i, parent, priority)
  <2>1. PICK dir \in DIRS \ spaces :
          /\ processes' = [processes EXCEPT ![i] = FailedProcess(parent, priority, dir)]
          /\ memdemo_owner' = [s \in MEMDEMO_SLOTS |->
               IF memdemo_owner[s] = dir THEN NoDir ELSE memdemo_owner[s]]
          /\ pager_pages' = (pager_pages \cup {<<dir, "code">>}) \ {<<dir, "code">>}
          /\ pinned_pages' = (pinned_pages \cup {<<dir, "code">>}) \ {<<dir, "code">>}
          /\ spaces' = (spaces \cup {dir}) \ {dir}
    BY <1>7 DEF SpawnNoStackPage
  <2>2. /\ FailedProcess(parent, priority, dir) \in Process
        /\ ~FailedProcess(parent, priority, dir).used
        /\ FailedProcess(parent, priority, dir).state = "UNUSED"
    BY <1>1, <1>4, SpawnRecords
  <2>3. /\ <<dir, "code">> \notin pager_pages
        /\ <<dir, "code">> \notin pinned_pages
    BY DEF IInv, SpacesOwned, PagesOwned, Pages
  <2>4. pager_pages' = pager_pages /\ pinned_pages' = pinned_pages /\ spaces' = spaces
    BY <2>1, <2>3
  <2>5. \A s \in MEMDEMO_SLOTS : memdemo_owner[s] # dir
    BY DirAssumption DEF IInv, PagesOwned
  <2>6. memdemo_owner' = memdemo_owner
    BY <1>4, <2>1, <2>5 DEF TypeOK
  <2> QED BY <1>3, <2>1, <2>2, <2>4, <2>6, FailedSpawnStep
<1>8. CASE SpawnOk(i, parent, priority)
  BY <1>1, <1>3, <1>8, SpawnOkStep
<1> QED BY <1>2, <1>5, <1>6, <1>7, <1>8

-----------------------------------------------------------------------------
(* Releasing.                                                              *)

\* release_process on any set of live processes, while none is running.
LEMMA ReleaseStep ==
  ASSUME IInv, kpc = "shell", NEW S \in SUBSET Used, release_processes(S),
         UNCHANGED <<next_pid, current_pid, schedule_cursor, control>>
  PROVE  IInv'
<1> USE DEF IInv, control
<1> DEFINE dirs == {processes[i].page_directory_phys : i \in S}
           pids == {processes[i].pid : i \in S}
           pages == UNION {PagesOf(processes[i]) : i \in S}
<1>1. /\ processes' = [i \in Slots |->
           IF i \in S THEN BlankProcess
           ELSE IF processes[i].used /\ processes[i].parent_pid \in pids \ {0}
           THEN [processes[i] EXCEPT !.parent_pid = 0]
           ELSE processes[i]]
      /\ banker_pids' = banker_pids \ pids
      /\ memdemo_owner' = [s \in MEMDEMO_SLOTS |->
           IF memdemo_owner[s] \in dirs THEN NoDir ELSE memdemo_owner[s]]
      /\ pager_pages' = pager_pages \ pages
      /\ pinned_pages' = pinned_pages \ pages
      /\ spaces' = spaces \ dirs
  BY DEF release_processes
<1>2. BlankProcess \in Process /\ ~BlankProcess.used /\ BlankProcess.state = "UNUSED"
  BY PriorityAssumption DEF BlankProcess, Process, ProcessState, Priorities, Results
<1>3. ASSUME NEW i \in Slots, i \notin S
      PROVE  /\ processes'[i] \in Process
             /\ processes'[i].used = processes[i].used
             /\ processes'[i].pid = processes[i].pid
             /\ processes'[i].state = processes[i].state
             /\ processes'[i].page_directory_phys = processes[i].page_directory_phys
             /\ processes'[i].vm_page_bitmap = processes[i].vm_page_bitmap
             /\ \/ processes'[i].parent_pid = 0
                \/ /\ processes'[i].parent_pid = processes[i].parent_pid
                   /\ processes[i].used => processes[i].parent_pid \notin pids
  BY <1>1, <1>3 DEF TypeOK, Process
<1>4. \A i \in S : i \in Slots /\ processes'[i] = BlankProcess
  BY <1>1 DEF Used
<1> HIDE DEF dirs, pids, pages
<1>5. Used' = Used \ S
  BY <1>2, <1>3, <1>4 DEF Used
<1>6. TypeOK'
  <2>1. \A i \in Slots : processes'[i] \in Process
    BY <1>2, <1>3, <1>4
  <2>2. processes' \in [Slots -> Process]
    BY <1>1, <2>1
  <2>3. memdemo_owner' \in [MEMDEMO_SLOTS -> DIRS \cup {NoDir}]
    BY <1>1 DEF TypeOK
  <2> QED BY <1>1, <2>2, <2>3 DEF TypeOK
<1>7. PidsUnique'
  BY <1>3, <1>5 DEF PidsUnique, Used
<1>8. ParentAlive'
  <2> SUFFICES ASSUME NEW i \in Used', processes'[i].parent_pid # 0
               PROVE  \E j \in Used' : /\ processes'[j].pid = processes'[i].parent_pid
                                       /\ processes'[j].state # "ZOMBIE"
    BY DEF ParentAlive
  <2>1. i \in Used /\ i \notin S /\ i \in Slots /\ processes[i].used
    BY <1>5 DEF Used
  <2>2. /\ processes'[i].parent_pid = processes[i].parent_pid
        /\ processes[i].parent_pid \notin pids
    BY <1>3, <2>1
  <2>3. PICK j \in Used : /\ processes[j].pid = processes[i].parent_pid
                          /\ processes[j].state # "ZOMBIE"
    BY <2>1, <2>2 DEF ParentAlive
  <2>4. j \notin S
    BY <2>2, <2>3 DEF pids
  <2> QED BY <1>3, <1>5, <2>2, <2>3, <2>4 DEF Used
<1>9. RunningIsCurrent'
  BY <1>2, <1>3, <1>4 DEF RunningIsCurrent
<1>10. SpacesOwned'
  <2>1. \A i \in Slots : processes'[i].used <=> processes'[i].state # "UNUSED"
    BY <1>2, <1>3, <1>4 DEF SpacesOwned
  <2>2. \A i \in Used' : processes'[i].page_directory_phys \in spaces'
    BY <1>1, <1>3, <1>5 DEF SpacesOwned, Used, dirs
  <2>3. \A i, j \in Used' :
          processes'[i].page_directory_phys = processes'[j].page_directory_phys => i = j
    BY <1>3, <1>5 DEF SpacesOwned, Used
  <2>4. \A dir \in spaces' : \E i \in Used' : processes'[i].page_directory_phys = dir
    BY <1>1, <1>3, <1>5 DEF SpacesOwned, Used, dirs
  <2> QED BY <2>1, <2>2, <2>3, <2>4 DEF SpacesOwned
<1>11. PagesOwned'
  <2>1. \A dir \in DIRS, page \in Pages :
          <<dir, page>> \in pages <=>
            \E i \in S : /\ processes[i].page_directory_phys = dir
                         /\ page \in {"code", "stack"} \cup processes[i].vm_page_bitmap
    <3> SUFFICES ASSUME NEW dir \in DIRS, NEW page \in Pages
                 PROVE  <<dir, page>> \in pages <=>
                          \E i \in S : /\ processes[i].page_directory_phys = dir
                                       /\ page \in {"code", "stack"}
                                                  \cup processes[i].vm_page_bitmap
      OBVIOUS
    <3>1. \A i \in S : <<dir, page>> \in PagesOf(processes[i]) <=>
                        /\ processes[i].page_directory_phys = dir
                        /\ page \in {"code", "stack"} \cup processes[i].vm_page_bitmap
      BY DEF PagesOf
    <3>2. <<dir, page>> \in pages <=> \E i \in S : <<dir, page>> \in PagesOf(processes[i])
      BY DEF pages
    <3> QED BY <3>1, <3>2
  <2>2. \A dir \in DIRS, page \in Pages :
          <<dir, page>> \in pager_pages' <=>
            \E i \in Used' : /\ processes'[i].page_directory_phys = dir
                             /\ page \in {"code", "stack"} \cup processes'[i].vm_page_bitmap
    <3> SUFFICES ASSUME NEW dir \in DIRS, NEW page \in Pages
                 PROVE  <<dir, page>> \in pager_pages' <=>
                          \E i \in Used' :
                            /\ processes'[i].page_directory_phys = dir
                            /\ page \in {"code", "stack"} \cup processes'[i].vm_page_bitmap
      OBVIOUS
    <3>1. <<dir, page>> \in pager_pages <=>
            \E i \in Used : /\ processes[i].page_directory_phys = dir
                            /\ page \in {"code", "stack"} \cup processes[i].vm_page_bitmap
      BY DEF PagesOwned
    <3>2. \A i, j \in Used : processes[i].page_directory_phys = processes[j].page_directory_phys
                               => i = j
      BY DEF SpacesOwned
    <3>3. <<dir, page>> \in pager_pages' <=> <<dir, page>> \in pager_pages /\ <<dir, page>> \notin pages
      BY <1>1
    <3>4. \A i \in Used' : /\ i \in Used /\ i \notin S
                           /\ processes'[i].page_directory_phys = processes[i].page_directory_phys
                           /\ processes'[i].vm_page_bitmap = processes[i].vm_page_bitmap
      BY <1>3, <1>5 DEF Used
    <3> QED BY <1>5, <2>1, <3>1, <3>2, <3>3, <3>4
  <2>3. \A dir \in DIRS, page \in Pages :
          <<dir, page>> \in pinned_pages' <=>
            page \in {"code", "stack"} /\ <<dir, page>> \in pager_pages'
    BY <1>1 DEF PagesOwned
  <2>4. \A s \in MEMDEMO_SLOTS : memdemo_owner'[s] \in spaces' \cup {NoDir}
    BY <1>1 DEF PagesOwned
  <2> QED BY <2>2, <2>3, <2>4 DEF PagesOwned
<1> QED BY <1>6, <1>7, <1>8, <1>9, <1>10, <1>11

-----------------------------------------------------------------------------
(* Shell commands.                                                         *)

\* Every command of the shell preserves the invariant.
LEMMA ShellCommandStep == IInv /\ ShellCommand => IInv'
<1> SUFFICES ASSUME IInv, ShellCommand PROVE IInv'
  OBVIOUS
<1>1. ASSUME NEW parent \in Pids, NEW priority \in Priorities, ShellSpawn(parent, priority)
      PROVE  IInv'
  BY <1>1, SpawnStep, MaxPidAssumption DEF ShellSpawn, Pids
<1>2. ASSUME NEW parent \in Pids, NEW child \in Pids, process_wait_child(parent, child)
      PROVE  IInv'
  <2>1. PICK i \in Slots : Matches(i, parent, child) /\ release_processes({i})
    BY <1>2 DEF process_wait_child
  <2>2. {i} \in SUBSET Used
    BY <2>1 DEF Matches, Used
  <2> QED BY <1>2, <2>1, <2>2, ReleaseStep DEF process_wait_child
<1>3. ASSUME NEW pid \in Pids, process_kill(pid)
      PROVE  IInv'
  <2>1. PICK i \in find_process_by_pid(pid) : release_processes({i})
    BY <1>3 DEF process_kill
  <2>2. {i} \in SUBSET Used
    BY <2>1 DEF find_process_by_pid, Used
  <2> QED BY <1>3, <2>1, <2>2, ReleaseStep DEF process_kill
<1>4. CASE process_reap_zombies
  <2> DEFINE Z == {i \in Slots : /\ processes[i].used
                                 /\ processes[i].state = "ZOMBIE"
                                 /\ processes[i].parent_pid = 0}
  <2>1. Z \in SUBSET Used
    BY DEF Used
  <2>2. release_processes(Z)
    BY <1>4 DEF process_reap_zombies
  <2> HIDE DEF Z
  <2> QED BY <1>4, <2>1, <2>2, ReleaseStep DEF process_reap_zombies
<1>5. ASSUME NEW pid \in Pids, NEW priority \in Priorities, process_set_priority(pid, priority)
      PROVE  IInv'
  <2> USE DEF IInv, control, memory
  <2>1. PICK i \in Slots : processes' = [processes EXCEPT ![i].priority = priority]
    BY <1>5 DEF process_set_priority, find_process_by_pid
  <2>2. UNCHANGED <<next_pid, current_pid, schedule_cursor, control, memory, banker_pids>>
    BY <1>5 DEF process_set_priority
  <2>3. TypeOK'
    BY <2>1, <2>2 DEF TypeOK, Process
  <2>4. \A j \in Slots : /\ processes'[j].used = processes[j].used
                         /\ processes'[j].pid = processes[j].pid
                         /\ processes'[j].parent_pid = processes[j].parent_pid
                         /\ processes'[j].state = processes[j].state
                         /\ processes'[j].page_directory_phys = processes[j].page_directory_phys
                         /\ processes'[j].vm_page_bitmap = processes[j].vm_page_bitmap
    BY <2>1 DEF TypeOK, Process
  <2>5. Used' = Used
    BY <2>4 DEF Used
  <2>6. PidsUnique' /\ ParentAlive'
    BY <2>2, <2>4, <2>5 DEF PidsUnique, ParentAlive, Used
  <2>7. RunningIsCurrent'
    BY <2>2, <2>4, <2>5 DEF RunningIsCurrent, TypeOK
  <2>8. SpacesOwned'
    BY <2>2, <2>4, <2>5 DEF SpacesOwned, Used
  <2>9. PagesOwned'
    BY <2>2, <2>4, <2>5 DEF PagesOwned, Used
  <2> QED BY <2>3, <2>6, <2>7, <2>8, <2>9
<1>6. ASSUME NEW pid \in BANKER_PIDS, BankerAdd(pid)
      PROVE  IInv'
  BY <1>6, MaxPidAssumption
  DEF BankerAdd, IInv, table, control, memory, TypeOK, PidsUnique, ParentAlive,
      RunningIsCurrent, SpacesOwned, PagesOwned, Used
<1>7. CASE BankerInit
  BY <1>7
  DEF BankerInit, IInv, table, control, memory, TypeOK, PidsUnique, ParentAlive,
      RunningIsCurrent, SpacesOwned, PagesOwned, Used
<1> QED BY <1>1, <1>2, <1>3, <1>4, <1>5, <1>6, <1>7 DEF ShellCommand

-----------------------------------------------------------------------------
(* Running.                                                                *)

\* Entering user mode: the only process that becomes RUNNING is the current one.
LEMMA RunStep ==
  ASSUME IInv, NEW i \in Slots, process_run(i)
  PROVE  IInv'
<1> USE DEF IInv, memory
<1>1. /\ kpc = "shell" /\ kpc' = "user" /\ selected' = i
      /\ processes[i].state = "READY"
      /\ cr3' = processes[i].page_directory_phys
      /\ current_pid' = processes[i].pid
      /\ processes' = [processes EXCEPT ![i].state = "RUNNING"]
      /\ UNCHANGED <<next_pid, schedule_cursor, result, memory, banker_pids>>
  BY DEF process_run
<1>2. i \in Used
  BY <1>1 DEF SpacesOwned, Used
<1>3. processes[i].page_directory_phys \in DIRS
  BY <1>2 DEF SpacesOwned, TypeOK
<1>4. TypeOK'
  BY <1>1, <1>3 DEF TypeOK, Process, ProcessState
<1>5. \A j \in Slots : /\ processes'[j].used = processes[j].used
                       /\ processes'[j].pid = processes[j].pid
                       /\ processes'[j].parent_pid = processes[j].parent_pid
                       /\ processes'[j].state = IF j = i THEN "RUNNING" ELSE processes[j].state
                       /\ processes'[j].page_directory_phys = processes[j].page_directory_phys
                       /\ processes'[j].vm_page_bitmap = processes[j].vm_page_bitmap
  BY <1>1 DEF TypeOK, Process
<1>6. Used' = Used
  BY <1>5 DEF Used
<1>7. PidsUnique'
  BY <1>1, <1>5, <1>6 DEF PidsUnique, Used
<1>8. ParentAlive'
  BY <1>5, <1>6 DEF ParentAlive, Used
<1>9. RunningIsCurrent'
  BY <1>1, <1>2, <1>5, <1>6 DEF RunningIsCurrent, PidsUnique, TypeOK
<1>10. SpacesOwned'
  BY <1>1, <1>2, <1>5, <1>6 DEF SpacesOwned, Used
<1>11. PagesOwned'
  BY <1>1, <1>5, <1>6 DEF PagesOwned, Used
<1> QED BY <1>4, <1>7, <1>8, <1>9, <1>10, <1>11

\* Leaving user mode, by any of the ways out, only moves the kernel thread.
LEMMA LeaveUserStep ==
  ASSUME IInv, kpc = "user", NEW r \in Results, usermode_return_to_kernel(r)
  PROVE  IInv'
BY DEF usermode_return_to_kernel, IInv, table, memory, TypeOK, PidsUnique, ParentAlive,
       RunningIsCurrent, SpacesOwned, PagesOwned, Used

\* What user code can do between entering and leaving user mode.
LEMMA UserStepStep == IInv /\ UserStep => IInv'
<1> SUFFICES ASSUME IInv, UserStep PROVE IInv'
  OBVIOUS
<1>1. ASSUME NEW code \in EXIT_CODES, SysExit(code) PROVE IInv'
  BY <1>1, LeaveUserStep DEF SysExit, Results
<1>2. CASE SysYield
  BY <1>2, LeaveUserStep DEF SysYield, Results
<1>3. CASE Preempt
  BY <1>3, LeaveUserStep DEF Preempt, Results
<1>4. CASE SysSpawnApp
  BY <1>4, SpawnStep DEF SysSpawnApp, IInv, TypeOK
<1>5. ASSUME NEW page \in VM_PAGES, process_vm_alloc_page(page) PROVE IInv'
  <2> USE DEF IInv, control
  <2>1. PICK i \in find_process_by_pid(current_pid) :
          /\ pager_pages' = pager_pages \cup {<<processes[i].page_directory_phys, page>>}
          /\ processes' = [processes EXCEPT ![i].vm_page_bitmap = @ \cup {page}]
    BY <1>5 DEF process_vm_alloc_page
  <2>2. UNCHANGED <<next_pid, current_pid, schedule_cursor, control, spaces,
                    pinned_pages, memdemo_owner, banker_pids>>
    BY <1>5 DEF process_vm_alloc_page
  <2>3. i \in Used /\ i \in Slots
    BY DEF find_process_by_pid, Used
  <2> DEFINE dir == processes[i].page_directory_phys
  <2>4. dir \in DIRS
    BY <2>3 DEF SpacesOwned, TypeOK
  <2>5. TypeOK'
    BY <2>1, <2>2, <2>3, <2>4 DEF TypeOK, Process, Pages
  <2>6. \A j \in Slots : /\ processes'[j].used = processes[j].used
                         /\ processes'[j].pid = processes[j].pid
                         /\ processes'[j].parent_pid = processes[j].parent_pid
                         /\ processes'[j].state = processes[j].state
                         /\ processes'[j].page_directory_phys = processes[j].page_directory_phys
    BY <2>1, <2>3 DEF TypeOK, Process
  <2>7. \A j \in Slots : processes'[j].vm_page_bitmap =
                              IF j = i THEN processes[j].vm_page_bitmap \cup {page}
                              ELSE processes[j].vm_page_bitmap
    BY <2>1, <2>3 DEF TypeOK, Process
  <2>8. Used' = Used
    BY <2>6 DEF Used
  <2>9. PidsUnique'
    BY <2>2, <2>6, <2>8 DEF PidsUnique, Used
  <2>10. ParentAlive'
    BY <2>6, <2>8 DEF ParentAlive, Used
  <2>11. RunningIsCurrent'
    BY <2>2, <2>6, <2>8 DEF RunningIsCurrent, TypeOK
  <2>12. SpacesOwned'
    BY <2>2, <2>6, <2>8 DEF SpacesOwned, Used
  <2>13. PagesOwned'
    <3>1. \A d \in DIRS, p \in Pages :
            <<d, p>> \in pager_pages' <=>
              \E j \in Used' : /\ processes'[j].page_directory_phys = d
                               /\ p \in {"code", "stack"} \cup processes'[j].vm_page_bitmap
      <4> SUFFICES ASSUME NEW d \in DIRS, NEW p \in Pages
                   PROVE  <<d, p>> \in pager_pages' <=>
                            \E j \in Used' :
                              /\ processes'[j].page_directory_phys = d
                              /\ p \in {"code", "stack"} \cup processes'[j].vm_page_bitmap
        OBVIOUS
      <4>1. <<d, p>> \in pager_pages <=>
              \E j \in Used : /\ processes[j].page_directory_phys = d
                              /\ p \in {"code", "stack"} \cup processes[j].vm_page_bitmap
        BY DEF PagesOwned
      <4>2. <<d, p>> \in pager_pages' <=>
              <<d, p>> \in pager_pages \/ (d = dir /\ p = page)
        BY <2>1
      <4> QED BY <2>3, <2>6, <2>7, <2>8, <4>1, <4>2 DEF Used
    <3>2. \A d \in DIRS, p \in Pages :
            <<d, p>> \in pinned_pages' <=>
              p \in {"code", "stack"} /\ <<d, p>> \in pager_pages'
      BY <2>1, <2>2, PageAssumption DEF PagesOwned
    <3> QED BY <2>2, <3>1, <3>2 DEF PagesOwned
  <2> QED BY <2>5, <2>9, <2>10, <2>11, <2>12, <2>13
<1>6. ASSUME NEW s \in MEMDEMO_SLOTS, memdemo_apply_op(s) PROVE IInv'
  <2> USE DEF IInv, table, control
  <2>1. /\ kpc = "user"
        /\ memdemo_owner' = [memdemo_owner EXCEPT ![s] = IF @ = NoDir THEN cr3 ELSE NoDir]
        /\ UNCHANGED <<table, control, spaces, pager_pages, pinned_pages, banker_pids>>
    BY <1>6 DEF memdemo_apply_op
  <2>2. cr3 \in spaces /\ cr3 \in DIRS
    <3>1. selected \in Used /\ cr3 = processes[selected].page_directory_phys
      BY <2>1 DEF RunningIsCurrent
    <3> QED BY <3>1 DEF SpacesOwned, TypeOK
  <2>3. TypeOK'
    BY <2>1, <2>2 DEF TypeOK
  <2>4. PagesOwned'
    <3>1. \A t \in MEMDEMO_SLOTS : memdemo_owner'[t] \in spaces \cup {NoDir}
      BY <2>1, <2>2 DEF PagesOwned, TypeOK
    <3>2. Used' = Used /\ processes' = processes
      BY <2>1 DEF Used
    <3> QED BY <2>1, <3>1, <3>2 DEF PagesOwned
  <2>5. PidsUnique' /\ ParentAlive' /\ RunningIsCurrent' /\ SpacesOwned'
    BY <2>1 DEF PidsUnique, ParentAlive, RunningIsCurrent, SpacesOwned, Used
  <2> QED BY <2>3, <2>4, <2>5
<1>7. CASE UserFault
  BY <1>7 DEF UserFault, IInv, table, memory, TypeOK, PidsUnique, ParentAlive,
              RunningIsCurrent, SpacesOwned, PagesOwned, Used
<1> QED BY <1>1, <1>2, <1>3, <1>4, <1>5, <1>6, <1>7 DEF UserStep

\* Back in process_run: READY again, or ZOMBIE with its children adopted.
LEMMA RunReturnStep == IInv /\ RunReturn => IInv'
<1> SUFFICES ASSUME IInv, RunReturn PROVE IInv'
  OBVIOUS
<1> USE DEF IInv, memory
<1>1. /\ kpc = "returning" /\ kpc' = "returned" /\ cr3' = KernelDir
      /\ UNCHANGED <<next_pid, current_pid, schedule_cursor, selected, result,
                     memory, banker_pids>>
  BY DEF RunReturn
<1>2. /\ selected \in Used /\ selected \in Slots
      /\ processes[selected].pid = current_pid
      /\ \A i \in Slots : processes[i].state = "RUNNING" <=> i = selected
  BY <1>1 DEF RunningIsCurrent, Used
<1>3. current_pid # 0
  BY <1>1 DEF RunningIsCurrent
<1>4. ASSUME NEW st \in {"READY", "ZOMBIE"},
             processes' \in [Slots -> Process],
             \A j \in Slots :
               /\ processes'[j].used = processes[j].used
               /\ processes'[j].pid = processes[j].pid
               /\ processes'[j].state = IF j = selected THEN st ELSE processes[j].state
               /\ processes'[j].page_directory_phys = processes[j].page_directory_phys
               /\ processes'[j].vm_page_bitmap = processes[j].vm_page_bitmap,
             \A j \in Used :
               \/ processes'[j].parent_pid = 0
               \/ /\ processes'[j].parent_pid = processes[j].parent_pid
                  /\ st = "ZOMBIE" => processes[j].parent_pid # current_pid
      PROVE  IInv'
  <2>1. Used' = Used
    BY <1>4 DEF Used
  <2>2. TypeOK'
    BY <1>1, <1>4 DEF TypeOK
  <2>3. PidsUnique'
    BY <1>1, <1>4, <2>1 DEF PidsUnique, Used
  <2>4. ParentAlive'
    <3> SUFFICES ASSUME NEW j \in Used, processes'[j].parent_pid # 0
                 PROVE  \E k \in Used : /\ processes'[k].pid = processes'[j].parent_pid
                                        /\ processes'[k].state # "ZOMBIE"
      BY <2>1 DEF ParentAlive
    <3>1. /\ processes'[j].parent_pid = processes[j].parent_pid
          /\ st = "ZOMBIE" => processes[j].parent_pid # current_pid
      BY <1>4
    <3>2. PICK k \in Used : /\ processes[k].pid = processes[j].parent_pid
                            /\ processes[k].state # "ZOMBIE"
      BY <3>1 DEF ParentAlive
    <3> QED BY <1>2, <1>4, <3>1, <3>2 DEF Used
  <2>5. RunningIsCurrent'
    BY <1>1, <1>2, <1>3, <1>4, <2>1 DEF RunningIsCurrent, Used
  <2>6. SpacesOwned'
    BY <1>1, <1>2, <1>4, <2>1 DEF SpacesOwned, Used
  <2>7. PagesOwned'
    BY <1>1, <1>4, <2>1 DEF PagesOwned, Used
  <2> QED BY <2>2, <2>3, <2>4, <2>5, <2>6, <2>7
<1>5. CASE result = USERMODE_RETURN_YIELD
  <2>1. processes' = [processes EXCEPT ![selected].state = "READY"]
    BY <1>5 DEF RunReturn
  <2>2. processes' \in [Slots -> Process]
    BY <1>2, <2>1 DEF TypeOK, Process, ProcessState
  <2>3. \A j \in Slots :
          /\ processes'[j].used = processes[j].used
          /\ processes'[j].pid = processes[j].pid
          /\ processes'[j].parent_pid = processes[j].parent_pid
          /\ processes'[j].state = IF j = selected THEN "READY" ELSE processes[j].state
          /\ processes'[j].page_directory_phys = processes[j].page_directory_phys
          /\ processes'[j].vm_page_bitmap = processes[j].vm_page_bitmap
    BY <2>1 DEF TypeOK, Process
  <2> QED BY <1>4, <2>2, <2>3 DEF Used
<1>6. CASE result # USERMODE_RETURN_YIELD
  <2> DEFINE exiting == [processes EXCEPT ![selected].state = "ZOMBIE",
                                          ![selected].exit_code = result]
  <2>1. processes' = adopt_children(exiting, current_pid)
    BY <1>2, <1>6 DEF RunReturn
  <2>2. exiting \in [Slots -> Process]
    <3> DEFINE p == [processes[selected] EXCEPT !.state = "ZOMBIE", !.exit_code = result]
    <3>1. p \in Process
      BY <1>2 DEF TypeOK, Process, ProcessState
    <3>2. \A j \in Slots : exiting[j] = IF j = selected THEN p ELSE processes[j]
      BY <1>2 DEF TypeOK
    <3>3. \A j \in Slots : exiting[j] \in Process
      BY <3>1, <3>2 DEF TypeOK
    <3>4. exiting = [j \in Slots |-> exiting[j]]
      BY DEF TypeOK
    <3> HIDE DEF exiting
    <3> QED BY <3>3, <3>4
  <2>3. \A j \in Slots :
          /\ exiting[j].used = processes[j].used
          /\ exiting[j].pid = processes[j].pid
          /\ exiting[j].parent_pid = processes[j].parent_pid
          /\ exiting[j].state = IF j = selected THEN "ZOMBIE" ELSE processes[j].state
          /\ exiting[j].page_directory_phys = processes[j].page_directory_phys
          /\ exiting[j].vm_page_bitmap = processes[j].vm_page_bitmap
    BY DEF TypeOK, Process
  <2> HIDE DEF exiting
  <2>4. processes' \in [Slots -> Process]
    BY <2>1, <2>2 DEF adopt_children, Process
  <2>5. \A j \in Slots :
          /\ processes'[j].used = exiting[j].used
          /\ processes'[j].pid = exiting[j].pid
          /\ processes'[j].state = exiting[j].state
          /\ processes'[j].page_directory_phys = exiting[j].page_directory_phys
          /\ processes'[j].vm_page_bitmap = exiting[j].vm_page_bitmap
          /\ exiting[j].used =>
               \/ processes'[j].parent_pid = 0
               \/ /\ processes'[j].parent_pid = exiting[j].parent_pid
                  /\ exiting[j].parent_pid # current_pid
    BY <1>3, <2>1, <2>2 DEF adopt_children, Process
  <2> QED BY <1>4, <2>3, <2>4, <2>5 DEF Used
<1> QED BY <1>5, <1>6

\* The end of process_schedule_auto: the cursor stays inside the table.
LEMMA RunDoneStep == IInv /\ RunDone => IInv'
<1> SUFFICES ASSUME IInv, RunDone PROVE IInv'
  OBVIOUS
<1>1. (selected + 1) % PROCESS_MAX \in Slots
  BY ProcessMaxAssumption DEF IInv, TypeOK, Slots
<1> USE DEF RunDone, IInv, memory
<1>2. TypeOK'
  BY <1>1 DEF TypeOK
<1>3. Used' = Used /\ processes' = processes
  BY DEF Used
<1>4. PidsUnique' /\ ParentAlive' /\ RunningIsCurrent'
  BY <1>3 DEF PidsUnique, ParentAlive, RunningIsCurrent
<1>5. SpacesOwned' /\ PagesOwned'
  BY <1>3 DEF SpacesOwned, PagesOwned
<1> QED BY <1>2, <1>4, <1>5

\* Freeing every memdemo slot.
LEMMA MemdemoResetStep == IInv /\ memdemo_reset => IInv'
<1> SUFFICES ASSUME IInv, memdemo_reset PROVE IInv'
  OBVIOUS
<1> USE DEF memdemo_reset, IInv, table, control
<1>1. TypeOK'
  BY DEF TypeOK
<1>2. Used' = Used /\ processes' = processes
  BY DEF Used
<1>3. PidsUnique' /\ ParentAlive' /\ RunningIsCurrent'
  BY <1>2 DEF PidsUnique, ParentAlive, RunningIsCurrent
<1>4. SpacesOwned' /\ PagesOwned'
  BY <1>2 DEF SpacesOwned, PagesOwned
<1> QED BY <1>1, <1>3, <1>4

-----------------------------------------------------------------------------
(* Theorems.                                                               *)

\* IInv is inductive: every step of the kernel thread, every system call and
\* every shell command preserves it.
LEMMA NextIInv == IInv /\ [Next]_vars => IInv'
<1> SUFFICES ASSUME IInv, [Next]_vars PROVE IInv'
  OBVIOUS
<1>1. CASE UNCHANGED vars
  BY <1>1 DEF vars, table, control, memory, IInv, TypeOK, PidsUnique, ParentAlive,
              RunningIsCurrent, SpacesOwned, PagesOwned, Used
<1>2. CASE ShellCommand
  BY <1>2, ShellCommandStep
<1>3. ASSUME NEW i \in Slots, process_run(i) PROVE IInv'
  BY <1>3, RunStep
<1>4. CASE UserStep
  BY <1>4, UserStepStep
<1>5. CASE memdemo_reset
  BY <1>5, MemdemoResetStep
<1>6. CASE RunReturn
  BY <1>6, RunReturnStep
<1>7. CASE RunDone
  BY <1>7, RunDoneStep
<1>8. CASE Halted
  BY <1>1, <1>8 DEF Halted
<1> QED BY <1>1, <1>2, <1>3, <1>4, <1>5, <1>6, <1>7, <1>8 DEF Next

\* The inductive invariant holds in every reachable state.
THEOREM InductiveInvariant == Spec => []IInv
BY InitIInv, NextIInv, PTL DEF Spec

\* Type correctness of the process table and of all it owns, for every number
\* of slots: in particular schedule_cursor never leaves the table.
THEOREM TypeCorrect == Spec => []TypeOK
<1>1. IInv => TypeOK
  BY DEF IInv
<1> QED BY <1>1, InductiveInvariant, PTL

\* No two live processes ever share a pid (find_process_by_pid is a function).
THEOREM UniquePids == Spec => []PidsUnique
<1>1. IInv => PidsUnique
  BY DEF IInv
<1> QED BY <1>1, InductiveInvariant, PTL

\* No live process ever has a parent that has exited or been released, however
\* spawn, exit, wait, kill and reap interleave (adopt_children).
THEOREM ParentsAlive == Spec => []ParentAlive
<1>1. IInv => ParentAlive
  BY DEF IInv
<1> QED BY <1>1, InductiveInvariant, PTL

\* User mode always runs the process current_pid names in its own address
\* space, and nothing is RUNNING while the kernel serves the shell.
THEOREM RunsCurrent == Spec => []RunningIsCurrent
<1>1. IInv => RunningIsCurrent
  BY DEF IInv
<1> QED BY <1>1, InductiveInvariant, PTL

\* No spawn that fails half-way and no release leaks or shares an address
\* space (process_spawn_child_from_buffer_with_priority, release_process).
THEOREM SpacesExact == Spec => []SpacesOwned
<1>1. IInv => SpacesOwned
  BY DEF IInv
<1> QED BY <1>1, InductiveInvariant, PTL

\* The pager and memdemo hold exactly the pages of the live processes.
THEOREM PagesExact == Spec => []PagesOwned
<1>1. IInv => PagesOwned
  BY DEF IInv
<1> QED BY <1>1, InductiveInvariant, PTL
-----------------------------------------------------------------------------
(* What a step may never do.                                               *)

\* What any step does to one slot: nothing the three theorems below watch, a
\* spawn into a free slot, a release, a dispatch, or the end of a run.
SlotStep(i) ==
  LET p == processes[i]
      q == processes'[i] IN
  \/ q = p
  \/ /\ ~p.used                                                  \* spawn
     /\ ~q.used \/ (q.pid = next_pid /\ next_pid' = next_pid + 1)
  \/ /\ p.used /\ q = BlankProcess /\ p.pid \notin banker_pids'  \* release
  \/ /\ p.used /\ q = [p EXCEPT !.parent_pid = 0]                \* adoption
  \/ /\ p.used /\ q.used /\ q.pid = p.pid /\ p.state # "ZOMBIE"

\* Every step treats every slot in one of these ways.
LEMMA NextSlotStep == IInv /\ [Next]_vars => \A i \in Slots : SlotStep(i)
<1> SUFFICES ASSUME IInv, [Next]_vars, NEW i \in Slots PROVE SlotStep(i)
  OBVIOUS
<1> USE DEF SlotStep
<1>0. TypeOK
  BY DEF IInv
<1>1. ASSUME processes' = processes PROVE SlotStep(i)
  BY <1>1
<1>2. ASSUME NEW parent \in Nat, NEW priority, process_spawn_child(parent, priority)
      PROVE  SlotStep(i)
  <2>1. PICK k \in Slots :
          /\ FirstFree(k)
          /\ \/ SpawnNoSpace(k, parent, priority)
             \/ SpawnNoCodePage(k, parent, priority)
             \/ SpawnNoStackPage(k, parent, priority)
             \/ SpawnOk(k, parent, priority)
    BY <1>2 DEF process_spawn_child
  <2>2. ~processes[k].used /\ next_pid' = next_pid + 1 /\ priority \in Priorities
    BY <1>2, <2>1 DEF FirstFree, process_spawn_child
  <2>3. PICK dir \in DIRS \cup {NoDir} :
          \/ processes' = [processes EXCEPT ![k] = FailedProcess(parent, priority, dir)]
          \/ processes' = [processes EXCEPT ![k] = NewProcess(parent, priority, dir)]
    BY <2>1 DEF SpawnNoSpace, SpawnNoCodePage, SpawnNoStackPage, SpawnOk
  <2>4. /\ ~FailedProcess(parent, priority, dir).used
        /\ NewProcess(parent, priority, dir).pid = next_pid
    BY <1>0, <2>2, SpawnRecords
  <2>5. k # i => processes'[i] = processes[i]
    BY <1>0, <2>3 DEF TypeOK
  <2>6. \/ processes'[k] = FailedProcess(parent, priority, dir)
        \/ processes'[k] = NewProcess(parent, priority, dir)
    BY <1>0, <2>3 DEF TypeOK
  <2> QED BY <2>2, <2>4, <2>5, <2>6
<1>3. ASSUME NEW S \in SUBSET Used, release_processes(S) PROVE SlotStep(i)
  BY <1>3 DEF release_processes, Used
<1>4. CASE ShellCommand
  <2>1. ASSUME NEW parent \in Pids, NEW priority \in Priorities,
               ShellSpawn(parent, priority)
        PROVE  SlotStep(i)
    BY <1>2, <2>1 DEF ShellSpawn, Pids
  <2>2. ASSUME NEW parent \in Pids, NEW child \in Pids, process_wait_child(parent, child)
        PROVE  SlotStep(i)
    BY <1>3, <2>2 DEF process_wait_child, Matches, Used
  <2>3. ASSUME NEW pid \in Pids, process_kill(pid) PROVE SlotStep(i)
    BY <1>3, <2>3 DEF process_kill, find_process_by_pid, Used
  <2>4. CASE process_reap_zombies
    BY <1>3, <2>4 DEF process_reap_zombies, Used
  <2>5. ASSUME NEW pid \in Pids, NEW priority \in Priorities,
               process_set_priority(pid, priority)
        PROVE  SlotStep(i)
    BY <1>0, <2>5 DEF process_set_priority, find_process_by_pid, TypeOK, Process
  <2>6. ASSUME NEW pid \in BANKER_PIDS, BankerAdd(pid) PROVE SlotStep(i)
    BY <1>1, <2>6 DEF BankerAdd, table
  <2>7. CASE BankerInit
    BY <1>1, <2>7 DEF BankerInit, table
  <2> QED BY <1>4, <2>1, <2>2, <2>3, <2>4, <2>5, <2>6, <2>7 DEF ShellCommand
<1>5. ASSUME NEW k \in Slots, process_run(k) PROVE SlotStep(i)
  BY <1>0, <1>5 DEF process_run, TypeOK, Process, IInv, SpacesOwned
<1>6. CASE UserStep
  <2>1. ASSUME NEW r, usermode_return_to_kernel(r) PROVE SlotStep(i)
    BY <1>1, <2>1 DEF usermode_return_to_kernel, table
  <2>2. CASE SysSpawnApp
    BY <1>0, <1>2, <2>2 DEF SysSpawnApp, TypeOK
  <2>3. ASSUME NEW page \in VM_PAGES, process_vm_alloc_page(page) PROVE SlotStep(i)
    <3>1. PICK k \in find_process_by_pid(current_pid) :
            /\ processes[k].state = "RUNNING"
            /\ processes' = [processes EXCEPT ![k].vm_page_bitmap = @ \cup {page}]
      BY <2>3 DEF process_vm_alloc_page
    <3> QED BY <1>0, <3>1 DEF find_process_by_pid, TypeOK, Process
  <2>4. ASSUME NEW s \in MEMDEMO_SLOTS, memdemo_apply_op(s) PROVE SlotStep(i)
    BY <1>1, <2>4 DEF memdemo_apply_op, table
  <2>5. CASE UserFault
    BY <1>1, <2>5 DEF UserFault, table
  <2> QED BY <1>6, <2>1, <2>2, <2>3, <2>4, <2>5 DEF UserStep, SysExit, SysYield, Preempt
<1>7. CASE RunReturn
  <2>1. /\ selected \in Used /\ selected \in Slots
        /\ processes[selected].state = "RUNNING"
    BY <1>7 DEF RunReturn, IInv, RunningIsCurrent, Used
  <2>2. CASE result = USERMODE_RETURN_YIELD
    BY <1>0, <1>7, <2>1, <2>2 DEF RunReturn, TypeOK, Process, Used
  <2>3. CASE result # USERMODE_RETURN_YIELD
    <3> DEFINE exiting == [processes EXCEPT ![selected].state = "ZOMBIE",
                                            ![selected].exit_code = result]
    <3>1. processes' = adopt_children(exiting, processes[selected].pid)
      BY <1>7, <2>3 DEF RunReturn
    <3>2. /\ exiting[i].used = processes[i].used
          /\ exiting[i].pid = processes[i].pid
          /\ i # selected => exiting[i] = processes[i]
      BY <1>0 DEF TypeOK, Process
    <3>3. i = selected => exiting[i] =
            [processes[i] EXCEPT !.state = "ZOMBIE", !.exit_code = result]
      BY <1>0 DEF TypeOK
    <3> HIDE DEF exiting
    <3>4. \/ processes'[i] = exiting[i]
          \/ /\ exiting[i].used
             /\ processes'[i] = [exiting[i] EXCEPT !.parent_pid = 0]
      BY <3>1 DEF adopt_children
    <3>5. CASE i # selected
      BY <3>2, <3>4, <3>5
    <3>6. CASE i = selected
      <4>1. processes'[i].used /\ processes'[i].pid = processes[i].pid
        BY <1>0, <2>1, <3>2, <3>3, <3>4, <3>6 DEF TypeOK, Process, Used
      <4> QED BY <2>1, <3>6, <4>1 DEF Used
    <3> QED BY <3>5, <3>6
  <2> QED BY <2>2, <2>3
<1>8. CASE UNCHANGED vars \/ memdemo_reset \/ RunDone \/ Halted
  BY <1>1, <1>8 DEF vars, table, memdemo_reset, RunDone, Halted
<1> QED BY <1>4, <1>5, <1>6, <1>7, <1>8 DEF Next

\* A zombie is only ever adopted or released: it never runs again and its exit
\* code waits for wait, kill or reap (process_run, process_set_priority).
THEOREM ZombiesFinal == Spec => ZombieIsFinal
<1>1. IInv /\ [Next]_vars =>
        \A i \in Slots :
          processes[i].state = "ZOMBIE" =>
            \/ processes'[i] = BlankProcess
            \/ processes'[i] = [processes[i] EXCEPT !.parent_pid = processes'[i].parent_pid]
  <2> SUFFICES ASSUME IInv, [Next]_vars, NEW i \in Slots, processes[i].state = "ZOMBIE"
               PROVE  \/ processes'[i] = BlankProcess
                      \/ processes'[i] =
                           [processes[i] EXCEPT !.parent_pid = processes'[i].parent_pid]
    OBVIOUS
  <2>1. SlotStep(i)
    BY NextSlotStep
  <2>2. processes[i].used /\ processes[i] \in Process
    BY DEF IInv, SpacesOwned, TypeOK
  <2> QED BY <2>1, <2>2 DEF SlotStep, Process
<1> QED BY <1>1, InductiveInvariant, PTL DEF Spec, ZombieIsFinal

\* A pid seen in the table after a step and not before it is one that no
\* process ever had: next_pid only grows (allocate_process).
THEOREM PidsNeverReused == Spec => PidNeverReused
<1>1. IInv /\ [Next]_vars =>
        \A i \in Slots :
          processes'[i].used /\ (~processes[i].used \/ processes'[i].pid # processes[i].pid)
            => processes'[i].pid >= next_pid /\ processes'[i].pid < next_pid'
  <2> SUFFICES ASSUME IInv, [Next]_vars, NEW i \in Slots, processes'[i].used,
                      ~processes[i].used \/ processes'[i].pid # processes[i].pid
               PROVE  processes'[i].pid >= next_pid /\ processes'[i].pid < next_pid'
    OBVIOUS
  <2>1. SlotStep(i)
    BY NextSlotStep
  <2>2. next_pid \in Nat /\ processes[i] \in Process
    BY DEF IInv, TypeOK
  <2> QED BY <2>1, <2>2 DEF SlotStep, Process, BlankProcess
<1> QED BY <1>1, InductiveInvariant, PTL DEF Spec, PidNeverReused

\* No process leaves the table and stays registered with the banker
\* (release_process, from wait, kill and reap alike).
THEOREM ReleasesUnregister == Spec => ReleaseUnregisters
<1>1. IInv /\ [Next]_vars =>
        \A i \in Slots :
          processes[i].used /\ ~processes'[i].used => processes[i].pid \notin banker_pids'
  <2> SUFFICES ASSUME IInv, [Next]_vars, NEW i \in Slots,
                      processes[i].used, ~processes'[i].used
               PROVE  processes[i].pid \notin banker_pids'
    OBVIOUS
  <2>1. SlotStep(i)
    BY NextSlotStep
  <2>2. processes[i] \in Process
    BY DEF IInv, TypeOK
  <2> QED BY <2>1, <2>2 DEF SlotStep, Process
<1> QED BY <1>1, InductiveInvariant, PTL DEF Spec, ReleaseUnregisters
-----------------------------------------------------------------------------
(* The scheduler.                                                          *)

\* One pass of the loop of select_next_ready_process, at the k-th slot from
\* the cursor, with prev the best found so far.
ScanSlot(k) == (schedule_cursor + k - 1) % PROCESS_MAX
Waits(i) == processes[i].used /\ processes[i].state = "READY"
ScanStep(k, prev) ==
  IF Waits(ScanSlot(k)) /\ processes[ScanSlot(k)].priority > prev.best_priority
  THEN [slot |-> ScanSlot(k), best_priority |-> processes[ScanSlot(k)].priority]
  ELSE prev
ScanStart == [slot |-> -1, best_priority |-> PROCESS_PRIORITY_MIN - 1]
Scans == [slot : Int, best_priority : Int]

\* The scan starts at the cursor and passes every slot once: the k-th slot it
\* meets is at distance k - 1, and every slot i is met at pass Distance(i) + 1.
LEMMA ScanOrder ==
  ASSUME TypeOK
  PROVE  /\ \A k \in 1 .. PROCESS_MAX :
              ScanSlot(k) \in Slots /\ Distance(ScanSlot(k)) = k - 1
         /\ \A i \in Slots :
              /\ Distance(i) + 1 \in 1 .. PROCESS_MAX
              /\ ScanSlot(Distance(i) + 1) = i
<1> USE ProcessMaxAssumption
<1> DEFINE c == schedule_cursor
           N == PROCESS_MAX
<1>1. c \in 0 .. N - 1 /\ N \in Nat \ {0}
  BY DEF TypeOK, Slots
<1> HIDE DEF c, N
<1>2. \A k \in 1 .. N :
        (c + k - 1) % N = IF c + k - 1 < N THEN c + k - 1 ELSE c + k - 1 - N
  BY <1>1, RingIndexes
<1>3. ASSUME NEW i \in 0 .. N - 1
      PROVE  (i + N - c) % N = IF i < c THEN i + N - c ELSE i - c
  BY <1>1, RingIndexes
<1>4. ASSUME NEW k \in 1 .. N
      PROVE  /\ (c + k - 1) % N \in 0 .. N - 1
             /\ (((c + k - 1) % N) + N - c) % N = k - 1
  <2> DEFINE s == (c + k - 1) % N
  <2>1. s = IF c + k - 1 < N THEN c + k - 1 ELSE c + k - 1 - N
    BY <1>2
  <2> HIDE DEF s
  <2>2. s \in 0 .. N - 1
    BY <1>1, <2>1
  <2>3. (s + N - c) % N = IF s < c THEN s + N - c ELSE s - c
    BY <1>3, <2>2
  <2>4. (s + N - c) % N = k - 1
    BY <1>1, <2>1, <2>2, <2>3
  <2> QED BY <2>2, <2>4 DEF s
<1>5. ASSUME NEW i \in 0 .. N - 1
      PROVE  /\ ((i + N - c) % N) + 1 \in 1 .. N
             /\ (c + (((i + N - c) % N) + 1) - 1) % N = i
  <2> DEFINE d == (i + N - c) % N
  <2>1. d = IF i < c THEN i + N - c ELSE i - c
    BY <1>3
  <2> HIDE DEF d
  <2>2. d + 1 \in 1 .. N
    BY <1>1, <2>1
  <2>3. (c + (d + 1) - 1) % N
          = IF c + (d + 1) - 1 < N THEN c + (d + 1) - 1 ELSE c + (d + 1) - 1 - N
    BY <1>2, <2>2
  <2>4. (c + (d + 1) - 1) % N = i
    BY <1>1, <2>1, <2>3
  <2> QED BY <2>2, <2>4 DEF d
<1> QED BY <1>4, <1>5 DEF c, N, ScanSlot, Distance, Slots

\* The recursive function SelectScan computes the passes of the loop.
LEMMA SelectScanPasses ==
  ASSUME TypeOK
  PROVE  /\ SelectScan[0] = ScanStart
         /\ \A k \in 1 .. PROCESS_MAX : SelectScan[k] = ScanStep(k, SelectScan[k - 1])
<1> USE ProcessMaxAssumption, PriorityAssumption
<1> DEFINE D == [p \in (1 .. PROCESS_MAX) \X Scans |-> ScanStep(p[1], p[2])]
<1>1. ASSUME NEW k \in 1 .. PROCESS_MAX, NEW prev \in Scans
      PROVE  ScanStep(k, prev) \in Scans
  <2>1. ScanSlot(k) \in Slots
    BY ScanOrder
  <2>2. processes[ScanSlot(k)].priority \in Int /\ ScanSlot(k) \in Int
    BY <2>1 DEF TypeOK, Process, Priorities, Slots
  <2> QED BY <2>2 DEF ScanStep, Scans
<1>2. IsLoopBody(D, PROCESS_MAX, Scans)
  BY <1>1 DEF IsLoopBody
<1>3. ScanStart \in Scans
  BY DEF ScanStart, Scans
<1>4. \A k \in 1 .. PROCESS_MAX, v \in Scans : D[<<k, v>>] = ScanStep(k, v)
  OBVIOUS
<1> HIDE DEF D
<1>5. PICK g : IsLoopRun(g, ScanStart, D, PROCESS_MAX, Scans)
  BY <1>2, <1>3, RecursionExists
<1>6. /\ g \in [0 .. PROCESS_MAX -> Scans]
      /\ g[0] = ScanStart
      /\ \A k \in 1 .. PROCESS_MAX : g[k] = D[<<k, g[k - 1]>>]
  BY <1>5 DEF IsLoopRun
<1> DEFINE Body(f) == [k \in 0 .. PROCESS_MAX |->
                         IF k = 0 THEN ScanStart ELSE ScanStep(k, f[k - 1])]
<1>7. g = Body(g)
  <2>1. ASSUME NEW k \in 0 .. PROCESS_MAX
        PROVE  g[k] = IF k = 0 THEN ScanStart ELSE ScanStep(k, g[k - 1])
    <3>1. CASE k = 0
      BY <1>6, <3>1
    <3>2. CASE k # 0
      <4>1. k \in 1 .. PROCESS_MAX /\ g[k - 1] \in Scans
        BY <1>6, <3>2
      <4> QED BY <1>4, <1>6, <3>2, <4>1
    <3> QED BY <3>1, <3>2
  <2> QED BY <1>6, <2>1
<1>8. SelectScan = CHOOSE f : f = Body(f)
  BY DEF SelectScan, ScanStart, ScanStep, ScanSlot, Waits
<1>9. SelectScan = Body(SelectScan)
  <2> HIDE DEF Body
  <2> QED BY <1>7, <1>8
<1>10. \A k \in 0 .. PROCESS_MAX :
        SelectScan[k] = IF k = 0 THEN ScanStart ELSE ScanStep(k, SelectScan[k - 1])
  BY <1>9
<1> QED BY <1>10

\* The scan after k passes: nobody waits among the slots passed and the slot is
\* -1, or the slot was met at a pass m, holds a waiting process of the best
\* priority seen, and no earlier pass met that priority.
ScanExact(k, scan) ==
  \/ /\ scan = ScanStart
     /\ \A j \in 1 .. k : ~Waits(ScanSlot(j))
  \/ \E m \in 1 .. k :
       /\ scan.slot = ScanSlot(m)
       /\ scan.best_priority = processes[ScanSlot(m)].priority
       /\ Waits(ScanSlot(m))
       /\ \A j \in 1 .. k :
            Waits(ScanSlot(j)) =>
              \/ processes[ScanSlot(j)].priority < scan.best_priority
              \/ processes[ScanSlot(j)].priority = scan.best_priority /\ m <= j

\* One more pass of the loop keeps the scan exact.
LEMMA ScanStepExact ==
  ASSUME TypeOK, NEW k \in 1 .. PROCESS_MAX, NEW prev, ScanExact(k - 1, prev)
  PROVE  ScanExact(k, ScanStep(k, prev))
<1> USE ProcessMaxAssumption, PriorityAssumption
<1> DEFINE next == ScanStep(k, prev)
           prio(j) == processes[ScanSlot(j)].priority
<1>1. \A j \in 1 .. k : ScanSlot(j) \in Slots /\ prio(j) \in Priorities
  BY ScanOrder DEF TypeOK, Process
<1>2. \A j \in 1 .. k : prio(j) \in Int /\ prio(j) > PROCESS_PRIORITY_MIN - 1
  BY <1>1 DEF Priorities
<1> HIDE DEF next
<1>3. CASE Waits(ScanSlot(k)) /\ prio(k) > prev.best_priority
  <2>1. next.slot = ScanSlot(k) /\ next.best_priority = prio(k)
    BY <1>3 DEF next, ScanStep
  <2>2. \A j \in 1 .. k - 1 : Waits(ScanSlot(j)) => prio(j) < prio(k)
    <3>1. CASE prev = ScanStart /\ \A j \in 1 .. k - 1 : ~Waits(ScanSlot(j))
      BY <3>1
    <3>2. ASSUME NEW m \in 1 .. k - 1,
                 prev.best_priority = prio(m),
                 \A j \in 1 .. k - 1 :
                   Waits(ScanSlot(j)) => \/ prio(j) < prev.best_priority
                                         \/ prio(j) = prev.best_priority /\ m <= j
          PROVE  \A j \in 1 .. k - 1 : Waits(ScanSlot(j)) => prio(j) < prio(k)
      BY <1>2, <1>3, <3>2
    <3> QED BY <3>1, <3>2 DEF ScanExact
  <2>3. \A j \in 1 .. k :
          Waits(ScanSlot(j)) => prio(j) < prio(k) \/ (prio(j) = prio(k) /\ k <= j)
    <3> SUFFICES ASSUME NEW j \in 1 .. k, Waits(ScanSlot(j))
                 PROVE  prio(j) < prio(k) \/ (prio(j) = prio(k) /\ k <= j)
      OBVIOUS
    <3>1. CASE j = k
      BY <3>1
    <3>2. CASE j # k
      BY <2>2, <3>2
    <3> QED BY <3>1, <3>2
  <2>4. k \in 1 .. k
    OBVIOUS
  <2>5. ScanExact(k, next)
    BY <1>3, <2>1, <2>3, <2>4 DEF ScanExact
  <2> QED BY <2>5 DEF next
<1>4. CASE ~(Waits(ScanSlot(k)) /\ prio(k) > prev.best_priority)
  <2>1. next = prev
    BY <1>4 DEF next, ScanStep
  <2>2. CASE prev = ScanStart /\ \A j \in 1 .. k - 1 : ~Waits(ScanSlot(j))
    <3>1. ~Waits(ScanSlot(k))
      BY <1>2, <1>4, <2>2 DEF ScanStart
    <3>2. \A j \in 1 .. k : j = k \/ j \in 1 .. k - 1
      OBVIOUS
    <3>3. ScanExact(k, prev)
      BY <2>2, <3>1, <3>2 DEF ScanExact
    <3> QED BY <2>1, <3>3 DEF next
  <2>3. ASSUME NEW m \in 1 .. k - 1,
               /\ prev.slot = ScanSlot(m)
               /\ prev.best_priority = prio(m)
               /\ Waits(ScanSlot(m))
               /\ \A j \in 1 .. k - 1 :
                    Waits(ScanSlot(j)) => \/ prio(j) < prev.best_priority
                                          \/ prio(j) = prev.best_priority /\ m <= j
        PROVE  ScanExact(k, next)
    <3>1. Waits(ScanSlot(k)) => prio(k) < prio(m) \/ (prio(k) = prio(m) /\ m <= k)
      BY <1>2, <1>4, <2>3
    <3>2. m \in 1 .. k /\ \A j \in 1 .. k : j = k \/ j \in 1 .. k - 1
      OBVIOUS
    <3>3. \A j \in 1 .. k :
            Waits(ScanSlot(j)) => prio(j) < prio(m) \/ (prio(j) = prio(m) /\ m <= j)
      BY <2>3, <3>1, <3>2
    <3>4. ScanExact(k, prev)
      BY <2>3, <3>2, <3>3 DEF ScanExact
    <3> QED BY <2>1, <3>4
  <2> QED BY <2>2, <2>3 DEF ScanExact, next
<1> QED BY <1>3, <1>4

\* The loop of select_next_ready_process computes what it should.
LEMMA SelectScanExact ==
  ASSUME TypeOK
  PROVE  ScanExact(PROCESS_MAX, SelectScan[PROCESS_MAX])
<1> USE ProcessMaxAssumption
<1> DEFINE T == {k \in 0 .. PROCESS_MAX : ScanExact(k, SelectScan[k])}
<1>1. 0 \in T
  BY SelectScanPasses DEF ScanExact
<1>2. ASSUME NEW n \in 0 .. PROCESS_MAX - 1, n \in T PROVE n + 1 \in T
  <2>1. n + 1 \in 1 .. PROCESS_MAX /\ (n + 1) - 1 = n
    OBVIOUS
  <2>2. SelectScan[n + 1] = ScanStep(n + 1, SelectScan[n])
    BY <2>1, SelectScanPasses
  <2>3. ScanExact(n + 1, ScanStep(n + 1, SelectScan[n]))
    BY <1>2, <2>1, ScanStepExact
  <2> QED BY <2>1, <2>2, <2>3
<1>3. 0 .. PROCESS_MAX \subseteq T
  <2> HIDE DEF T
  <2> QED BY <1>1, <1>2, IntervalInduction
<1> QED BY <1>3

\* The process that enters user mode has the highest priority of all READY
\* ones and is the first of them from the cursor on, for every size of the
\* table: what the loop of select_next_ready_process is for.
THEOREM PriorityThenRoundRobin == Spec => HighestPriorityFirst
<1> DEFINE Best(s) ==
      \A j \in Slots \ {s} :
        processes[j].state = "READY" =>
          \/ processes[j].priority < processes[s].priority
          \/ /\ processes[j].priority = processes[s].priority
             /\ Distance(s) < Distance(j)
<1>1. IInv /\ [Next]_vars => (kpc = "shell" /\ kpc' = "user" => Best(selected'))
  <2> SUFFICES ASSUME IInv, [Next]_vars, kpc = "shell", kpc' = "user"
               PROVE  Best(selected')
    OBVIOUS
  <2>1. PICK i \in Slots : process_run(i)
    BY DEF Next, ShellCommand, ShellSpawn, process_spawn_child, process_wait_child,
           process_kill, process_reap_zombies, process_set_priority, BankerAdd,
           BankerInit, UserStep, SysExit, SysYield, Preempt, SysSpawnApp,
           process_vm_alloc_page, memdemo_apply_op, UserFault, memdemo_reset,
           RunReturn, RunDone, Halted, control, vars
  <2>2. selected' = i /\ SelectScan[PROCESS_MAX].slot = i
    BY <2>1 DEF process_run, select_next_ready_process
  <2>3. TypeOK /\ SpacesOwned
    BY DEF IInv
  <2>4. i # -1
    BY ProcessMaxAssumption DEF Slots
  <2>5. PICK m \in 1 .. PROCESS_MAX :
          /\ ScanSlot(m) = i
          /\ \A j \in 1 .. PROCESS_MAX :
               Waits(ScanSlot(j)) =>
                 \/ processes[ScanSlot(j)].priority < processes[i].priority
                 \/ processes[ScanSlot(j)].priority = processes[i].priority /\ m <= j
    BY <2>2, <2>3, <2>4, SelectScanExact DEF ScanExact, ScanStart
  <2>6. Distance(i) = m - 1
    BY <2>3, <2>5, ScanOrder
  <2>7. ASSUME NEW j \in Slots \ {i}, processes[j].state = "READY"
        PROVE  \/ processes[j].priority < processes[i].priority
               \/ /\ processes[j].priority = processes[i].priority
                  /\ Distance(i) < Distance(j)
    <3> DEFINE n == Distance(j) + 1
    <3>1. n \in 1 .. PROCESS_MAX /\ ScanSlot(n) = j
      BY <2>3, ScanOrder
    <3>2. Waits(j)
      BY <2>3, <2>7 DEF Waits, SpacesOwned
    <3>3. Distance(j) = n - 1
      BY <2>3, <3>1, ScanOrder
    <3> HIDE DEF n
    <3>4. \/ processes[j].priority < processes[i].priority
          \/ processes[j].priority = processes[i].priority /\ m <= n
      BY <2>5, <3>1, <3>2
    <3>5. m # n
      BY <2>5, <2>7, <3>1
    <3> QED BY <2>5, <2>6, <3>1, <3>3, <3>4, <3>5
  <2> QED BY <2>2, <2>7
<1> QED BY <1>1, InductiveInvariant, PTL DEF Spec, HighestPriorityFirst

-----------------------------------------------------------------------------
(* The running kernel.                                                     *)

\* What the main loop, the interrupts and the timer keep.
FlagsOK ==
  irq_enabled \in BOOLEAN /\ auto_schedule_enabled \in BOOLEAN /\ ticked \in BOOLEAN
TimerOK == timer \in TimerState /\ timer.slice_remaining <= timer.timeslice_ticks
KeysOK == keys \in Seq(COMMANDS) /\ Len(keys) <= KEYBOARD_SIZE
PointOK ==
  /\ lpc \in {"keys", "events", "check", "cli", "test", "sleep", "halt", "run"}
  /\ run_from \in {"keys", "events"}
  /\ lpc = "run" <=> kpc # "shell"
\* Interrupts are off from the test for work until the CPU sleeps.
IdleOK ==
  /\ lpc \in {"test", "sleep"} => irq_enabled = FALSE
  /\ lpc \in {"sleep", "halt"} => keys = <<>> /\ ~timer_has_schedule_event(timer)
LoopInv == FlagsOK /\ TimerOK /\ KeysOK /\ PointOK /\ IdleOK

\* What the user programs and their saved contexts keep.  The two conjuncts on
\* kpc say where the next instruction is while it is not in the table.
UserInv ==
  /\ kpc # "panic"
  /\ app \in [Slots -> DOMAIN Image]
  /\ context \in [Slots -> Nat]
  /\ executed \in [Slots -> Nat]
  /\ eip \in Nat
  /\ \A i \in Slots : context[i] \in 1 .. Len(Image[app[i]])
  /\ \A i \in Used :
       /\ processes[i].state = "READY" => context[i] = executed[i] + 1
       /\ processes[i].state = "ZOMBIE" => executed[i] = Len(Image[app[i]])
  /\ kpc = "user" =>
       /\ eip = executed[selected] + 1
       /\ eip \in 1 .. Len(Image[app[selected]])
  /\ kpc = "returning" =>
       IF result = USERMODE_RETURN_YIELD
       THEN context[selected] = executed[selected] + 1
       ELSE executed[selected] = Len(Image[app[selected]])

KInv == IInv /\ LoopInv /\ UserInv

-----------------------------------------------------------------------------
(* The kernel implements the process table.                                *)

\* Every step of the kernel is a step of the process table or leaves it alone.
LEMMA KernelStepIsProcessStep == [KernelNext]_kvars => [Next]_vars
<1> SUFFICES ASSUME [KernelNext]_kvars PROVE [Next]_vars
  OBVIOUS
<1>1. CASE UNCHANGED kvars
  BY <1>1 DEF kvars
<1>2. ASSUME NEW from, Dispatch(from) PROVE Next
  BY <1>2 DEF Dispatch, Next
<1>3. CASE HandleKey
  <2>1. ASSUME NEW a, NEW p \in Priorities, CmdExec(a, p) PROVE [Next]_vars
    <3>1. 0 \in Pids
      BY MaxPidAssumption DEF Pids
    <3> QED BY <2>1, <3>1 DEF CmdExec, Next, ShellCommand
  <2>2. CmdSched => [Next]_vars
    BY <1>2 DEF CmdSched
  <2>3. CmdReap => [Next]_vars
    BY DEF CmdReap, Next, ShellCommand
  <2>4. ASSUME NEW on, CmdAutosched(on) PROVE [Next]_vars
    BY <2>4 DEF CmdAutosched
  <2>5. ASSUME NEW n, CmdSlice(n) PROVE [Next]_vars
    BY <2>5 DEF CmdSlice
  <2> QED BY <1>3, <2>1, <2>2, <2>3, <2>4, <2>5 DEF HandleKey, run_command
<1>4. CASE CheckReady
  BY <1>2, <1>4 DEF CheckReady
<1>5. CASE NoMoreKeys \/ TakeEvent \/ DisableInterrupts \/ TestIdle \/ Sleep
  BY <1>5 DEF NoMoreKeys, TakeEvent, DisableInterrupts, TestIdle, Sleep
<1>6. CASE UserInstruction
  BY <1>6, KernelAssumption DEF UserInstruction, usermode_handle_syscall, Next, UserStep
<1>7. CASE ReturnToLoop
  BY <1>7 DEF ReturnToLoop, Next
<1>8. CASE TimerIRQ
  BY <1>8 DEF TimerIRQ, process_preempt_if_needed, FromUser, Next, UserStep, Preempt
<1>9. ASSUME NEW cmd \in COMMANDS, KeyboardIRQ(cmd) PROVE [Next]_vars
  BY <1>9 DEF KeyboardIRQ
<1> QED BY <1>1, <1>3, <1>4, <1>5, <1>6, <1>7, <1>8, <1>9 DEF KernelNext, KernelThread

\* The running kernel implements Process: every interleaving of the main loop
\* with the interrupts is a behaviour of the process table's specification.
THEOREM KernelImplementsProcess == KernelSpec => Spec
<1>1. KernelInit => Init
  BY DEF KernelInit
<1> QED BY <1>1, KernelStepIsProcessStep, PTL DEF KernelSpec, Spec

\* So the process table's invariant holds in the running system.
THEOREM KernelProcessInvariant == KernelSpec => []IInv
BY KernelImplementsProcess, InductiveInvariant, PTL

-----------------------------------------------------------------------------
(* The operators of the timer and the images.                              *)

\* The timer's operations keep its type and never leave a slice of 0 ticks or
\* a countdown longer than the slice.
LEMMA TimerOperations ==
  ASSUME NEW t \in TimerState, t.slice_remaining <= t.timeslice_ticks
  PROVE  /\ timer_irq_handler(t) \in TimerState
         /\ timer_irq_handler(t).slice_remaining <= timer_irq_handler(t).timeslice_ticks
         /\ timer_take_schedule_event(t) \in TimerState
         /\ timer_take_schedule_event(t).slice_remaining
              <= timer_take_schedule_event(t).timeslice_ticks
<1> USE DEF TimerState
<1>1. timer_irq_handler(t) =
        IF t.slice_remaining <= 1
        THEN [timeslice_ticks |-> t.timeslice_ticks,
              slice_remaining |-> t.timeslice_ticks,
              schedule_event_pending |-> t.schedule_event_pending + 1]
        ELSE [timeslice_ticks |-> t.timeslice_ticks,
              slice_remaining |-> t.slice_remaining - 1,
              schedule_event_pending |-> t.schedule_event_pending]
  <2> DEFINE reset == [t EXCEPT !.slice_remaining = t.timeslice_ticks]
  <2>1. timer_irq_handler(t) =
          IF t.slice_remaining <= 1
          THEN [reset EXCEPT !.schedule_event_pending = t.schedule_event_pending + 1]
          ELSE [t EXCEPT !.slice_remaining = t.slice_remaining - 1]
    BY Zenon DEF timer_irq_handler
  <2>2. reset = [timeslice_ticks |-> t.timeslice_ticks,
                 slice_remaining |-> t.timeslice_ticks,
                 schedule_event_pending |-> t.schedule_event_pending]
    OBVIOUS
  <2> HIDE DEF reset
  <2> QED BY <2>1, <2>2
<1>2. /\ timer_irq_handler(t) \in TimerState
      /\ timer_irq_handler(t).slice_remaining <= timer_irq_handler(t).timeslice_ticks
  BY <1>1
<1>3. /\ timer_take_schedule_event(t) \in TimerState
      /\ timer_take_schedule_event(t).slice_remaining
           <= timer_take_schedule_event(t).timeslice_ticks
  BY DEF timer_take_schedule_event, timer_has_schedule_event
<1> QED BY <1>2, <1>3

\* timer_set_timeslice never makes a slice of 0 ticks and drops the events.
LEMMA TimesliceSet ==
  ASSUME NEW n \in Nat
  PROVE  /\ timer_set_timeslice(n) \in TimerState
         /\ timer_set_timeslice(n).slice_remaining <= timer_set_timeslice(n).timeslice_ticks
         /\ ~timer_has_schedule_event(timer_set_timeslice(n))
BY DEF timer_set_timeslice, TimerState, timer_has_schedule_event

\* Every image ends with its only exit.
LEMMA ImagesEndWithExit ==
  ASSUME NEW a \in DOMAIN Image
  PROVE  /\ Len(Image[a]) \in Nat \ {0}
         /\ \A n \in 1 .. Len(Image[a]) : Image[a][n] = "exit" <=> n = Len(Image[a])
<1>1. a \in {"hello", "busy", "counter", "spawner"}
  BY DEF Image
<1>2. CASE a = "hello"
  BY <1>2 DEF Image, HelloImage
<1>3. CASE a = "busy"
  BY <1>3 DEF Image, BusyImage
<1>4. CASE a = "counter"
  BY <1>4 DEF Image, CounterImage
<1>5. CASE a = "spawner"
  BY <1>5 DEF Image, SpawnerImage
<1> QED BY <1>1, <1>2, <1>3, <1>4, <1>5

-----------------------------------------------------------------------------
(* The main loop.                                                          *)

\* Everything holds when kernel_main enters its loop.
LEMMA KernelInitKInv == KernelInit => KInv
<1> SUFFICES ASSUME KernelInit PROVE KInv
  OBVIOUS
<1> USE DEF KernelInit
<1>1. IInv
  BY InitIInv
<1>2. kpc = "shell" /\ Used = {}
  BY DEF Init, process_init, Used, BlankProcess
<1>3. LoopInv
  <2>1. FlagsOK
    BY Zenon DEF FlagsOK
  <2>2. TimerOK
    BY TimerAssumption DEF TimerOK, timer_init, TimerState
  <2>3. KeysOK
    BY KernelAssumption DEF KeysOK
  <2>4. PointOK /\ IdleOK
    BY <1>2 DEF PointOK, IdleOK
  <2> QED BY <2>1, <2>2, <2>3, <2>4 DEF LoopInv
<1>4. UserInv
  <2>1. "hello" \in DOMAIN Image
    BY DEF Image
  <2>2. Len(Image["hello"]) \in Nat \ {0}
    BY <2>1, ImagesEndWithExit
  <2> QED BY <1>2, <2>1, <2>2 DEF UserInv
<1> QED BY <1>1, <1>3, <1>4 DEF KInv

\* What the process table's steps do to the point of the kernel thread.
LEMMA KpcMoves ==
  /\ \A parent, priority : process_spawn_child(parent, priority) => kpc' = kpc
  /\ \A i : process_run(i) => kpc = "shell" /\ kpc' = "user"
  /\ process_reap_zombies => kpc' = kpc
  /\ \A r : usermode_return_to_kernel(r) => kpc' = "returning"
  /\ UNCHANGED vars => kpc' = kpc
BY DEF process_spawn_child, process_run, process_reap_zombies,
       usermode_return_to_kernel, vars, control

\* Every step of the main loop, the user programs and the interrupts keeps the
\* loop's invariant; the point matters most for TestIdle, Sleep and the IRQs.
LEMMA LoopInvStep == LoopInv /\ [KernelNext]_kvars => LoopInv'
<1> SUFFICES ASSUME LoopInv, [KernelNext]_kvars PROVE LoopInv'
  OBVIOUS
<1> USE DEF LoopInv
<1>1. CASE UNCHANGED kvars
  BY <1>1 DEF kvars, vars, control, loop, input, FlagsOK, TimerOK, KeysOK, PointOK, IdleOK
<1>2. CASE HandleKey
  <2>1. /\ lpc = "keys" /\ kpc = "shell" /\ keys # <<>> /\ keys' = Tail(keys)
        /\ run_command(Head(keys))
    BY <1>2 DEF HandleKey, PointOK
  <2>2. KeysOK'
    BY <2>1, KernelAssumption DEF KeysOK
  <2>3. ASSUME UNCHANGED <<loop, timer, auto_schedule_enabled>>, kpc' = kpc
        PROVE  FlagsOK' /\ TimerOK' /\ PointOK' /\ IdleOK'
    BY <2>1, <2>3 DEF loop, FlagsOK, TimerOK, PointOK, IdleOK
  <2>4. ASSUME NEW a, NEW p, CmdExec(a, p) PROVE LoopInv'
    BY <2>2, <2>3, <2>4, KpcMoves DEF CmdExec, ShellSpawn
  <2>5. CASE CmdSched
    <3>1. CASE Dispatch("keys") /\ UNCHANGED <<timer, auto_schedule_enabled>>
      <4>1. kpc' = "user" /\ lpc' = "run" /\ run_from' = "keys"
        BY <3>1, KpcMoves DEF Dispatch
      <4>2. UNCHANGED <<irq_enabled, ticked, timer, auto_schedule_enabled>>
        BY <3>1 DEF Dispatch
      <4> QED BY <2>2, <4>1, <4>2 DEF FlagsOK, TimerOK, PointOK, IdleOK
    <3>2. CASE UNCHANGED <<vars, loop, timer, auto_schedule_enabled, user>>
      BY <2>2, <2>3, <3>2, KpcMoves
    <3> QED BY <2>5, <3>1, <3>2 DEF CmdSched
  <2>6. CASE CmdReap
    BY <2>2, <2>3, <2>6, KpcMoves DEF CmdReap
  <2>7. ASSUME NEW on \in BOOLEAN, CmdAutosched(on) PROVE LoopInv'
    BY <2>1, <2>2, <2>7, KpcMoves
    DEF CmdAutosched, loop, FlagsOK, TimerOK, PointOK, IdleOK
  <2>8. ASSUME NEW n \in TIMESLICES, CmdSlice(n) PROVE LoopInv'
    <3>1. TimerOK'
      BY <2>8, TimesliceSet, TimerAssumption DEF CmdSlice, TimerOK
    <3> QED BY <2>1, <2>2, <2>8, <3>1, KpcMoves
            DEF CmdSlice, loop, FlagsOK, PointOK, IdleOK
  <2> QED BY <2>1, <2>4, <2>5, <2>6, <2>7, <2>8 DEF run_command
<1>3. CASE NoMoreKeys
  BY <1>3, KpcMoves DEF NoMoreKeys, input, FlagsOK, TimerOK, KeysOK, PointOK, IdleOK
<1>4. CASE TakeEvent
  <2>1. TimerOK'
    BY <1>4, TimerOperations DEF TakeEvent, TimerOK
  <2> QED BY <1>4, <2>1, KpcMoves DEF TakeEvent, input, FlagsOK, KeysOK, PointOK, IdleOK
<1>5. CASE CheckReady
  <2>1. lpc = "check" /\ kpc = "shell" /\ UNCHANGED <<timer, auto_schedule_enabled, input>>
    BY <1>5 DEF CheckReady, PointOK
  <2>2. CASE Dispatch("events")
    <3>1. kpc' = "user" /\ lpc' = "run" /\ run_from' = "events"
      BY <2>2, KpcMoves DEF Dispatch
    <3>2. UNCHANGED <<irq_enabled, ticked>>
      BY <2>2 DEF Dispatch
    <3> QED BY <2>1, <3>1, <3>2 DEF input, FlagsOK, TimerOK, KeysOK, PointOK, IdleOK
  <2>3. CASE lpc' = "events" /\ UNCHANGED <<vars, run_from, irq_enabled, ticked, user>>
    BY <2>1, <2>3, KpcMoves DEF input, FlagsOK, TimerOK, KeysOK, PointOK, IdleOK
  <2> QED BY <1>5, <2>2, <2>3 DEF CheckReady
<1>6. CASE DisableInterrupts
  <2>1. FlagsOK'
    BY <1>6 DEF DisableInterrupts, FlagsOK
  <2> QED BY <1>6, <2>1, KpcMoves DEF DisableInterrupts, input, TimerOK, KeysOK, PointOK, IdleOK
<1>7. CASE TestIdle
  <2>1. FlagsOK'
    BY <1>7 DEF TestIdle, FlagsOK
  <2> QED BY <1>7, <2>1, KpcMoves DEF TestIdle, input, TimerOK, KeysOK, PointOK, IdleOK
<1>8. CASE Sleep
  <2>1. FlagsOK'
    BY <1>8 DEF Sleep, FlagsOK
  <2> QED BY <1>8, <2>1, KpcMoves DEF Sleep, input, TimerOK, KeysOK, PointOK, IdleOK
<1>9. CASE UserInstruction
  <2>1. /\ kpc = "user" /\ lpc = "run" /\ lpc' = lpc
        /\ ticked' = FALSE
        /\ UNCHANGED <<run_from, irq_enabled, timer, auto_schedule_enabled, input>>
    BY <1>9 DEF UserInstruction, PointOK
  <2>2. kpc' \in {"user", "returning"}
    BY <1>9, <2>1, KpcMoves
    DEF UserInstruction, usermode_handle_syscall, SysYield, SysExit, SysSpawnApp
  <2>3. FlagsOK'
    BY <2>1 DEF FlagsOK
  <2> QED BY <2>1, <2>2, <2>3 DEF input, TimerOK, KeysOK, PointOK, IdleOK
<1>10. CASE ReturnToLoop
  <2>1. /\ lpc = "run"
        /\ UNCHANGED <<run_from, irq_enabled, ticked, timer, auto_schedule_enabled, input>>
    BY <1>10 DEF ReturnToLoop, RunReturn, RunDone, PointOK
  <2>2. \/ kpc' = "returned" /\ lpc' = lpc
        \/ kpc' = "shell" /\ lpc' = run_from
    BY <1>10 DEF ReturnToLoop, RunReturn, RunDone
  <2> QED BY <2>1, <2>2 DEF input, FlagsOK, TimerOK, KeysOK, PointOK, IdleOK
<1>11. CASE TimerIRQ
  <2>1. /\ irq_enabled /\ lpc' = IF lpc = "halt" THEN "keys" ELSE lpc
        /\ ticked' = SLOW_TIMER
        /\ UNCHANGED <<run_from, irq_enabled, auto_schedule_enabled, input>>
    BY <1>11 DEF TimerIRQ, Wake
  <2>2. FlagsOK'
    BY <2>1, KernelAssumption DEF FlagsOK
  <2> DEFINE t == timer_irq_handler(timer)
  <2>3. t \in TimerState /\ t.slice_remaining <= t.timeslice_ticks
    BY TimerOperations DEF TimerOK
  <2>4. process_preempt_if_needed(t)
    BY <1>11 DEF TimerIRQ
  <2> HIDE DEF t
  <2>5. TimerOK'
    BY <2>3, <2>4, TimerOperations DEF process_preempt_if_needed, TimerOK
  <2>6. kpc' = kpc \/ (kpc = "user" /\ kpc' = "returning")
    BY <2>4, KpcMoves DEF process_preempt_if_needed, FromUser
  <2>7. lpc \notin {"test", "sleep"}
    BY <2>1 DEF IdleOK
  <2> QED BY <2>1, <2>2, <2>5, <2>6, <2>7 DEF input, KeysOK, PointOK, IdleOK
<1>12. ASSUME NEW cmd \in COMMANDS, KeyboardIRQ(cmd) PROVE LoopInv'
  <2>1. /\ irq_enabled /\ lpc' = IF lpc = "halt" THEN "keys" ELSE lpc
        /\ keys' = IF Len(keys) < KEYBOARD_SIZE THEN Append(keys, cmd) ELSE keys
        /\ UNCHANGED <<vars, run_from, irq_enabled, ticked, timer, auto_schedule_enabled>>
    BY <1>12 DEF KeyboardIRQ, Wake
  <2>2. KeysOK'
    BY <2>1, KernelAssumption DEF KeysOK
  <2>3. lpc \notin {"test", "sleep"}
    BY <2>1 DEF IdleOK
  <2> QED BY <2>1, <2>2, <2>3, KpcMoves DEF FlagsOK, TimerOK, PointOK, IdleOK
<1> QED BY <1>1, <1>2, <1>3, <1>4, <1>5, <1>6, <1>7, <1>8, <1>9, <1>10, <1>11, <1>12
        DEF KernelNext, KernelThread

-----------------------------------------------------------------------------
(* User programs and their contexts.                                       *)

\* A spawn changes one free slot, and makes it READY or leaves it free.
LEMMA SpawnSlots ==
  ASSUME TypeOK, NEW parent \in Nat, NEW priority, process_spawn_child(parent, priority)
  PROVE  \A i \in Slots :
           \/ processes'[i] = processes[i]
           \/ /\ ~processes[i].used
              /\ processes'[i].used => processes'[i].state = "READY"
<1>1. PICK k \in Slots :
        /\ FirstFree(k)
        /\ \/ SpawnNoSpace(k, parent, priority)
           \/ SpawnNoCodePage(k, parent, priority)
           \/ SpawnNoStackPage(k, parent, priority)
           \/ SpawnOk(k, parent, priority)
  BY DEF process_spawn_child
<1>2. ~processes[k].used /\ priority \in Priorities
  BY <1>1 DEF FirstFree, process_spawn_child
<1>3. PICK dir \in DIRS \cup {NoDir} :
        \/ processes' = [processes EXCEPT ![k] = FailedProcess(parent, priority, dir)]
        \/ processes' = [processes EXCEPT ![k] = NewProcess(parent, priority, dir)]
  BY <1>1 DEF SpawnNoSpace, SpawnNoCodePage, SpawnNoStackPage, SpawnOk
<1>4. /\ ~FailedProcess(parent, priority, dir).used
      /\ NewProcess(parent, priority, dir).state = "READY"
  BY <1>2, SpawnRecords
<1> QED BY <1>2, <1>3, <1>4 DEF TypeOK

\* The image a new slot starts with is loaded, and no other slot is touched.
LEMMA LoadStep ==
  ASSUME IInv, UserInv, NEW a \in DOMAIN Image, Load(a),
         \/ UNCHANGED vars
         \/ \E parent \in Nat : \E priority : process_spawn_child(parent, priority)
  PROVE  /\ UNCHANGED <<kpc, selected, result>>
         /\ app' \in [Slots -> DOMAIN Image] /\ context' \in [Slots -> Nat]
         /\ \A i \in Slots : context'[i] \in 1 .. Len(Image[app'[i]])
         /\ \A i \in Slots :
              IF processes'[i].used /\ ~processes[i].used
              THEN processes'[i].state = "READY" /\ context'[i] = 1
              ELSE /\ app'[i] = app[i] /\ context'[i] = context[i]
                   /\ processes'[i].used => processes'[i] = processes[i]
<1>1. UNCHANGED <<kpc, selected, result>>
  BY DEF process_spawn_child, vars, control
<1>2. \A i \in Slots :
        \/ processes'[i] = processes[i]
        \/ /\ ~processes[i].used
           /\ processes'[i].used => processes'[i].state = "READY"
  BY SpawnSlots DEF vars, table, IInv
<1>3. app' \in [Slots -> DOMAIN Image] /\ context' \in [Slots -> Nat]
  BY DEF Load, UserInv
<1>4. \A i \in Slots :
        IF processes'[i].used /\ ~processes[i].used
        THEN app'[i] = a /\ context'[i] = 1
        ELSE app'[i] = app[i] /\ context'[i] = context[i]
  BY DEF Load
<1>5. Len(Image[a]) \in Nat \ {0}
  BY ImagesEndWithExit
<1>6. \A i \in Slots : context'[i] \in 1 .. Len(Image[app'[i]])
  BY <1>4, <1>5 DEF UserInv
<1> QED BY <1>1, <1>2, <1>3, <1>4, <1>6

\* An exit makes the selected process, and no other, a ZOMBIE.
LEMMA ExitSlots ==
  ASSUME TypeOK, RunReturn, result # USERMODE_RETURN_YIELD
  PROVE  \A i \in Slots : /\ processes'[i].used = processes[i].used
                          /\ processes'[i].state = IF i = selected THEN "ZOMBIE"
                                                   ELSE processes[i].state
<1> DEFINE exiting == [processes EXCEPT ![selected].state = "ZOMBIE",
                                        ![selected].exit_code = result]
<1>1. processes' = adopt_children(exiting, processes[selected].pid)
  BY DEF RunReturn
<1>2. \A i \in Slots : /\ exiting[i].used = processes[i].used
                       /\ exiting[i].state = IF i = selected THEN "ZOMBIE"
                                             ELSE processes[i].state
  BY DEF TypeOK, Process
<1>3. \A i \in Slots : exiting[i] \in Process
  <2> DEFINE p == [processes[selected] EXCEPT !.state = "ZOMBIE", !.exit_code = result]
  <2>1. p \in Process
    BY DEF TypeOK, Process, ProcessState
  <2>2. \A i \in Slots : exiting[i] = IF i = selected THEN p ELSE processes[i]
    BY DEF TypeOK
  <2> HIDE DEF p, exiting
  <2> QED BY <2>1, <2>2 DEF TypeOK
<1> HIDE DEF exiting
<1>4. \A i \in Slots : /\ processes'[i].used = exiting[i].used
                       /\ processes'[i].state = exiting[i].state
  BY <1>1, <1>3 DEF adopt_children, Process
<1> QED BY <1>2, <1>4

\* Every step keeps the user programs' invariant: preemption saves the eip it
\* interrupted, yield and the other calls the one after their own.
LEMMA UserInvStep == IInv /\ UserInv /\ IInv' /\ [KernelNext]_kvars => UserInv'
<1> SUFFICES ASSUME IInv, UserInv, IInv', [KernelNext]_kvars PROVE UserInv'
  OBVIOUS
<1> USE ImagesEndWithExit
<1>0. TypeOK /\ Used \subseteq Slots
  BY DEF IInv, Used
<1>1. ASSUME UNCHANGED <<processes, selected, result, user>>,
             kpc' = kpc \/ kpc' \in {"shell", "returned"}
      PROVE  UserInv'
  BY <1>1 DEF UserInv, user, Used
<1>2. ASSUME UNCHANGED vars, UNCHANGED user PROVE UserInv'
  BY <1>1, <1>2 DEF vars, table, control
<1>3. ASSUME NEW from, Dispatch(from) PROVE UserInv'
  <2>1. PICK i \in Slots : process_run(i) /\ eip' = context[i]
                           /\ UNCHANGED <<app, context, executed>>
    BY <1>3 DEF Dispatch
  <2>2. /\ kpc' = "user" /\ selected' = i /\ processes[i].state = "READY"
        /\ processes' = [processes EXCEPT ![i].state = "RUNNING"]
    BY <2>1 DEF process_run
  <2>3. i \in Used
    BY <2>2 DEF IInv, SpacesOwned, Used
  <2>4. \A j \in Slots : /\ processes'[j].used = processes[j].used
                         /\ j # i => processes'[j].state = processes[j].state
                         /\ j = i => processes'[j].state = "RUNNING"
    BY <1>0, <2>2 DEF TypeOK, Process
  <2>5. context[i] = executed[i] + 1
    BY <2>2, <2>3 DEF UserInv
  <2> QED BY <1>0, <2>1, <2>2, <2>4, <2>5 DEF UserInv, Used
<1>4. CASE HandleKey
  <2>1. ASSUME NEW a \in DOMAIN Image, NEW p, CmdExec(a, p) PROVE UserInv'
    <3>1. /\ Load(a) /\ eip' = eip
          /\ \/ kpc = "shell" /\ process_spawn_child(0, p)
             \/ UNCHANGED vars
          /\ executed' = [i \in Slots |-> IF processes'[i].used /\ ~processes[i].used
                                          THEN 0 ELSE executed[i]]
      BY <2>1 DEF CmdExec, ShellSpawn
    <3>2. /\ UNCHANGED <<kpc, selected, result>>
          /\ app' \in [Slots -> DOMAIN Image] /\ context' \in [Slots -> Nat]
          /\ \A i \in Slots : context'[i] \in 1 .. Len(Image[app'[i]])
          /\ \A i \in Slots :
               IF processes'[i].used /\ ~processes[i].used
               THEN processes'[i].state = "READY" /\ context'[i] = 1
               ELSE /\ app'[i] = app[i] /\ context'[i] = context[i]
                    /\ processes'[i].used => processes'[i] = processes[i]
      BY <3>1, LoadStep
    <3>3. executed' \in [Slots -> Nat]
      BY <3>1 DEF UserInv
    <3>4. kpc # "shell" => selected \in Used /\ processes[selected].used
      BY DEF IInv, RunningIsCurrent, Used
    <3>5. \A i \in Slots : executed'[i] = IF processes'[i].used /\ ~processes[i].used
                                          THEN 0 ELSE executed[i]
      BY <3>1
    <3> QED BY <1>0, <3>1, <3>2, <3>3, <3>4, <3>5 DEF UserInv, Used
  <2>2. CASE CmdSched
    BY <1>2, <1>3, <2>2 DEF CmdSched
  <2>3. CASE CmdReap
    <3>1. /\ UNCHANGED <<kpc, selected, result, user>>
          /\ kpc = "shell"
          /\ release_processes({i \in Slots : /\ processes[i].used
                                              /\ processes[i].state = "ZOMBIE"
                                              /\ processes[i].parent_pid = 0})
      BY <2>3 DEF CmdReap, process_reap_zombies, control
    <3>2. \A i \in Slots : processes'[i].used =>
            processes[i].used /\ processes'[i].state = processes[i].state
      BY <1>0, <3>1 DEF release_processes, BlankProcess, TypeOK, Process
    <3> QED BY <3>1, <3>2 DEF UserInv, user, Used
  <2>4. ASSUME NEW on, CmdAutosched(on) PROVE UserInv'
    BY <1>2, <2>4 DEF CmdAutosched
  <2>5. ASSUME NEW n, CmdSlice(n) PROVE UserInv'
    BY <1>2, <2>5 DEF CmdSlice
  <2> QED BY <1>4, <2>1, <2>2, <2>3, <2>4, <2>5 DEF HandleKey, run_command
<1>5. CASE CheckReady
  BY <1>2, <1>3, <1>5 DEF CheckReady
<1>6. CASE NoMoreKeys \/ TakeEvent \/ DisableInterrupts \/ TestIdle \/ Sleep
  BY <1>2, <1>6 DEF NoMoreKeys, TakeEvent, DisableInterrupts, TestIdle, Sleep
<1>7. CASE TimerIRQ
  <2>1. CASE UNCHANGED <<vars, context>>
    BY <1>2, <1>7, <2>1 DEF TimerIRQ, user
  <2>2. CASE FromUser /\ process_save_yield_frame(eip)
             /\ usermode_return_to_kernel(USERMODE_RETURN_YIELD)
    <3>1. /\ kpc = "user" /\ context' = [context EXCEPT ![selected] = eip]
          /\ kpc' = "returning" /\ result' = USERMODE_RETURN_YIELD
          /\ UNCHANGED <<processes, selected, app, eip, executed>>
      BY <1>7, <2>2 DEF TimerIRQ, FromUser, process_save_yield_frame,
                        usermode_return_to_kernel, table
    <3>2. /\ selected \in Slots
          /\ \A i \in Slots : processes[i].state = "RUNNING" <=> i = selected
      BY <3>1 DEF IInv, RunningIsCurrent, TypeOK
    <3> QED BY <3>1, <3>2 DEF UserInv, Used
  <2> QED BY <1>7, <2>1, <2>2 DEF TimerIRQ, process_preempt_if_needed
<1>8. ASSUME NEW cmd \in COMMANDS, KeyboardIRQ(cmd) PROVE UserInv'
  BY <1>2, <1>8 DEF KeyboardIRQ
<1>9. CASE UserInstruction
  <2>1. /\ kpc = "user" /\ selected \in Used /\ selected \in Slots
        /\ \A i \in Slots : processes[i].state = "RUNNING" <=> i = selected
    BY <1>9 DEF UserInstruction, IInv, RunningIsCurrent, TypeOK
  <2>2. /\ eip = executed[selected] + 1 /\ eip \in 1 .. Len(Image[app[selected]])
        /\ app[selected] \in DOMAIN Image
    BY <2>1 DEF UserInv
  <2>3. /\ Len(Image[app[selected]]) \in Nat
        /\ Instr = "exit" <=> eip = Len(Image[app[selected]])
    BY <2>2, ImagesEndWithExit DEF Instr
  <2>4. CASE /\ Instr \in {"write", "busy"} /\ Advance /\ Count
             /\ UNCHANGED <<vars, app, context>>
    BY <2>1, <2>2, <2>3, <2>4 DEF Advance, Count, vars, table, control, UserInv, Used
  <2>5. CASE /\ Instr = "yield" /\ process_save_yield_frame(eip + 1) /\ SysYield
             /\ Count /\ UNCHANGED <<app, eip>>
    BY <2>1, <2>2, <2>3, <2>5
    DEF Count, process_save_yield_frame, SysYield, usermode_return_to_kernel,
        table, UserInv, Used
  <2>6. CASE Instr = "exit" /\ SysExit(0) /\ Count /\ UNCHANGED <<app, context, eip>>
    BY <2>1, <2>2, <2>3, <2>6, KernelAssumption
    DEF Count, SysExit, usermode_return_to_kernel, table, UserInv, Used
  <2>7. CASE /\ Instr = "spawn"
             /\ SysSpawnApp \/ ((\A i \in Slots : processes[i].used) /\ UNCHANGED vars)
             /\ Load("hello") /\ Advance
             /\ executed' = [i \in Slots |-> IF i = selected THEN executed[i] + 1
                                             ELSE IF processes'[i].used /\ ~processes[i].used
                                             THEN 0 ELSE executed[i]]
    <3>1. "hello" \in DOMAIN Image /\ current_pid \in Nat
      BY <1>0 DEF Image, TypeOK
    <3>2. /\ UNCHANGED <<kpc, selected, result>>
          /\ app' \in [Slots -> DOMAIN Image] /\ context' \in [Slots -> Nat]
          /\ \A i \in Slots : context'[i] \in 1 .. Len(Image[app'[i]])
          /\ \A i \in Slots :
               IF processes'[i].used /\ ~processes[i].used
               THEN processes'[i].state = "READY" /\ context'[i] = 1
               ELSE /\ app'[i] = app[i] /\ context'[i] = context[i]
                    /\ processes'[i].used => processes'[i] = processes[i]
      BY <2>7, <3>1, LoadStep DEF SysSpawnApp
    <3>3. executed' \in [Slots -> Nat]
      BY <2>7 DEF UserInv
    <3>4. processes[selected].used /\ processes[selected].state = "RUNNING"
      BY <2>1 DEF Used
    <3>5. \A i \in Slots :
            executed'[i] = IF i = selected THEN executed[i] + 1
                           ELSE IF processes'[i].used /\ ~processes[i].used
                           THEN 0 ELSE executed[i]
      BY <2>7
    <3>6. eip' = eip + 1
      BY <2>7 DEF Advance
    <3>7. eip' = executed'[selected'] + 1 /\ eip' \in 1 .. Len(Image[app'[selected']])
      BY <2>1, <2>2, <2>3, <2>7, <3>2, <3>4, <3>5, <3>6
    <3>8. ASSUME NEW i \in Used'
          PROVE  /\ processes'[i].state = "READY" => context'[i] = executed'[i] + 1
                 /\ processes'[i].state = "ZOMBIE" => executed'[i] = Len(Image[app'[i]])
      <4>1. i \in Slots /\ processes'[i].used
        BY DEF Used
      <4>2. CASE processes'[i].used /\ ~processes[i].used
        BY <3>2, <3>4, <3>5, <4>1, <4>2
      <4>3. CASE processes[i].used
        <5>1. processes'[i] = processes[i] /\ i \in Used
          BY <3>2, <4>1, <4>3 DEF Used
        <5>2. i = selected => processes'[i].state = "RUNNING"
          BY <3>4, <5>1
        <5> QED BY <3>2, <3>5, <4>1, <4>3, <5>1, <5>2 DEF UserInv
      <4> QED BY <4>1, <4>2, <4>3
    <3> QED BY <2>1, <3>2, <3>3, <3>6, <3>7, <3>8 DEF UserInv
  <2> QED BY <1>9, <2>4, <2>5, <2>6, <2>7 DEF UserInstruction, usermode_handle_syscall
<1>10. CASE ReturnToLoop
  <2>1. CASE RunReturn
    <3>1. /\ kpc = "returning" /\ kpc' = "returned"
          /\ UNCHANGED <<selected, result, user>>
      BY <1>10, <2>1 DEF RunReturn, ReturnToLoop
    <3>2. selected \in Slots
      BY <1>0 DEF TypeOK
    <3>3. CASE result = USERMODE_RETURN_YIELD
      <4>1. \A i \in Slots : /\ processes'[i].used = processes[i].used
                             /\ processes'[i].state = IF i = selected THEN "READY"
                                                      ELSE processes[i].state
        BY <1>0, <2>1, <3>3 DEF RunReturn, TypeOK, Process
      <4> QED BY <1>0, <3>1, <3>2, <3>3, <4>1 DEF UserInv, user, Used
    <3>4. CASE result # USERMODE_RETURN_YIELD
      <4>1. \A i \in Slots : /\ processes'[i].used = processes[i].used
                             /\ processes'[i].state = IF i = selected THEN "ZOMBIE"
                                                      ELSE processes[i].state
        BY <1>0, <2>1, <3>4, ExitSlots
      <4>2. executed[selected] = Len(Image[app[selected]])
        BY <3>1, <3>4 DEF UserInv
      <4>3. ASSUME NEW i \in Used'
            PROVE  /\ processes'[i].state = "READY" => context'[i] = executed'[i] + 1
                   /\ processes'[i].state = "ZOMBIE" => executed'[i] = Len(Image[app'[i]])
        BY <1>0, <3>1, <3>2, <4>1, <4>2 DEF UserInv, user, Used
      <4> QED BY <3>1, <4>3 DEF UserInv, user
    <3> QED BY <3>3, <3>4
  <2>2. CASE RunDone
    BY <1>1, <1>10, <2>2 DEF RunDone, ReturnToLoop
  <2> QED BY <1>10, <2>1, <2>2 DEF ReturnToLoop
<1>11. CASE UNCHANGED kvars
  BY <1>2, <1>11 DEF kvars
<1> QED BY <1>4, <1>5, <1>6, <1>7, <1>8, <1>9, <1>10, <1>11 DEF KernelNext, KernelThread

-----------------------------------------------------------------------------
(* Theorems.                                                               *)

\* The three parts together are inductive.
LEMMA KernelNextKInv == KInv /\ [KernelNext]_kvars => KInv'
<1> SUFFICES ASSUME KInv, [KernelNext]_kvars PROVE KInv'
  OBVIOUS
<1>1. IInv'
  BY KernelStepIsProcessStep, NextIInv DEF KInv
<1>2. LoopInv'
  BY LoopInvStep DEF KInv
<1>3. UserInv'
  BY <1>1, UserInvStep DEF KInv
<1> QED BY <1>1, <1>2, <1>3 DEF KInv

\* The inductive invariant of the running system.
THEOREM KernelInvariant == KernelSpec => []KInv
BY KernelInitKInv, KernelNextKInv, PTL DEF KernelSpec

\* Type correctness of the main loop, for every number of slots and keys and
\* every argument of the slice command: the countdown is never 0 at rest.
THEOREM KernelTypeCorrect == KernelSpec => []KernelTypeOK
<1>1. KInv => KernelTypeOK
  BY DEF KInv, LoopInv, FlagsOK, TimerOK, KeysOK, PointOK, UserInv, KernelTypeOK
<1> QED BY <1>1, KernelInvariant, PTL

\* No lost wake-up, at whatever point of the loop an interrupt arrives: it
\* rests on interrupts being off from the test for work to sti; hlt.
THEOREM NoLostWakeup == KernelSpec => []NoSleepOnWork
<1>1. KInv => NoSleepOnWork
  BY DEF KInv, LoopInv, IdleOK, NoSleepOnWork
<1> QED BY <1>1, KernelInvariant, PTL

\* Preemption is invisible: however ticks, yields, exits and spawns interleave,
\* a process resumes after the last instruction it executed and is a ZOMBIE
\* exactly when it has executed them all.
THEOREM PreemptionInvisible == KernelSpec => []ContextExact
<1>1. KInv => ContextExact
  <2> SUFFICES ASSUME KInv PROVE ContextExact
    OBVIOUS
  <2>1. IInv /\ UserInv /\ Used \subseteq Slots
    BY DEF KInv, Used
  <2>2. kpc = "user" => eip = executed[selected] + 1
    BY <2>1 DEF UserInv
  <2>3. ASSUME NEW i \in Used
        PROVE  /\ processes[i].state = "READY" => context[i] = executed[i] + 1
               /\ processes[i].state = "ZOMBIE" <=>
                    executed[i] = Len(Image[app[i]]) /\ ~(kpc = "returning" /\ i = selected)
    <3>1. processes[i].state \in {"READY", "RUNNING", "ZOMBIE"}
      BY <2>1 DEF IInv, TypeOK, Process, ProcessState, SpacesOwned, Used
    <3>2. /\ executed[i] \in Nat /\ context[i] \in 1 .. Len(Image[app[i]])
          /\ Len(Image[app[i]]) \in Nat
      BY <2>1, ImagesEndWithExit DEF UserInv
    <3>3. CASE processes[i].state = "READY"
      <4>1. context[i] = executed[i] + 1
        BY <2>1, <3>3 DEF UserInv
      <4> QED BY <3>2, <3>3, <4>1
    <3>4. CASE processes[i].state = "RUNNING"
      <4>1. i = selected /\ kpc \in {"user", "returning"}
        BY <2>1, <3>4 DEF IInv, RunningIsCurrent, TypeOK, UserInv
      <4> QED BY <2>1, <3>2, <3>4, <4>1 DEF UserInv
    <3>5. CASE processes[i].state = "ZOMBIE"
      <4>1. ~(kpc = "returning" /\ i = selected)
        BY <2>1, <3>5 DEF IInv, RunningIsCurrent, TypeOK
      <4> QED BY <2>1, <3>5, <4>1 DEF UserInv
    <3> QED BY <3>1, <3>3, <3>4, <3>5
  <2> QED BY <2>2, <2>3 DEF ContextExact
<1> QED BY <1>1, KernelInvariant, PTL
=============================================================================
