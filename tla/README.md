# MyOS: specifications, model checking and proofs

MyOS is a small x86 teaching kernel: one CPU, one kernel thread, a shell, processes in
ring 3 that are preempted by the timer, a demand pager with two replacement algorithms, the
banker's algorithm, a simple file system. This directory holds TLA+ modules translated from
its C source, TLC configurations that check them on small instances, and TLAPS proofs of most of
their properties for every size. Source paths below are relative to `src/`.

## 1. The system

### Components

| component | state | operations | what makes it correct | modelled in |
|---|---|---|---|---|
| process table, scheduler (`kernel/process.c`) | `processes[8]`, `next_pid`, `current_pid`, `schedule_cursor` | spawn, run, schedule, yield, preempt, exit, wait, kill, reap, prio, `SYS_VM_ALLOC` | pids unique, no orphan keeps a dead parent, one RUNNING process and it is `current_pid`, highest priority first, nothing a process owned outlives it | `Process`, `Kernel` |
| user mode and system calls (`kernel/usermode.c`, `usermode_switch.s`) | the saved kernel stack, the saved user context | enter a context, the system calls, return to the kernel | a process resumes where it was interrupted; exit is final | `Process`, `Kernel` |
| timer (`timer/timer.c`) | slice length, ticks left, pending schedule events | IRQ0, take event, set slice | the countdown stays within the slice, no event is lost | `Timer`, `Kernel` |
| main loop (`kernel/kernel.c`) | point of the loop, `IF` | keys, events, cli / test / sti;hlt | no lost wake-up, keys are served, processes finish | `Kernel` |
| interrupt dispatch (`interrupt/interrupts.c`) | handler table | IRQ0, IRQ1, int 0x80, #PF, `kernel_panic` | only ring 3 is preempted | steps of `Kernel`, `Process`, `Pager` |
| keyboard (`drivers/keyboard.c`) | ring of 128 keys, Shift, 0xE0 prefix | IRQ1, read key | a first-in first-out queue although the reader runs with interrupts on | `Keyboard`, `KeyQueue` |
| banker (`kernel/banker.c`) | Available, and Max / Allocation / Need of 8 claims | init, add, request, release, unregister | Need exact, nothing created, the greedy test decides safety, grants are safe | `Banker` |
| demand pager (`mm/pager.c`) | 128 page entries, 16 frames, clock hand, LRU ticks, swap slots | register, pin, unregister, page fault, choose victim, sample | stores survive eviction and reuse, frame table exact, pinned and recently used pages are spared | `Pager`, `PagedMemory` |
| physical memory (`mm/pmm.c`) | bitmap, free count | init from the memory map, alloc, free | exactly the usable pages are handed out, the count is exact | `Pmm` |
| virtual memory (`mm/vmm.c`) | directories and tables in physical pages, CR3, the TLB | init, create / destroy space, map, unmap, switch, the two demonstration spaces | no page has two users, none is lost, the kernel part is the same everywhere, the CPU caches nothing stale | `Vmm`, `AddressSpaces` |
| memory demo (`kernel/memdemo.c`) | 8 slots, an event log | alloc, touch, free, reset | a slot never survives its directory and frees the page it mapped | `AddressSpaces`, `Process`; the log's text is left out |
| file system (`fs/simplefs.c`) | boot block, info block with bitmaps, inode table, data blocks; open files, current directory | mkfs, create, write, append, delete, mkdir, rmdir, cd, open, close, read, write, seek | a file holds what was written to it, no block has two owners, failures and stops damage only the file being written | `SimpleFsCore`, `SimpleFs`, `FileStore` |
| shell (`shell/shell.c`) | the line being typed, prompt, asynchronous output | edit a line, run a command, place the output of processes | the line on the screen is the line that is executed | `Terminal`; commands in `Process`, `Kernel`, `Banker`, `SimpleFs`, `AddressSpaces` |
| console (`console/console.c`) | cursor, ring of 512 lines, view, screen | put char, clear, scroll | the view stays inside the kept lines and shows them | `Console`, `Terminal` |
| ATA driver (`drivers/ata.c`) | hardware registers | read, write sectors | | a write with its outcomes in `SimpleFsCore`, `Pager` |
| GDT, boot code, string functions | | | | not modelled: executed once, or stateless |

### How they interact

There is one kernel thread. It loops in `kernel_main` (keys, then schedule events, then
sleep), and leaves the loop only by `process_run`, which enters ring 3 and comes back through
`usermode_return_to_kernel` on exit, yield or preemption. Everything else that runs is an
interrupt handler. Handlers run with interrupts off; kernel code and ring 3 run with them on.
So the interleavings that matter are those of ticks and keys with the steps of the loop,
of `process_run` and of `keyboard_read_key`, and of a tick with the instructions of a
process. Process table, pager, banker, PMM and VMM are called from the kernel thread or from
system calls and faults (interrupts off), never from IRQ handlers, except the tick's exit path,
which reads the table and writes a saved context. The file system is sequential too; what
interferes with it is the disk: a write that fails, and a machine that is switched off between
two sectors.

The hard behaviours are therefore: preemption at any instruction and at any point of the way
back to the kernel; a wake-up between the idle test and `hlt`; the order of releases and
adoptions when parents and children end in any order; the failure of the second or third step
of a spawn; reuse of slots, pids, page directories, swap slots and frames; the two victim
searches when everything is pinned or in use; memory that ends between a page and its page
table; a stop or a failed write at any sector of a call; processes that print into a line
being typed or a screen being read. `PROJECT.json` lists each hazard at its line.

## 2. Modules

**Process.** One action for each operation on the table. `kpc` is the position of the kernel
thread (`shell`, `user`, `returning`, `returned`, `panic`); splitting the way back in three
makes visible the points where a tick finds a process that has left ring 3 but is still
`current_pid`. A spawn is one action (it runs in the kernel thread and nothing else touches
what it writes) with one disjunct for each way it can end: no page directory, no pager entry for
the code page, none for the stack page, success. User code is arbitrary: any system call at any
time. A C call that returns an error without changing anything is a stuttering step. The page
directories (`spaces`), pager entries, pins, memdemo slots and banker registrations are kept as
sets of what exists and whose it is, which is all that ownership needs. Loops that write each
slot independently (`adopt_children`, a reap) are one set operation; the scan of
`select_next_ready_process`, whose order matters, is a recursive function, one value per
iteration. `process_run_pid` has no caller and is left out; user programs loaded from files are
covered by "user code is arbitrary".

**Timer** maps the record of timer state to its next value; **Kernel** composes `Process` and
`Timer` with the main loop, interrupts, the keyboard as a bounded queue and four of the
built-in images as sequences of system calls. `context[i]` is the saved `eip`; `executed[i]` is
a history variable. A key stands for a command line ended by Enter.

**Keyboard** is the driver: the decoder with its prefix and Shift state, and the ring with a
reader in three steps. **KeyQueue** is the abstract queue that it implements: only a full
queue drops a key. This justifies the queue in `Kernel`. The history variable `op` names the key
pressed or read by a step.

**Console** holds the functions of `console.c` on a record with the source's names; the
screen is a field of its own because the code only draws it when something moved.
**Terminal** composes `Keyboard`, the shell's line editor and `Console` with processes that
print: IRQ1 at any time, the reader, `shell_handle_key`, and the calls around
`process_schedule_auto`. `loop` is the position in `kernel_main`. `prompt_at` and `torn` are
history variables: where the last prompt was printed, and whether one of the two known
defects below has spoilt the line since.

**Banker** has one action for each call. A request is the trial allocation (`Take`) and the safety
test; an unsafe one is rolled back vector by vector (`GiveBack`), so that a roll-back that forgets
one of the three breaks `TableExact`. The do-while loop of the safety test is run as many passes as there are entries, enough to reach
its fixed point.

**Pager** has page faults, both victim searches (recursive functions that clear A bits and
assign ticks as they go), write-back, page-in, registration, pinning, unregistration, sampling, and the
loads and stores that set A bits (external: the CPU). A disk transfer or an allocation may fail.
**PagedMemory** is the abstract specification: pages with contents that change only by a store
or a call. Its variable `op` names the operation of a step, so that an internal step (a fault, an
eviction, a sample) may not change any contents.

**Pmm** is `pmm_init` driven by any memory map within the bounds, then allocation and freeing.
Addresses are taken modulo `WORD` as uint32_t in the code. Its functions map the state of the
allocator to the next one, since one call of another module may allocate several pages.

**Vmm** extends `Pmm`: page tables are the contents of physical pages, walked as the code
walks them, and `tlb` holds the translations the CPU has cached (`Access`, external).
**AddressSpaces** adds everybody who uses memory: processes (create, run, return, release),
the pager (page-in, eviction, clearing of A bits), memdemo's slots, `uservm` and `ring3`.
It leaves *when* things happen to `Process` and `Pager` and allows any order.

**SimpleFsCore** has the functions below the interface of `simplefs.c`, each from state to
state with the result in `ok`, and every sector write in the order of the code; the loops over
blocks and inode-table sectors are recursive functions. **SimpleFs** has one action per call. A
call either completes, or one of its writes fails and the code goes on (`WriteFails`), or the
machine stops at one of its writes and mounts again (`MachineStops`). A failed write is `lost`,
or `late`: it reached the disk and was reported as failed (the driver times out). `doubt` is the
set of inodes the failed or interrupted call was working on; after a fault only mounting and mkfs
are explored, and the properties speak of the other inodes. The inodes in doubt may really be
damaged (an entry that names a free inode, a block owned twice); shown is that every other file
survives. Cells instead of bytes: a block holds
two bytes of a file or three entries of a directory. **FileStore** is the abstract
specification: inodes with a type and contents, a current directory and descriptors, and for each
call the one file it may change, to what. `ImplementsStore` reads the contents through bitmap,
inode, direct and indirect blocks. It allows a file that is written to, and the directory
a name is entered into, to be left empty at any time: that happens when the disk is full, and
whether it is full is not a function of the files, since blocks leak (`simplefs.c:618`).

A definition preceded by a comment "Mutant:" is not part of the model. It is a plausible wrong
version of the definition that follows it; `PROJECT.json` says which property it must break,
as evidence that the property depends on that code.

The `MC*` modules only add symmetry sets, views, the typed commands and texts, and
(`MCProcessExit`) one history variable. A view tells TLC which states to take for the same. Ours
drop only what no action and no property reads: the contents of free pages and free blocks,
which are cleared when allocated; ring cells without a key, a key already handled, lines that
were dropped.

## 3. Runs

| run | checks | result |
|---|---|---|
| `process` | `TypeOK`, `PidsUnique`, `ParentAlive`, `RunningIsCurrent`, `SpacesOwned`, `PagesOwned`, `ZombieIsFinal`, `PidNeverReused`, `HighestPriorityFirst`, `ReleaseUnregisters` | hold |
| `process_exit` | `ExitIsFinal` | violated, finding 1 |
| `kernel_safety` | `KernelTypeOK`, `ContextExact`, `NoSleepOnWork` | hold |
| `kernel_live` | `KeysServed`, `ProcessesFinish`, `EventsDrained` | hold |
| `banker` | `TableExact` (types, `NeedExact`, `OneClaimPerPid`), `WithinTotal`, `LoopDecidesSafety`, `GrantsAreSafe` | hold |
| `banker_return` | `AllReturned` | violated, finding 2 |
| `pager` | `TablesExact` (types, `FramesExact`), `ImplementsMemory`, `PinnedEvictedLast`, `RecentlyUsedKept` | hold |
| `pager_pinned` | `PinnedNeverEvicted` | violated, finding 3 |
| `terminal` | `IndexesInside` (types, `ViewExact`), `LineShown`, `ImplementsQueue`, `ReadingUndisturbed` | hold |
| `memory` | `AllocatorExact` (types, `FreeCountExact`, `ExactlyUsable`), `VmmTypeOK`, `TlbCoherent`, `KernelShared`, `SlotsMapped`, `Isolated`, `PagesAccounted` | hold |
| `simplefs` | `TablesSound` (types, `OpenFilesAlive`, `NamesUnique`), `BlocksOwned`, `Synced`, `ImplementsStore`, `StaysMountable` | hold |
| `simplefs_path` | `WorkingDirectoryShown` | violated, finding 4 |

### Bounds

- `process`: three slots and four pids one after another, so a family of three generations
  exists, slots are reused and the cursor wraps; two priorities, so ties and preferences both
  occur; exit codes include the yield marker. Three directories are reused in any order; a pager
  table of seven entries holds three processes and one data page, so a spawn also fails in the
  middle; one memdemo slot, and a banker registration that may outlive its process.
- `kernel_safety`: two slots, four commands of any kind typed at any time, at most two pending
  schedule events, ticks without any restriction on speed. `kernel_live`: three commands and
  three pending events. `MAX_PENDING` and `MAX_KEYS` only stop the environment. `MAX_PID` is
  larger than any behaviour needs.
- `banker`: two claims, two resources, three pids (the table can be full), amounts up to two,
  including claims above the total, so that unsafe states are reached. With two entries a single
  pass is already insufficient (its mutant is caught). Sums stay below the numbers typed and do not wrap.
- `pager`: two frames, three pages, two contents. Every frame, entry, swap slot and physical
  page is reused; `MAX_TICK` stops `usage_tick` before it wraps.
- `terminal`: a ring of three cells (two keys wait, the third is dropped) and four keys; a
  screen of two lines of three cells over three kept lines, so that the line being typed
  wraps, the ring of lines drops lines and the user can scroll; a line holds two characters, so
  that the third is refused; texts that end their line and texts that do not. `MAX_ROW` stops
  output after five lines.
- `memory`: pages of four bytes, an address space of 256, entries that overlap, straddle pages,
  exceed the memory and wrap; tables of six entries. Of the largest memory five pages are left
  after `vmm_init`: just what `uservm` takes, or two processes that compete for one page more, so
  every allocation of every call is once the one that fails. Two processes with a page mapped at
  the same time do not fit; six pages, where they do, make 1.5 million states, which were
  explored without an error too. Assumed: the memory ends at least a page below 4 GiB, where a PC
  has its ROM (otherwise `align_up` in `free_range` would wrap to 0), and fits into the direct
  map's 1 GiB (the Makefile starts the machine with 128 MiB).
- `simplefs`: three inodes, five blocks, one direct block and one indirect entry: the longer
  text and a directory with a second name need the indirect block, and the disk is soon full.
  `MAX_CALLS`: four calls that write between two mkfs, and any number of others; every sector
  write of every call may be the one that fails or the last before the machine stops. `MAX_OPEN`:
  this happens while no file is open but the one a call writes through; the proofs hold for any
  number. One fault between two mkfs. `simplefs_path`: the same disk without faults.

Symmetry is used for page directories, resources, pages, frames and only in runs without
liveness properties.

### Fairness

`FairKernelSpec` assumes weak fairness of the kernel thread (the one CPU keeps executing
instructions, in the kernel or in ring 3) and of `TimerIRQ` (the PIT keeps ticking). Typing is not
fair. `SLOW_TIMER` states that at most one tick arrives during one pass of the loop or one
instruction of a user program: a tick is 10 ms. Without it TLC finds that a timer that ticks
faster than the inner event loop runs keeps the loop from ever reading the keyboard; the code
offers nothing against that except the speed of the CPU. `ProcessesFinish` further needs
automatic scheduling to stay on (no `autosched off` in that run) and finite programs, as the
built-in images are.

### Findings

1. `process_run` recognises a yield by the value 0xFFFFFFFE, which `SYS_EXIT` can also
   pass: a process that exits with this code becomes READY again (`process.c:732`; the comment
   at `usermode.c:74` says exit never returns).
2. `banker_register_process` on a registered pid clears its allocation without returning it
   (`banker.c:130`); after the process ends `Available` is short of it, against `banker.h:22`.
3. Pinned pages can be evicted (`pager.c:168`): eight processes pin sixteen pages, as many as
   there are frames. `pager.h:41` says that they are forbidden as victims. What does hold is
   `PinnedEvictedLast`.
4. `rmdir .` removes the current directory (`simplefs.c:1155`). The next `mkdir` gets its inode,
   whose `..` then is the directory itself: `pwd` climbs for ever (`MyOS_commands.txt:37` says that
   pwd shows the current directory).

Defects that a property of a passing run names as its exception:

- a failed `uservm` does not free the page table of its code page (`vmm.c:452`; `lost` in
  `PagesAccounted`); a failed `ring3` leaves a freed code page mapped in the kernel's directory until
  the next try (`vmm.c:491`; excepted in `UserMappings`);
- when the write of a fresh indirect block is lost, the clean-up takes the zeros on the disk for
  block numbers and marks block 0, usually the root directory's, as free (`simplefs.c:622`;
  `BlocksOwned` exempts block 0 after any lost write, since `fault` does not tell which sector was
  lost);
- "process exited" is printed without `shell_note_async_output`: after a slice without output
  it lands in the line being typed (`process.c:880`), and a backspace at the left edge of a line
  that wrapped removes the character from the buffer and not from the screen (`console.c:149`);
  `torn` in `LineShown`.

Met while modelling, not stated as properties: a file that cannot be written is left
empty, so a directory that grows on a full disk loses all its entries, `.` and `..` too; when the disk
is full at the indirect block, the data block allocated just before it stays marked for ever
(`simplefs.c:618`); a mkfs that fails keeps the old descriptors open; a second memdemo process that
allocates a slot of the first is given an address that is not mapped in its own directory and
panics at the store (`memdemo.c:214`). Met while reading: the comment at `pager.c:381` says that
registering a page again only updates flags, while the code also rewrites its swap slot (no caller registers twice).

## 4. Proofs

The theorems hold for every value of the constants that satisfies the named assumptions of the
module that declares them, not only for the configured instances. Each rests on an inductive
invariant, on one lemma for each kind of step, one case per action, and `PTL` for the temporal
step. The invariants that are stronger than what a run checks are named below.

**Assumptions.** `Process`: the table is not empty, the default priority is in range, the kernel's
directory and "no directory" are not among the directories handed out, the labels of code and
stack page are not data pages. `Kernel`: the exit codes include 0, and the marker of a yield is
not 0. `Terminal`: prompt and outputs are sequences of characters, and the prompt holds neither a
newline nor a backspace. `Banker`: pids are natural numbers. `Pmm`: the memory ends a page below
4 GiB and the kernel with the bitmap after it ends three pages below it, so that `align_up` of these
two does not wrap (the kernel is loaded at 1 MiB and the bitmap is at most 128 KiB); nothing is assumed
of the regions of the map, whose ends may wrap. `Vmm`: the memory fits into the direct map. `AddressSpaces`: the
addresses of the pager (`0x00800000`, `0xBFFEF000` and, for `pagertest`, from `0x40000000`), of
memdemo, and of the two demonstrations (`0x00400000`, `0xBFFFF000`) are user addresses, and no two
users of one directory share one. `SimpleFsCore`: a new directory with its two entries fits into one direct
block, the invalid number is no inode and no block. `SimpleFs`: the texts are sequences of bytes, offsets are
natural numbers. The other conjuncts say that sizes are positive.

**Induction.** The provers cannot instantiate an induction theorem that takes an operator, so
`Induction` states it with sets: `LeastNatural` (a non-empty set of naturals has a least element),
`IntervalInduction` (a subset of an interval that contains its start and is closed under successor is
the interval), and `RecursionExists` (a loop body on a set of states has a run of any length);
`SubsetInduction` and `SubsetRecursion` say the same of a function that takes the elements of
a finite set one by one. `Division`, `QuotientUnique` and `QuotientBound` are what is used of `\div` and `%`. With the
loop's state kept in a set that carries the loop invariant, what the recursive functions of the
models compute can be proved: the scan of the scheduler, the safety loop of the banker, the two
victim searches, the writing of a text to the console, the boot loader's regions, the direct map, the release
of all pages of a process, and the loops of `write_inode_table` and `write_inode_data`.

**KernelProofs.** First the process table. The inductive invariant `IInv` is the conjunction of the six properties `TypeOK`,
`PidsUnique`, `ParentAlive`, `RunningIsCurrent`, `SpacesOwned` and `PagesOwned`. None of them can do
without others:

- `PidsUnique` needs that `next_pid` only grows and exceeds every live pid (part of it) and the types;
- `ParentAlive` needs `PidsUnique`: a release hands the children of one pid to the root, which
  is right only if no other live process has that pid; on exit, the process that becomes a zombie
  is `selected`, and that its children are those of `current_pid` is `RunningIsCurrent`;
- `RunningIsCurrent` needs `SpacesOwned` for "a slot with a state is used", and a
  release must be known not to hit the running process (it only happens when `kpc = "shell"`, when
  nobody is RUNNING);
- `PagesOwned` needs `SpacesOwned`: the pages of a released directory are removed by
  directory, which is right only if no two processes share one, and a new process starts without
  pages because its directory is not in use.

From it follow the action properties `ZombieIsFinal`, `PidNeverReused` and `ReleaseUnregisters`.
`HighestPriorityFirst` is the loop invariant of `select_next_ready_process`: after k slots the
candidate is the first one of the highest priority among those k, and the ring indexes of one
turn are all the slots (`RingIndexes`).

Then the running kernel. `KernelImplementsProcess`: every step of the kernel is a step of `Process` or leaves
its variables alone, so `IInv` holds in the kernel too. `KInv` adds the types, and where a saved
context can be: the running process has executed exactly what its context says up to the
instruction it is at, in ring 3 and at each point of the way back. `NoLostWakeup` needs `KInv`
for what `IF` is at the points of the idle path.

**TerminalProofs.** `KeyboardImplementsQueue`: the unread cells of the ring, in order, are the queue;
a step of the reader that has read a cell and not yet moved `tail` leaves it unchanged, because the handler
never writes the cell at `tail`. `ViewAlwaysExact`: the screen equals the lines of the view after
every function of `console.c`, which needs that a line that becomes the current one is cleared before
it is shown. `LineAlwaysShown` adds where the prompt was printed (`prompt_at`) and that the cells from
there to the cursor are prompt and buffer; wrap-around of the ring of lines is arithmetic modulo its
size (`WrapAround`). `OutputKeepsView` is an action property on top of these.

**BankerProofs.** `TableAlwaysExact` and `ResourcesNeverCreated` are inductive together (a release is
bounded by the allocation because Need is exact). `LoopAlwaysExact` is for every table, not only for
reachable ones: a pass that finishes nobody is a fixed point; with as many passes as entries one pass
is such a pass; at the fixed point an order of completion cannot go on past the claims the loop
has finished, since its first claim outside them needs no more than the loop's Work. `OnlySafeGrants`
follows.

**PagerProofs.** `PagerInv` is `TablesExact` and that no page's tick is beyond `usage_tick`. The clock's
loop invariant says by the distance from where the hand started which A bits are cleared in the
first turn, and what is left to be found in the second; that of LRU that the candidate is the
oldest unpinned page of those seen. `PinnedAreLast` and `UsedAreKept` read the victim off them.
`PagerImplementsMemory` maps a page to its frame's contents if it is resident and to its swap slot
otherwise; a fault then changes no contents, because the victim's frame is written to its own slot
before it is reused and a page is read from the slot that was last written.

**MemoryProofs.** None of the properties of `AddressSpaces` is inductive alone. That a freed page is
not still in use needs to know who uses it, and the tables say so only in the direction from
directory to page. The invariant therefore speaks of a function `own` that gives every page a *role*:
free, a directory, the table of directory d at index i, a kernel table, the page of d at address
v, or spare (taken and in no table yet, or lost for good). `Owned` says that the pages in use are those with
a role (`RolesExact`), that the tables bear every role out (`Backed`), and that every reference in
them is a role (`Referenced`), with the kernel's part equal in all directories. A role has one directory
and one address, so `Isolated` follows from `Referenced`, and `PagesAccounted` from `RolesExact` and
`Backed`. `MemInv` is this with

- `PmmInv`: the bitmap, the count and what the regions read so far have freed. It gives that
  a page just allocated is not in use and that a page given back is counted once;
- `PagerPages`, `SlotPages`: the pager's frames are exactly the pages present at its addresses, a slot's
  page is mapped where it was allocated, and a process maps nothing else. A release is right
  because of them: it frees what pager and memdemo know, then the tables, and a page it did not know of would be
  lost with its table;
- `StackFree` and the exception of `ring3`'s code page, which is mapped before the stack page is
  allocated and is not counted until the demonstration is complete;
- `Cached`: `TlbCoherent`, and that only user pages are cached;
- `Idle`: before `vmm_init` has ended well nobody holds a page.

The proof follows the layers of the code. The first part computes what the ranges of `pmm_init` free and
keep. The second has one lemma for each way the tables change (an entry written, a table linked, a directory
added, a directory with all that belongs to it removed): each says what the roles are afterwards. The
third states each function of `vmm.c` with its failures: what it returns, which mappings
it changes, and which pages are spare. The last has a lemma for each action. `own` is
quantified, so TLC does not evaluate `MemInv`; the seven properties it implies are those of the run `memory`.

**SimpleFsProofs.** The functions of `simplefs.c` change memory first and write sector by sector, and any of these
writes may be the one that fails. What has to be known in the middle of a call is therefore stated for the record
that the functions pass on. `Good(V, s, T, E)`:

- `Owns`: the pointers of the inodes in use, numbered from 0 (the indirect block) on, are marked and pairwise
  different, where `T` gives the table of each indirect block and `E` the blocks that may not be marked;
- `Backed`: the tables `T` are on the disk, so that `read_indirect_block` finds them;
- `DiskOwns`: the inodes the call has *not* touched are on the disk what they are in memory, and their blocks are
  marked in the bitmap *on the disk*, which may be older or newer than the one in memory;
- `Rooted`: there is a root directory.

`E` is empty but for one case: after a lost write, where the sector may have been a new indirect block, the
clean-up may have freed block 0 (`Exc`), the exception `BlocksOwned` names; that a machine that has stopped also runs the clean-up
is of no consequence, since none of it reaches the disk (`LostExc`). The middle of `write_inode_data`, where the
new table of the file is only in memory, has an invariant of its own (`Building`, with `Clean` and
`Messy` for what the indirect block on the disk holds), which says for the other inodes the same. Each function
then has a lemma, from `WritesSector` and `Allocates` up to one per call: the state it leaves is sound
(`Sound`), it has changed nothing without noting the inode in `touched`, a disk that mounted still mounts, and
without a fault memory and disk agree at the end (`Changes`); an open regular file is still there (`OpenKept`).
`simplefs_write_fd` alone moves an offset of the caller after it has written; that it does not do so when a fault struck
one of its sectors is `WriteStruck`: every function passes a failure on to its caller (`Reports`), up to the call.

`FsInv` is what holds between two calls: with no inode in doubt the file system is `Ready` (sound, on the disk,
mountable, its descriptors alive) or there is none (`BlankFs`); in any case the inodes not in doubt hold their blocks
alone (`Held`), in memory *and* on the disk. The second is needed because the machine may be
switched off later: `simplefs_init` makes the disk's tables those in memory. `BlocksOwned` and `Synced` alone are
not inductive for this reason. `BlocksAlwaysOwned`, `AlwaysSynced`, `DescriptorsAlive` and `FsTyped` follow
from `FsInv`, `AlwaysMountable` from its proof. `T` and `V` are quantified, so TLC does not evaluate `FsInv`.

**FileStoreProofs.** What files contain is proved over `FsInv`. `FileOf(s, i)` is what a user sees of an inode
through bitmap, table, blocks and indirect block. The argument has three layers:

- each function in terms of files: what `write_inode_data` was given is what `read_inode_bytes` finds afterwards
  (`Assembled`, `Stored`: the loop that fills the blocks leaves the cells in their places, also those behind
  the indirect block), an allocated inode is an empty file, a released one is free, and every inode that
  is not in `touched` keeps its file (`Spares`, `Touches`);
- each call in terms of files, one predicate for all outcomes of a kind of call: a new entry (`Makes`), a removed one
  (`RemovesFile`), new contents (`WritesName`, `FdWritten`), a new place (`DirChanged`, `FdMoved`), a new file system
  (`Formatted`). A full disk is one of the outcomes: the current directory may lose its entries (`CwdLost`),
  and `FileStore` has to allow it (`DirectoryLost`);
- each outcome as a step of `FileStore`: the lemmas `StoreNewFile` ... `StoreDamage`, and from them one lemma per
  action (`TouchStore` ... `RebootStore`).

The refinement needs an invariant stronger than `FsInv`. `StoreInv` adds that directories are `Proper` (their entries
are pairs of a name and an inode, no name twice: without it `cd` and `rm` could take an entry for which the store has no
step), and `AgreeOn(Now, doubt)`: disk and memory agree on every inode that is not in doubt, so that a machine that starts
again *after* a failed write finds the same files. `Proper` is shown from the steps of the abstract store
(`ProperNext`): once a call is known to be a step of the store, its blocks need not be looked at again.
`FsImplementsStore` and `TablesAlwaysSound` follow.

Only model-checked: liveness under fairness, which is beyond the prover. Every other property of the passing runs
is stated by a theorem.

## 5. Not modelled

What the `ring3` demo executes, with `current_pid = 0` (its address space is modelled); the
text of `ps`, of reports and of all messages; process names; `timer_ticks`, pager counters and traces
(only displayed); memdemo's events and log lines; parsing of command arguments; IDT, PIC, GDT and
PIT programming; the ATA protocol (a transfer succeeds or fails) and reads of the file system that
fail; `link_count`, which nothing reads; the branch of `pager_register_page` for a page that is already
registered, which no caller reaches; keys the shell ignores, such as Tab and ESC (their effect is that of a backspace
in an empty line); the size argument of `bigfiletest`.

## 6. Plan

1. *Done:* `Process`, `Timer`, `Kernel`, `Banker`, `Pager` / `PagedMemory`, `Keyboard` / `KeyQueue`, `Pmm`,
   and the proof of `Process`.
2. *Done:* `Vmm` and `AddressSpaces` over `Pmm`; `SimpleFsCore`, `SimpleFs` and `FileStore`; `Console`
   and `Terminal` over `Keyboard`.
3. *Done:* proofs about `Process`, `Kernel`, `Keyboard`, `Console`, `Terminal`, `Banker` and `Pager`, with two
   refinements.
4. *Done:* proofs about memory: the allocator is exact, who owns a page, isolation, coherence of the TLB.
5. *Done:* proofs about the tables of the file system: who owns a block, memory and disk agree, the disk mounts.
6. *Done:* what files contain: what was written is read back, names in a directory are unique, and the calls implement
   `FileStore`.
