------------------------------- MODULE Kernel -------------------------------
(***************************************************************************)
(* MyOS running: the main loop of kernel_main, the timer and keyboard      *)
(* interrupts that arrive between any two of its steps, the built-in user  *)
(* programs with their saved contexts, and the process table of Process.   *)
(*                                                                         *)
(* lpc is the point of the main loop:                                      *)
(*   "keys"   while (keyboard_read_key(&key)) shell_handle_key(key)        *)
(*   "events" while (timer_take_schedule_event())                          *)
(*   "check"  an event was taken: is there something to schedule?          *)
(*   "cli"    about to disable interrupts                                  *)
(*   "test"   interrupts off: anything arrived meanwhile?                  *)
(*   "sleep"  about to execute sti; hlt                                    *)
(*   "halt"   the CPU sleeps until an interrupt                            *)
(*   "run"    inside process_run; Process!kpc says where                   *)
(* A key stands for a whole command line ended by Enter.                   *)
(***************************************************************************)
EXTENDS Process, Timer, Sequences

CONSTANTS
  COMMANDS,        \* the commands the user types
  KEYBOARD_SIZE,   \* keys the keyboard buffer holds (127)
  MAX_KEYS,        \* bound: commands typed in one behaviour
  MAX_PENDING,     \* bound: schedule events pending at once (uint32_t)
  SLOW_TIMER       \* TRUE: the CPU is fast enough to complete a pass of the
                   \* main loop, or a user instruction, between two ticks

ASSUME KernelAssumption ==
  /\ KEYBOARD_SIZE \in Nat /\ MAX_KEYS \in Nat /\ MAX_PENDING \in Nat
  /\ SLOW_TIMER \in BOOLEAN
  /\ 0 \in EXIT_CODES              \* what every built-in image exits with
  /\ USERMODE_RETURN_YIELD # 0

VARIABLES
  lpc,             \* see above
  run_from,        \* where process_run returns to: "keys" or "events"
  irq_enabled,     \* EFLAGS.IF
  timer,           \* timer.c
  auto_schedule_enabled,
  keys,            \* the keyboard buffer
  typed,           \* commands typed so far (for MAX_KEYS)
  ticked,          \* a tick came and no pass ended since (for SLOW_TIMER)
  app,             \* the image each slot was created from
  context,         \* processes[i].context.eip: next instruction of slot i
  eip,             \* the CPU's instruction pointer while in user mode
  executed         \* history: instructions of slot i's image executed so far

loop == <<lpc, run_from, irq_enabled, ticked>>
input == <<keys, typed>>
user == <<app, context, eip, executed>>
kvars == <<vars, loop, timer, auto_schedule_enabled, input, user>>

(***************************************************************************)
(* The built-in images as sequences of system calls; "busy" is the delay   *)
(* loop of busy.app.                                                       *)
(***************************************************************************)
HelloImage == <<"write", "exit">>
BusyImage == <<"write", "busy", "write", "busy", "write", "exit">>
CounterImage == <<"write", "yield", "write", "yield", "write", "exit">>
SpawnerImage == <<"spawn", "write", "yield", "write", "exit">>

Image == [hello |-> HelloImage, busy |-> BusyImage,
          counter |-> CounterImage, spawner |-> SpawnerImage]

KernelInit ==
  /\ Init
  /\ lpc = "keys" /\ run_from = "keys" /\ irq_enabled = TRUE
  /\ timer = timer_init
  /\ auto_schedule_enabled = TRUE
  /\ keys = <<>> /\ typed = 0 /\ ticked = FALSE
  /\ app = [i \in Slots |-> "hello"]
  /\ context = [i \in Slots |-> 1]
  /\ eip = 1
  /\ executed = [i \in Slots |-> 0]

-----------------------------------------------------------------------------
(* Interrupts.                                                             *)

\* process_save_yield_frame: the interrupted user eip goes to the table.
process_save_yield_frame(frame_eip) == context' = [context EXCEPT ![selected] = frame_eip]

\* Mutant: hlt is executed again after each interrupt.
WakeNot == lpc' = lpc

\* An interrupt that returns to the main loop ends a hlt.
Wake == lpc' = IF lpc = "halt" THEN "keys" ELSE lpc

\* Mutant: the privilege level of the interrupted code is not looked at.
FromProcess == current_pid # 0

\* The part of a tick's exit path that looks at the frame: only a tick that
\* interrupted ring 3 may preempt.
FromUser == kpc = "user" /\ current_pid # 0

\* process_preempt_if_needed after the tick made the timer state t.
process_preempt_if_needed(t) ==
  IF FromUser /\ timer_has_schedule_event(t)
  THEN /\ timer' = timer_take_schedule_event(t)
       /\ IF process_has_ready
          THEN /\ process_save_yield_frame(eip)
               /\ usermode_return_to_kernel(USERMODE_RETURN_YIELD)
          ELSE UNCHANGED <<vars, context>>
  ELSE timer' = t /\ UNCHANGED <<vars, context>>

\* IRQ0: timer_irq_handler, end of interrupt, then the preemption check.
TimerIRQ ==
  /\ irq_enabled /\ kpc # "panic"
  /\ timer.schedule_event_pending < MAX_PENDING
  /\ ~(SLOW_TIMER /\ ticked)
  /\ process_preempt_if_needed(timer_irq_handler(timer))
  /\ Wake
  /\ ticked' = SLOW_TIMER
  /\ UNCHANGED <<run_from, irq_enabled, auto_schedule_enabled, input, app, eip, executed>>

\* IRQ1: a key is buffered; a full buffer drops it.
KeyboardIRQ(cmd) ==
  /\ irq_enabled /\ kpc # "panic"
  /\ typed < MAX_KEYS
  /\ typed' = typed + 1
  /\ keys' = IF Len(keys) < KEYBOARD_SIZE THEN Append(keys, cmd) ELSE keys
  /\ Wake
  /\ UNCHANGED <<vars, run_from, irq_enabled, ticked, timer, auto_schedule_enabled, user>>

-----------------------------------------------------------------------------
(* The shell.                                                              *)

\* A slot that was free and now is not starts at the entry of image a.
Load(a) ==
  LET fresh(i) == processes'[i].used /\ ~processes[i].used IN
  /\ app' = [i \in Slots |-> IF fresh(i) THEN a ELSE app[i]]
  /\ context' = [i \in Slots |-> IF fresh(i) THEN 1 ELSE context[i]]

\* process_schedule_auto from the point from: usermode_enter_context loads
\* the saved context and irets with IF set.
Dispatch(from) ==
  \E i \in Slots :
    /\ process_run(i)
    /\ eip' = context[i]
    /\ lpc' = "run"
    /\ run_from' = from
    /\ UNCHANGED <<irq_enabled, ticked, app, context, executed>>

\* The commands: exec and execp, sched, reap, autosched on and off, slice.
CmdExec(a, priority) ==
  /\ \/ ShellSpawn(0, priority)
     \/ (\A i \in Slots : processes[i].used) /\ UNCHANGED vars
  /\ Load(a)
  /\ executed' = [i \in Slots |-> IF processes'[i].used /\ ~processes[i].used
                                  THEN 0 ELSE executed[i]]
  /\ UNCHANGED <<loop, timer, auto_schedule_enabled, eip>>

CmdSched ==
  \/ Dispatch("keys") /\ UNCHANGED <<timer, auto_schedule_enabled>>
  \/ ~process_has_ready /\ UNCHANGED <<vars, loop, timer, auto_schedule_enabled, user>>

CmdReap == process_reap_zombies /\ UNCHANGED <<loop, timer, auto_schedule_enabled, user>>

CmdAutosched(on) ==
  /\ auto_schedule_enabled' = on
  /\ UNCHANGED <<vars, loop, timer, user>>

CmdSlice(ticks) ==
  /\ timer' = timer_set_timeslice(ticks)
  /\ UNCHANGED <<vars, loop, auto_schedule_enabled, user>>

run_command(cmd) ==
  \/ \E a \in DOMAIN Image, p \in Priorities : cmd = <<"exec", a, p>> /\ CmdExec(a, p)
  \/ cmd = <<"sched">> /\ CmdSched
  \/ cmd = <<"reap">> /\ CmdReap
  \/ \E on \in BOOLEAN : cmd = <<"autosched", on>> /\ CmdAutosched(on)
  \/ \E n \in TIMESLICES : cmd = <<"slice", n>> /\ CmdSlice(n)

-----------------------------------------------------------------------------
(* The main loop of kernel_main.                                           *)

HandleKey ==
  /\ lpc = "keys" /\ keys # <<>>
  /\ keys' = Tail(keys)
  /\ run_command(Head(keys))
  /\ UNCHANGED typed

NoMoreKeys ==
  /\ lpc = "keys" /\ keys = <<>>
  /\ lpc' = "events"
  /\ UNCHANGED <<vars, run_from, irq_enabled, ticked, timer, auto_schedule_enabled, input, user>>

TakeEvent ==
  /\ lpc = "events"
  /\ timer' = timer_take_schedule_event(timer)
  /\ lpc' = IF timer_has_schedule_event(timer) THEN "check" ELSE "cli"
  /\ UNCHANGED <<vars, run_from, irq_enabled, ticked, auto_schedule_enabled, input, user>>

CheckReady ==
  /\ lpc = "check"
  /\ \/ auto_schedule_enabled /\ process_has_ready /\ Dispatch("events")
     \/ /\ ~(auto_schedule_enabled /\ process_has_ready)
        /\ lpc' = "events"
        /\ UNCHANGED <<vars, run_from, irq_enabled, ticked, user>>
  /\ UNCHANGED <<timer, auto_schedule_enabled, input>>

\* Mutant: interrupts stay on during the test.
DisableNothing ==
  /\ lpc = "cli"
  /\ lpc' = "test"
  /\ UNCHANGED <<vars, run_from, irq_enabled, ticked, timer, auto_schedule_enabled, input, user>>

DisableInterrupts ==
  /\ lpc = "cli"
  /\ irq_enabled' = FALSE
  /\ lpc' = "test"
  /\ UNCHANGED <<vars, run_from, ticked, timer, auto_schedule_enabled, input, user>>

TestIdle ==
  /\ lpc = "test"
  /\ IF keys = <<>> /\ ~timer_has_schedule_event(timer)
     THEN lpc' = "sleep" /\ UNCHANGED <<irq_enabled, ticked>>
     ELSE lpc' = "keys" /\ irq_enabled' = TRUE /\ ticked' = FALSE
  /\ UNCHANGED <<vars, run_from, timer, auto_schedule_enabled, input, user>>

\* sti; hlt: the CPU takes no interrupt between the two instructions.
Sleep ==
  /\ lpc = "sleep"
  /\ irq_enabled' = TRUE
  /\ lpc' = "halt"
  /\ ticked' = FALSE
  /\ UNCHANGED <<vars, run_from, timer, auto_schedule_enabled, input, user>>

-----------------------------------------------------------------------------
(* User mode and the way back.                                             *)

Instr == Image[app[selected]][eip]
Advance == eip' = eip + 1
Count == executed' = [executed EXCEPT ![selected] = @ + 1]

\* usermode_handle_syscall, one disjunct for each call a built-in image makes
\* (and the delay loop, which makes none).
usermode_handle_syscall ==
  \/ Instr \in {"write", "busy"} /\ Advance /\ Count /\ UNCHANGED <<vars, app, context>>
  \/ /\ Instr = "yield"
     /\ process_save_yield_frame(eip + 1)
     /\ SysYield
     /\ Count /\ UNCHANGED <<app, eip>>
  \/ Instr = "exit" /\ SysExit(0) /\ Count /\ UNCHANGED <<app, context, eip>>
  \/ /\ Instr = "spawn"
     /\ SysSpawnApp \/ ((\A i \in Slots : processes[i].used) /\ UNCHANGED vars)
     /\ Load("hello")
     /\ Advance
     /\ executed' = [i \in Slots |-> IF i = selected THEN executed[i] + 1
                                     ELSE IF processes'[i].used /\ ~processes[i].used
                                     THEN 0 ELSE executed[i]]

UserInstruction ==
  /\ kpc = "user"
  /\ usermode_handle_syscall
  /\ ticked' = FALSE
  /\ UNCHANGED <<lpc, run_from, irq_enabled, timer, auto_schedule_enabled, input>>

ReturnToLoop ==
  /\ \/ RunReturn /\ lpc' = lpc
     \/ RunDone /\ lpc' = run_from
  /\ UNCHANGED <<run_from, irq_enabled, ticked, timer, auto_schedule_enabled, input, user>>

-----------------------------------------------------------------------------
KernelThread ==
  \/ HandleKey \/ NoMoreKeys \/ TakeEvent \/ CheckReady
  \/ DisableInterrupts \/ TestIdle \/ Sleep
  \/ UserInstruction \/ ReturnToLoop

KernelNext ==
  \/ KernelThread
  \/ TimerIRQ
  \/ \E cmd \in COMMANDS : KeyboardIRQ(cmd)

KernelSpec == KernelInit /\ [][KernelNext]_kvars

(***************************************************************************)
(* The one CPU keeps executing, in the kernel or in user mode, and the PIT *)
(* keeps ticking.  Nobody has to type.                                     *)
(***************************************************************************)
FairKernelSpec == KernelSpec /\ WF_kvars(KernelThread) /\ WF_kvars(TimerIRQ)

-----------------------------------------------------------------------------
(* Properties.                                                             *)

\* Every variable of the loop keeps its type: slice_remaining never is 0 at
\* rest, whatever the slice command is given.
KernelTypeOK ==
  /\ lpc \in {"keys", "events", "check", "cli", "test", "sleep", "halt", "run"}
  /\ run_from \in {"keys", "events"}
  /\ irq_enabled \in BOOLEAN /\ auto_schedule_enabled \in BOOLEAN /\ ticked \in BOOLEAN
  /\ timer \in TimerState
  /\ timer.slice_remaining <= timer.timeslice_ticks
  /\ Len(keys) <= KEYBOARD_SIZE
  /\ app \in [Slots -> DOMAIN Image]
  /\ \A i \in Slots : context[i] \in 1 .. Len(Image[app[i]])
  /\ lpc = "run" <=> kpc # "shell"

\* Preemption is invisible to the program: at whatever tick it lost the CPU,
\* a process resumes exactly after the last instruction it executed, never
\* repeats one, and becomes a ZOMBIE exactly when it has executed its whole
\* image, so every message is written once.
ContextExact ==
  /\ \A i \in Used :
       /\ processes[i].state = "READY" => context[i] = executed[i] + 1
       /\ processes[i].state = "ZOMBIE" <=>
            executed[i] = Len(Image[app[i]]) /\ ~(kpc = "returning" /\ i = selected)
  /\ kpc = "user" => eip = executed[selected] + 1

\* No lost wake-up: kernel_main never sleeps on a key or a schedule event
\* that came after it last looked (cli before the test, sti; hlt after it).
NoSleepOnWork ==
  lpc = "halt" => keys = <<>> /\ ~timer_has_schedule_event(timer)

\* kernel_main serves the keyboard: a typed command is never left waiting
\* for ever, whatever the processes do with the CPU.
KeysServed == keys # <<>> ~> keys = <<>>

\* With automatic scheduling on, every process created is scheduled again and
\* again until it has exited: the timer alone drives it to completion.
ProcessesFinish ==
  \A i \in Slots :
    processes[i].state = "READY" ~> processes[i].state \in {"ZOMBIE", "UNUSED"}

\* Every schedule event is taken: events do not pile up while the kernel has
\* the CPU, since one pass of the loop takes all of them.
EventsDrained == timer_has_schedule_event(timer) ~> ~timer_has_schedule_event(timer)
=============================================================================
