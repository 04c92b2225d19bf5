--------------------------- MODULE MCProcessExit ---------------------------
(***************************************************************************)
(* Process with a history variable: the pids whose SYS_EXIT was handled.   *)
(* The exit code and the yield marker come back through the same register, *)
(* so the history knows what process_run cannot see.                       *)
(***************************************************************************)
EXTENDS Process

VARIABLE exited

\* SYS_EXIT, remembered.
Exit ==
  /\ \E code \in EXIT_CODES : SysExit(code)
  /\ exited' = exited \cup {current_pid}

OtherStep == Next /\ UNCHANGED exited

ExitSpec ==
  /\ Init /\ exited = {}
  /\ [][Exit \/ OtherStep]_<<vars, exited>>

\* usermode.c, SYS_EXIT: "exit ends the current user-mode execution, it does
\* not return to the user instruction".  A process that has called exit is
\* never READY to be scheduled again.
ExitIsFinal ==
  \A i \in Used : processes[i].pid \in exited => processes[i].state # "READY"
=============================================================================
