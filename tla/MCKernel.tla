------------------------------ MODULE MCKernel ------------------------------
(***************************************************************************)
(* Kernel with the command lines typed in each run.                        *)
(***************************************************************************)
EXTENDS Kernel, TLC

DirSymmetry == Permutations(DIRS)

\* Safety: one process that yields, one that does not, and every command.
AllCommands ==
  {<<"exec", "busy", 0>>, <<"exec", "counter", 1>>, <<"sched">>, <<"reap">>,
   <<"autosched", TRUE>>, <<"autosched", FALSE>>, <<"slice", 0>>, <<"slice", 2>>}

\* Liveness: automatic scheduling stays on.
ExecCommands ==
  {<<"exec", "spawner", 0>>, <<"exec", "counter", 1>>, <<"exec", "busy", 0>>, <<"sched">>, <<"reap">>}
=============================================================================
