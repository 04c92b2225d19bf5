----------------------------- MODULE MCProcess -----------------------------
(***************************************************************************)
(* Process on small instances.  Page directories are interchangeable, so   *)
(* TLC explores them up to permutation.                                    *)
(***************************************************************************)
EXTENDS Process, TLC

DirSymmetry == Permutations(DIRS)
=============================================================================
