------------------------------ MODULE MCPager ------------------------------
(***************************************************************************)
(* Pager on small instances.  Pages and physical pages are interchangeable *)
(* each among themselves.                                                  *)
(***************************************************************************)
EXTENDS Pager, TLC

PagerSymmetry == Permutations(PAGES) \cup Permutations(FRAMES)
=============================================================================
