------------------------------ MODULE MCBanker ------------------------------
(***************************************************************************)
(* Banker on small instances; the resources are interchangeable.           *)
(***************************************************************************)
EXTENDS Banker, TLC

ResourceSymmetry == Permutations(RESOURCES)
=============================================================================
