-------------------------- MODULE MCResponseCache --------------------------
(***************************************************************************)
(* Instances of ResponseCache for TLC.                                     *)
(***************************************************************************)
EXTENDS ResponseCache, TLC

Symmetry == Permutations(Requests)
=============================================================================
