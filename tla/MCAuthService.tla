--------------------------- MODULE MCAuthService ---------------------------
(***************************************************************************)
(* Instances of AuthService for TLC.  The configuration gives each run its  *)
(* operations, hooks and faults.                                           *)
(***************************************************************************)
EXTENDS AuthService, TLC

Symmetry == Permutations(Requests) \cup Permutations(Passwords)
=============================================================================
