---------------------------- MODULE MCCrudService ----------------------------
(* The instances of CrudService the runs check. *)
EXTENDS CrudService, TLC

CONSTANT FreshIds   \* how many documents a run may create

MCIds == 1 .. (2 + FreshIds)
MCExisting == 1 .. 2

\* Requests start out alike, contents are only compared, and no definition chooses among
\* either: permuting them is sound.
Symmetry == Permutations(Requests) \cup Permutations(Vals)

=============================================================================
