--------------------------- MODULE MCProcessLock ---------------------------
(***************************************************************************)
(* Three processes; symmetric, so TLC may permute them.                    *)
(***************************************************************************)
EXTENDS ProcessLock, TLC

Symmetry == Permutations(Procs)

=============================================================================
