-------------------------- MODULE MCUpdaterService --------------------------
(* UpdaterService for TLC.                                                 *)
EXTENDS UpdaterService

Symmetry == Permutations(Key)
=============================================================================
