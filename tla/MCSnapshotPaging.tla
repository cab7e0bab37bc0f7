-------------------------- MODULE MCSnapshotPaging --------------------------
(* SnapshotPaging for TLC.                                                 *)
EXTENDS SnapshotPaging, TLC

Symmetry == Permutations(Client) \cup Permutations(Account)
=============================================================================
