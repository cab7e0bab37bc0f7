--------------------------- MODULE MCStateUpdater ---------------------------
(* StateUpdater for TLC.  Keys and accounts are interchangeable.           *)
EXTENDS StateUpdater, SequencesExt

Symmetry == Permutations(Key) \cup Permutations(Account)
=============================================================================
