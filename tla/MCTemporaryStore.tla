--------------------------- MODULE MCTemporaryStore ---------------------------
(* Values for TLC.                                                         *)
EXTENDS TemporaryStore, TLC

StoreSymmetry == Permutations(Processes) \union Permutations(Refs) \union Permutations(Files)
=============================================================================
