----------------------------- MODULE MCSubmission -----------------------------
(* Values for TLC.                                                         *)
EXTENDS Submission, TLC

RequestSymmetry == Permutations(Requests) \union Permutations(Keys) \union Permutations(Prints)
=============================================================================
