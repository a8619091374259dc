--------------------------- MODULE MCServedCorpus ---------------------------
(* Constants for model-checking ServedCorpus. *)
EXTENDS ServedCorpus, TLC

\* Categories are only ever compared with each other.
CategorySymmetry == Permutations(Categories)

=============================================================================
