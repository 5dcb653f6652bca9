------------------------------ MODULE MCCorpus ------------------------------
(* Instances of Corpus for TLC. *)
EXTENDS Corpus, TLC

CONSTANTS d1, d2, k1, k2

\* Documents and categories are interchangeable.
Symmetry == Permutations(Docs) \cup Permutations(Keys)
=============================================================================
