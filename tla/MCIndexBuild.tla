---------------------------- MODULE MCIndexBuild ----------------------------
(* IndexBuild for TLC.                                                     *)
EXTENDS IndexBuild, TLC

CONSTANTS s1, s2, s3

\* Sources with records are interchangeable.
Symmetry == Permutations(Sources \ Blank)

=============================================================================
