------------------------------ MODULE MCDeploy ------------------------------
(* Constant values for the TLC run of Deploy.                              *)
EXTENDS Deploy, TLC
CONSTANT none, d1, d2
MCSymmetry == Permutations({d1, d2})
=============================================================================
