------------------------------ MODULE MCAccess ------------------------------
(* Constant values for the TLC run of Access: one key, in the builtin set.     *)
EXTENDS Access, TLC
CONSTANTS k1, k2, c1, c2
MCKeys == [s \in Secrets |-> IF s = k1 THEN [set |-> User, active |-> TRUE] ELSE None]
MCSets == [n \in Names |-> IF n = Admin THEN Powers ELSE {"read"}]
Symmetry == Permutations(Changes)
MCPolicies == {{"admin"}}
=============================================================================
