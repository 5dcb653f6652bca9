----------------------------- MODULE MCJobQueue -----------------------------
(* Instances of JobQueue for TLC. *)
EXTENDS JobQueue, TLC

CONSTANTS u1, u2, r1, r2, b1, w1, w2

\* r1 and r2 are requests for the same reindex; b1 is a backup.
OneIdentity == (r1 :> "reindex") @@ (r2 :> "reindex") @@ (b1 :> "backup")

MCIdentity == [j \in Tracked |-> OneIdentity[j]]

Symmetry == Permutations(Workers)

=============================================================================
