---------------------------- MODULE MCIndexStore ----------------------------
(* IndexStore for TLC.                                                     *)
EXTENDS IndexStore, TLC

CONSTANTS e1, e2

=============================================================================
