------------------------------ MODULE MCIngest ------------------------------
(* Constant values for the TLC run of Ingest: a PDF at the top and one with   *)
(* the same name in a subdirectory.                                          *)
EXTENDS Ingest, TLC
CONSTANT none
MCStem(f) == "a"
MCGiven == {("a" :> "c1" @@ "x/a" :> "c2")}
=============================================================================
