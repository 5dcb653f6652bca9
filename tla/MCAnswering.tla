---------------------------- MODULE MCAnswering ----------------------------
(* Constant values for the TLC run of Answering: a chunk that leaves room and *)
(* one that has to be cut; h1 is the local host.                             *)
EXTENDS Answering
CONSTANT none
MCSize(c) == IF c = "c1" THEN 1 ELSE 3
MCListed == <<"h2", "h1">>
=============================================================================
