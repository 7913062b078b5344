-------------------------- MODULE MC_RfqDocument ---------------------------
(* Instances of RfqDocument for TLC.                                       *)
EXTENDS RfqDocument, TLC

Symmetry == Permutations(Requests)
=============================================================================
