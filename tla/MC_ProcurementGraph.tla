------------------------ MODULE MC_ProcurementGraph ------------------------
(* Instances of ProcurementGraph for TLC.                                  *)
EXTENDS ProcurementGraph, TLC

Symmetry == Permutations(Sessions)

AllPrograms == DOMAIN ProgramOf
=============================================================================
