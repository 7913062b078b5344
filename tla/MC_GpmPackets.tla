--------------------------- MODULE MC_GpmPackets ---------------------------
(* Instances of GpmPackets for TLC.                                        *)
EXTENDS GpmPackets, TLC

Symmetry == Permutations(Instances) \cup Permutations(Packets)
=============================================================================
