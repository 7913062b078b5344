-------------------------- MODULE MC_OrderFollowUp --------------------------
(* Instances of OrderFollowUp for TLC.                                     *)
EXTENDS OrderFollowUp, TLC

Symmetry == Permutations(Callers) \cup Permutations(Paths) \cup Permutations(Orders)
              \cup Permutations(PlanIds)

SomeHints == {{"qc_confirmation", "packaging_ready"}, {"logistics_handover"}}
SomeQcMessages == {{}, {"pass"}, {"fail"}, {"pass", "fail"}, {"confirm"}}
=============================================================================
