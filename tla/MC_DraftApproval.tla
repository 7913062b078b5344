------------------------- MODULE MC_DraftApproval -------------------------
(* Instances of DraftApproval for TLC.                                     *)
EXTENDS DraftApproval, TLC

(* Sound for the safety properties of draft_serial; the run that checks    *)
(* liveness (draft_race) uses no symmetry.                                 *)
Symmetry == Permutations(Requests) \cup Permutations(QuoteDrafts)
                                   \cup Permutations(NoticeDrafts)
=============================================================================
