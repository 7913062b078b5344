-------------------------- MODULE MC_OpenClawSkill --------------------------
(* Instances of OpenClawSkill for TLC.                                     *)
EXTENDS OpenClawSkill, TLC

CONSTANTS qty, specs

Symmetry == Permutations(Callers) \cup Permutations(Conversations)
              \cup Permutations(BIds) \cup Permutations(DraftIds)

SomeTexts == {[gives |-> {qty}, names |-> {}], [gives |-> {qty, specs}, names |-> {}],
              [gives |-> {}, names |-> {specs}]}
=============================================================================
