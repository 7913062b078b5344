------------------------- MODULE MC_QuoteCollection -------------------------
(* Instances of QuoteCollection for TLC.                                   *)
EXTENDS QuoteCollection, TLC

CONSTANTS qty, specs, s1, s2

Symmetry == Permutations(Callers) \cup Permutations(MIds)

(* One supplier agrees and adds to it, the other refuses and then agrees.  *)
Agreement == {"accepts", "days", "usd", "inspection"}
Agrees == << Agreement, {"usd", "shortage"} >>
Refuses == << {"refuses", "backlog"}, Agreement >>

SomeStories == {[s \in Suppliers |-> IF s = s1 THEN Agrees ELSE Refuses]}

(* The rollup of the supplier who agrees accepts, the other's declines,    *)
(* whatever is said later.                                                 *)
SomeRollups == {[supplier |-> s1, accepts |-> TRUE], [supplier |-> s2, accepts |-> FALSE]}

SomeMessages == {{qty}, {qty, specs}}
=============================================================================
