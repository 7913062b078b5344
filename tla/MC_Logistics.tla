---------------------------- MODULE MC_Logistics ----------------------------
(* Instances of Logistics for TLC: a parcel in transit and delivered, and  *)
(* a report that carries no time.                                          *)
EXTENDS Logistics, TLC

Event(id, time, status) == [id |-> id, time |-> time, status |-> status]

InTransit == Event("e1", 1, "in_transit")
Arrived == Event("e2", 2, "delivered")
Untimed == Event("e3", 0, "exception")

SomeEvents == {InTransit, Arrived, Untimed}
SomeBatches == {<<InTransit>>, <<Arrived, InTransit>>, <<Arrived, Arrived>>}

Symmetry == Permutations(Callers) \cup Permutations(Shipments)
=============================================================================
