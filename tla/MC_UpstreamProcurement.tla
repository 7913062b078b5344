---------------------- MODULE MC_UpstreamProcurement -----------------------
(* Instances of UpstreamProcurement for TLC: a project with one planned    *)
(* dependency, an inquiry, two responses and the options made of them.     *)
EXTENDS UpstreamProcurement, TLC

Symmetry == Permutations(Requests)

(* Of one order only the logistics are planned, of one an inspection too.  *)
Plain == [apparel |-> FALSE, destination |-> FALSE, large |-> FALSE, quality |-> FALSE]
TwoOrders == {Plain, [Plain EXCEPT !.destination = TRUE]}

Freight == [by |-> Earlier, type |-> "logistics"]
Response(supply) == [by |-> Earlier, dep |-> Freight, supply |-> supply]
SeedResponses == {Response("clean"), Response("risky")}

SomeFiles ==
  [dependencies |-> {Freight},
   inquiries |-> {[by |-> Earlier, dep |-> Freight]},
   responses |-> SeedResponses,
   options |-> [by : {Earlier}, of : SeedResponses],
   approvals |-> {},
   rollup |-> {}]

(* What an ended request left in its variables is never read again: states *)
(* that differ in it only have the same future.                            *)
Live ==
  <<file, form, accepted, submitted, crashes,
    [r \in Requests |->
       IF pc[r] = "new" THEN <<"new">>
       ELSE IF pc[r] \notin Running THEN <<"ended">>
       ELSE <<pc[r], op[r], todo[r], want[r], record[r],
              IF pc[r] \in Saving THEN buffer[r] ELSE made[r]>>]>>
=============================================================================
