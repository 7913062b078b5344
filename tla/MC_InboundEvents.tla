------------------------- MODULE MC_InboundEvents -------------------------
(* Instances of InboundEvents for TLC.                                     *)
EXTENDS InboundEvents, TLC

CONSTANTS c1, c2, i1, i2, i3, t1, t2

Message(shape, conv, id, kind, named, text) ==
  [shape |-> shape, conv |-> conv, id |-> id, kind |-> kind, named |-> named, text |-> text]

(* An RFQ, and in the conversation of a supplier a reply that names the    *)
(* project and a status question that does not.                            *)
NativeMessages ==
  {Message("native", c1, i1, "rfq", FALSE, t1), Message("native", c2, i2, "reply", TRUE, t1),
   Message("native", c2, i3, "status", FALSE, t1)}

(* Two turns of one /invoke session.                                       *)
InvokeTurns ==
  {Message("invoke", c1, Blank, "rfq", FALSE, t1), Message("invoke", c1, Blank, "rfq", FALSE, t2)}

Symmetry == Permutations(Requests)
=============================================================================
