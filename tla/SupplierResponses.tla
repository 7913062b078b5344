------------------------- MODULE SupplierResponses -------------------------
(***************************************************************************)
(* What a supplier's messages come to in a response packet.  The messages  *)
(* are joined, and each fact is looked for in the whole text; a message is *)
(* the set of the things it mentions, and a figure is named by the message *)
(* that gives it.                                                          *)
(***************************************************************************)
EXTENDS Naturals, FiniteSets, Sequences

Words ==
  {"accepts", "refuses", "full", "backlog", "in_stock", "shortage", "inspection",
   "outsourced", "delayed", "holiday", "next_week"}
Figures ==
  {"total_days", "days", "weeks", "sample_days", "usd", "cny", "eur", "moq"}
Terms == {"EXW", "FOB", "DDP", "courier"}

SupplierTexts == SUBSET (Words \cup Figures \cup Terms)

NoFigure == << >>

Mentions(texts, x) == \E i \in DOMAIN texts : x \in texts[i]

FirstOf(texts, figure) ==
  CHOOSE i \in DOMAIN texts : figure \in texts[i] /\ \A j \in 1 .. i - 1 : figure \notin texts[j]

(* The first of these kinds of figure that there is, where it is first     *)
(* given: a later correction is not read.                                  *)
Figure(texts, kinds) ==
  IF \A k \in DOMAIN kinds : ~Mentions(texts, kinds[k]) THEN NoFigure
  ELSE LET k == CHOOSE k \in DOMAIN kinds :
                  Mentions(texts, kinds[k]) /\ \A l \in 1 .. k - 1 : ~Mentions(texts, kinds[l])
       IN << kinds[k], FirstOf(texts, kinds[k]) >>

(* Mutant: what is said first counts.                                      *)
CanMakeAtFirst(texts) ==
  IF Mentions(texts, "accepts") THEN "yes"
  ELSE IF Mentions(texts, "refuses") \/ Mentions(texts, "full") THEN "no"
  ELSE ""

(* A refusal anywhere, or that the factory is full, outweighs what was     *)
(* said before and after.                                                  *)
CanMake(texts) ==
  IF Mentions(texts, "refuses") \/ Mentions(texts, "full") THEN "no"
  ELSE IF Mentions(texts, "accepts") THEN "yes"
  ELSE ""

MaterialAvailable(texts) ==
  IF Mentions(texts, "shortage") THEN "no"
  ELSE IF Mentions(texts, "in_stock") THEN "yes"
  ELSE ""

(* Inspection is offered or not mentioned; it is never refused.            *)
QcAvailable(texts) == IF Mentions(texts, "inspection") THEN "yes" ELSE ""

RedFlags(texts) ==
  {x \in {"outsourced", "delayed", "shortage", "full", "backlog", "holiday"} : Mentions(texts, x)}

LeadTime(texts) == Figure(texts, << "total_days", "days", "weeks" >>)
SampleLeadTime(texts) == Figure(texts, << "sample_days" >>)
UnitPrice(texts) == Figure(texts, << "usd", "cny", "eur" >>)
Moq(texts) == Figure(texts, << "moq" >>)
Logistics(texts) == {x \in Terms : Mentions(texts, x)}

(* How many of seven facts a packet has; a courier is no term of delivery. *)
Completeness(texts) ==
  Cardinality({f \in {"can_make", "lead", "price", "material", "moq", "qc", "terms"} :
    CASE f = "can_make" -> CanMake(texts) # ""
      [] f = "lead"     -> LeadTime(texts) # NoFigure
      [] f = "price"    -> UnitPrice(texts) # NoFigure
      [] f = "material" -> MaterialAvailable(texts) # ""
      [] f = "moq"      -> Moq(texts) # NoFigure
      [] f = "qc"       -> QcAvailable(texts) # ""
      [] f = "terms"    -> Logistics(texts) \ {"courier"} # {}})

(* normalize_supplier_response_text                                        *)
ResponsePacket(texts) ==
  [canMake      |-> CanMake(texts),
   leadTime     |-> LeadTime(texts),
   sample       |-> SampleLeadTime(texts),
   price        |-> UnitPrice(texts),
   moq          |-> Moq(texts),
   material     |-> MaterialAvailable(texts),
   qc           |-> QcAvailable(texts),
   terms        |-> Logistics(texts),
   start        |-> Mentions(texts, "next_week"),
   flags        |-> RedFlags(texts),
   completeness |-> Completeness(texts)]
=============================================================================
