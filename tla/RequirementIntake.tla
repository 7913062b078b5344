------------------------- MODULE RequirementIntake -------------------------
(***************************************************************************)
(* Structuring of a buyer's message: which of the four facts that an RFQ   *)
(* needs are found, from which source, and whether they suffice.  A fact   *)
(* is named by what it states; its value is left out.  A product may be    *)
(* stated by name or by category.                                          *)
(***************************************************************************)
EXTENDS FiniteSets

NeededFields == {"quantity", "product", "destination", "delivery"}
Fields == NeededFields \cup {"category"}

(* What the language skill makes of a message: nothing, a canonical text,  *)
(* or structured fields as well; nothing if the call does not come to an   *)
(* answer of 2xx or 3xx that is JSON.  With or without structured fields   *)
(* it may come with field_sources: fields it names a source of, and fields *)
(* it lists without one.                                                   *)
NoReply == [normalized |-> FALSE, structured |-> FALSE, fields |-> {},
            valid |-> FALSE, named |-> {}, listed |-> {}]

(* A model's answer; without confidence the numbers of the text are used.  *)
NoAnswer == [confident |-> FALSE, fields |-> {}]

Requested(outcome, reply) == IF outcome = "json" THEN reply ELSE NoReply

SkillFailed(reply) == ~(reply.normalized /\ reply.structured)

CanonicalizeRfq(enabled, reply) ==
  IF enabled /\ reply.normalized THEN reply ELSE NoReply

HasValidLanguageSkillRfq(reply) ==
  reply.structured /\ reply.valid /\ NeededFields \subseteq reply.fields

(* A message that is not in English is the skill's alone: when it is valid *)
(* there is nothing to extract, and when not, nothing safe to.             *)
CallsModel(language, reply) ==
  LET skipped == HasValidLanguageSkillRfq(reply) /\ language # "en"
      blocked == language # "en" /\ ~HasValidLanguageSkillRfq(reply)
  IN ~skipped /\ ~blocked

(* Quantity and days only: never a product or a place.                     *)
DeterministicParse == {"quantity", "delivery"}

(* Where a value comes from; "" is said of a field without a value.        *)
RecordedSource(language, reply, answer, f) ==
  IF f \in reply.fields THEN "language_skill"
  ELSE IF ~CallsModel(language, reply) THEN ""
  ELSE IF answer.confident /\ f \in answer.fields THEN "llm_structured"
  ELSE IF ~answer.confident /\ f \in DeterministicParse THEN "raw_text_only"
  ELSE ""

(* The requirement, with the skill's own field_sources beside the recorded *)
(* ones.                                                                   *)
StructureRequirement(language, reply, answer) ==
  [recorded |-> [f \in Fields |-> RecordedSource(language, reply, answer, f)],
   named |-> reply.named, listed |-> reply.listed]

(* A category that nobody stated is "general".                             *)
HasValue(requirement, f) == requirement.recorded[f] # "" \/ f = "category"

(* The skill's field_sources win over what was recorded; a field that they *)
(* list without a source keeps the one it has.                             *)
FieldSource(requirement, f) ==
  IF \/ f \in requirement.named
     \/ f \in requirement.listed /\ requirement.recorded[f] = ""
    THEN "language_skill" ELSE requirement.recorded[f]

(* Mutant: a fact that a model stated is authoritative.                    *)
AuthoritativeOrModel(requirement, f) ==
  /\ HasValue(requirement, f)
  /\ FieldSource(requirement, f) \in {"language_skill", "llm_structured"}

IsAuthoritative(requirement, f) ==
  HasValue(requirement, f) /\ FieldSource(requirement, f) = "language_skill"

MissingFields(requirement) ==
  {f \in {"quantity", "delivery"} : ~HasValue(requirement, f)}
    \cup (IF \E f \in {"product", "category"} : IsAuthoritative(requirement, f)
            THEN {} ELSE {"product"})
    \cup (IF IsAuthoritative(requirement, "destination") THEN {} ELSE {"destination"})

Ready(requirement) == MissingFields(requirement) = {}
=============================================================================
