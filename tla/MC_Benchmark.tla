---------------------------- MODULE MC_Benchmark ----------------------------
EXTENDS Benchmark, TLC

(* A process with an external provider, one that may also be called        *)
(* without approval, and one that does without the language skill.         *)
Hosted == [provider |-> "openai", model |-> "", llm |-> TRUE, external |-> TRUE,
           autoAllowed |-> FALSE, skill |-> TRUE, failSoft |-> TRUE]
HostedAllowed == [Hosted EXCEPT !.autoAllowed = TRUE]
PlainMock == [Hosted EXCEPT !.provider = "mock", !.external = FALSE,
                            !.failSoft = FALSE]

MCAmbients == {HostedAllowed, PlainMock}

(* The skill has no more than a product, but says where a destination      *)
(* comes from; it has all.                                                 *)
Partly == [normalized |-> TRUE, structured |-> TRUE, fields |-> {"product"},
           valid |-> FALSE, named |-> {"destination"}, listed |-> {"category"}]
Fully == [Partly EXCEPT !.fields = NeededFields, !.valid = TRUE,
                        !.named = NeededFields]
MCSkillReplies == {Partly, Fully}

MCAnswers == {NoAnswer, [confident |-> TRUE, fields |-> Fields]}

MCOptions == {[timed |-> TRUE, failFast |-> FALSE, limited |-> FALSE],
              [timed |-> FALSE, failFast |-> TRUE, limited |-> TRUE]}

MCRuns == 2
MCCaseList == << [language |-> "en", required |-> TRUE],
                 [language |-> "zh", required |-> TRUE] >>
MCThreads == (1..MCRuns) \X DOMAIN MCCaseList
MCLanguage == [t \in MCThreads |-> MCCaseList[t[2]].language]
=============================================================================
