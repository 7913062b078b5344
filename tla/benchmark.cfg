\* Two runs of two cases in any two modes, with and without a time limit.
CONSTANTS
  Threads <- MCThreads
  Language <- MCLanguage
  Ambients <- MCAmbients
  SkillReplies <- MCSkillReplies
  Answers <- MCAnswers
  MaxRetries = 2
  Options <- MCOptions
  Runs <- MCRuns
  Modes = {"A", "C", "E"}
  CaseList <- MCCaseList
SPECIFICATION HarnessFairSpec
INVARIANTS ReportsTrusted AskedAsChecked ReadyBySkill
PROPERTIES TimedRunEnds
\* every run may have been made
CHECK_DEADLOCK FALSE
