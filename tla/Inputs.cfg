\* Every source of up to three lines, every fixture of up to two records.
CONSTANTS
  Texts <- ShortTexts
  Fixtures <- RecordLists
  CaseFixtures <- CaseLists
  Counters = {"automatic_push"}
  Atoi <- Digits
SPECIFICATION Spec
INVARIANTS TypeOK LastWordCounts FixturesComplete
