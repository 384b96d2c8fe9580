SPECIFICATION Spec
CONSTANTS
  Hangzhou = Hangzhou
  Xian = Xian
  Lhasa = Lhasa
  Drafts <- MCDrafts
  Texts <- MCTexts
  Patches <- MCPatches
  RulePatches <- MCRulePatches
  MaxAttempts = 2
  MaxDays = 30
  MaxPeople = 20
  MaxVersion = 3
  Parts = 2
  HotelsOf <- MCHotelsOf
  HardOperators <- MCHardOperators
  Subjective <- MCSubjective
INVARIANTS
  RevisionKeepsDates
  SaidIsDone
  UnsaidStays
  ReportIsComplete
CHECK_DEADLOCK FALSE
