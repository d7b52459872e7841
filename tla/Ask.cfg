SPECIFICATION AskFairSpec
CONSTANTS
  example = example
  verdict = verdict
  draft = draft
  None = None
  Objects = {example, verdict, draft}
  Valid = {example, verdict}
  Texts <- ShortTexts
  Budgets = {0, 1, 4}
  MaxAsks = 2
INVARIANTS
  AskTypeOK
  AnswerIsFound
  FencedAnswerSurvives
  RetryFitsAnswer
  FaultsFitAnswer
  EscalatedMeansExhausted
  HealedMeansRepaired
PROPERTIES
  AsksEnd
CHECK_DEADLOCK FALSE
