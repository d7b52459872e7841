SPECIFICATION AskSpec
CONSTANTS
  example = example
  verdict = verdict
  draft = draft
  None = None
  Objects = {example, verdict, draft}
  Valid = {example, verdict}
  Texts <- ShortTexts
  Budgets = {1}
  MaxAsks = 1
INVARIANTS
  LastValidWins
CHECK_DEADLOCK FALSE
